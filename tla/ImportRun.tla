------------------------------- MODULE ImportRun -------------------------------
(***************************************************************************)
(* An import from its file to the endpoint files it writes: #run of        *)
(* postman-importer.ts and import of openapi-importer.ts, with the output  *)
(* writers (src/importers/).  What the parsers, the flatteners and the     *)
(* assemblers make of an import is given by operators: PostmanImport and   *)
(* OpenApiImport have them.                                                *)
(***************************************************************************)
EXTENDS ImportNames

CONSTANTS
  Imports,          \* the collections and documents imported
  LoadedSpec(_),    \* of a document: whether it loads, and the warnings
  ItemsOf(_),       \* the requests or operations of an import, in order
  KeysOf(_),        \* the environment keys an item needs
  IdCandidate(_),   \* the id an item has when it is free
  Assembled(_, _, _) \* of an item, its import and its id: the endpoint, when there
                    \* is one, and the warnings

VARIABLES
  source,        \* what is imported
  phase,         \* none, start, convert, write, done, defined
  at,            \* the next item to convert, the next file to write
  usedIds,       \* ids that were taken
  writable,      \* endpoints to write: their number, folders and endpoint
  warned,        \* the warnings: <<kind, subject>>
  envKeys,       \* keys the rewritten requests refer to
  files,         \* the files on disk
  written        \* the outcome's count

importVars == <<source, phase, at, usedIds, writable, warned, envKeys, files, written>>

NoImport == [kind |-> "none"]
Items == ItemsOf(source)

\* The names a deduplication among up to n others may choose from are different.
NamesApart(candidate, n) ==
  \A i, j \in 2 .. (n + 1) : NumberedName(candidate, i) = NumberedName(candidate, j) => i = j

\* The ids the item of an import of n items may get.
IdsOf(item, n) ==
  {IdCandidate(item)} \union {NumberedName(IdCandidate(item), k) : k \in 2 .. (n + 1)}

\* An assembler makes at most one endpoint of an item, with the id it was given, and
\* warns when it makes none.  Names with different numbers are different, those of
\* ids and those of files.
Assembles(item, s, n) ==
  /\ NamesApart(IdCandidate(item), n)
  /\ \A id \in IdsOf(item, n) :
       LET result == Assembled(item, s, id)
       IN  \/ result.endpoint = <<>> /\ "skipped" \in result.warned
           \/ /\ result.endpoint = <<result.endpoint[1]>>
              /\ result.endpoint[1].id = id
              /\ NamesApart(ToPathSegment(result.endpoint[1].name), n)

ASSUME ImportsAssumption ==
  \A s \in Imports :
    LET items == ItemsOf(s)
    IN  /\ items \in Seq({items[i] : i \in DOMAIN items})
        /\ \A i \in DOMAIN items : Assembles(items[i], s, Len(items))

ImportOf(s) ==
  /\ source = s
  /\ phase = IF s = NoImport THEN "none" ELSE "start"
  /\ at = 1 /\ written = 0
  /\ usedIds = {} /\ warned = {} /\ envKeys = {}
  /\ writable = <<>>
  /\ files = [p \in {} |-> NoImport]

ImportInit == \E s \in Imports \union {NoImport} : ImportOf(s)

-----------------------------------------------------------------------------
\* A collection is read, parsed and recognised, or the import ends here.
LoadCollection ==
  /\ phase = "start" /\ source.kind = "postman"
  /\ IF source.file = "ok" THEN phase' = "convert" /\ UNCHANGED warned
     ELSE phase' = "done" /\ warned' = {<<"load", 0>>}
  /\ UNCHANGED <<source, at, usedIds, writable, envKeys, files, written>>

LoadDocument ==
  /\ phase = "start" /\ source.kind = "openapi"
  /\ IF LoadedSpec(source).ok THEN phase' = "convert" /\ warned' = LoadedSpec(source).warned
     ELSE phase' = "done" /\ warned' = {<<"load", 0>>}
  /\ UNCHANGED <<source, at, usedIds, writable, envKeys, files, written>>

SkipDisabled ==
  /\ phase = "convert" /\ source.kind = "postman" /\ at <= Len(Items)
  /\ Items[at].request.disabled
  /\ warned' = warned \union {<<"skipped", at>>}
  /\ at' = at + 1
  /\ UNCHANGED <<source, phase, usedIds, writable, envKeys, files, written>>

\* The id is taken whether or not there is an endpoint.
Take(item, id, result) ==
  /\ usedIds' = usedIds \union {id}
  /\ writable' = writable \o
       [i \in DOMAIN result.endpoint |->
          [from |-> at, folders |-> item.folders, endpoint |-> result.endpoint[i]]]

\* The keys of a request count although it is dropped.
ConvertRequest ==
  /\ phase = "convert" /\ source.kind = "postman" /\ at <= Len(Items)
  /\ LET item == Items[at]
         id == Dedupe(IdCandidate(item), usedIds)
         result == Assembled(item, source, id)
     IN  /\ ~item.request.disabled
         /\ Take(item, id, result)
         /\ envKeys' = envKeys \union KeysOf(item)
         /\ warned' = warned \union {<<w, at>> : w \in result.warned}
  /\ at' = at + 1
  /\ UNCHANGED <<source, phase, files, written>>

\* A placeholder is named in a warning of its own.
ConvertOperation ==
  /\ phase = "convert" /\ source.kind = "openapi" /\ at <= Len(Items)
  /\ LET item == Items[at]
         id == Dedupe(IdCandidate(item), usedIds)
         result == Assembled(item, source, id)
     IN  /\ Take(item, id, result)
         /\ warned' = warned \union {<<w, at>> : w \in result.warned}
                        \union {<<"define", k>> : k \in KeysOf(item)}
  /\ at' = at + 1
  /\ UNCHANGED <<source, phase, envKeys, files, written>>

BeginWriting ==
  /\ phase = "convert" /\ at > Len(Items)
  /\ phase' = "write" /\ at' = 1
  /\ UNCHANGED <<source, usedIds, writable, warned, envKeys, files, written>>

WriteNext ==
  /\ phase = "write" /\ at <= Len(writable)
  /\ LET item == writable[at]
         path == PathFor(item.folders, item.endpoint.name, DOMAIN files)
     IN  files' = [p \in DOMAIN files \union {path} |-> IF p = path THEN item ELSE files[p]]
  /\ at' = at + 1
  /\ UNCHANGED <<source, phase, usedIds, writable, warned, envKeys, written>>

\* The files written so far stay, and none is counted.
WriteFails ==
  /\ phase = "write" /\ at <= Len(writable)
  /\ phase' = "done"
  /\ warned' = warned \union {<<"write", at>>}
  /\ UNCHANGED <<source, at, usedIds, writable, envKeys, files, written>>

\* A Postman import that wrote something ends with the keys to define.
FinishImport ==
  /\ phase = "write" /\ at > Len(writable)
  /\ phase' = "done"
  /\ written' = Len(writable)
  /\ warned' = warned \union {<<"define", k>> : k \in IF writable = <<>> THEN {} ELSE envKeys}
  /\ UNCHANGED <<source, at, usedIds, writable, envKeys, files>>

\* The author has defined the keys that were named.
KeysDefined ==
  /\ phase = "done" /\ phase' = "defined"
  /\ UNCHANGED <<source, at, usedIds, writable, warned, envKeys, files, written>>

ImportStep ==
  \/ LoadCollection \/ LoadDocument \/ SkipDisabled \/ ConvertRequest \/ ConvertOperation
  \/ BeginWriting \/ WriteNext \/ WriteFails \/ FinishImport

ImportNext == ImportStep \/ KeysDefined
ImportSpec == ImportInit /\ [][ImportNext]_importVars
-----------------------------------------------------------------------------
WriteFailed == \E w \in warned : w[1] = "write"

\* However the names of an import fall together, each of its requests ends in a file
\* of its own, with an id no other has, or a warning says it was skipped; unless a
\* write failed, the outcome counts the files (path-naming.ts dedupe, the output
\* writers, and #run and #assembleOperations of the importers).
ImportAccountsForAll ==
  /\ \A p, q \in DOMAIN files : files[p].endpoint.id = files[q].endpoint.id => p = q
  /\ (phase \in {"done", "defined"} /\ ~WriteFailed) =>
       /\ written = Cardinality(DOMAIN files)
       /\ <<"load", 0>> \notin warned =>
            \A i \in DOMAIN Items :
              (\E p \in DOMAIN files : files[p].from = i) \/ <<"skipped", i>> \in warned
=============================================================================

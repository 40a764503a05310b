----------------------------- MODULE PostmanImport -----------------------------
(***************************************************************************)
(* What an import makes of one request of a Postman collection: the        *)
(* flattener, the variable templater, the converter, the response seeder,  *)
(* the auth extractor and the assembler of src/importers/postman/.  The    *)
(* state machine that goes from request to request is ImportRun.       *)
(*                                                                         *)
(* A body is "none", not JSON (a text) or JSON (a value); the text of a    *)
(* URL is given, however the collection divides it.  The variables of the  *)
(* collection and of its folders are gathered and used by nothing.         *)
(***************************************************************************)
EXTENDS ImportNaming

NoBody == [mode |-> "none", json |-> FALSE, value |-> Str(<<>>)]
RawText(text) == [mode |-> "raw", json |-> FALSE, value |-> Str(text)]
RawJson(v) == [mode |-> "raw", json |-> TRUE, value |-> v]

\* Depth first, in the order of the collection; an item without a request is
\* passed over.
RECURSIVE Flatten(_, _)
Flatten(items, folders) ==
  FlattenSeq([i \in DOMAIN items |->
    CASE items[i].type = "folder" -> Flatten(items[i].items, Append(folders, items[i].name))
      [] items[i].type = "note" -> <<>>
      [] items[i].type = "request" -> <<[request |-> items[i], folders |-> folders]>>])

-----------------------------------------------------------------------------
(* Variables.                                                              *)

\* The texts of a body as they are written, those of keys included; an object has its
\* keys in some order.
RECURSIVE TextsOf(_)
TextsOf(v) ==
  CASE Kind(v) = "str" -> <<v[2]>>
    [] Kind(v) = "arr" -> FlattenSeq([i \in DOMAIN v[2] |-> TextsOf(v[2][i])])
    [] Kind(v) = "obj" -> LET keys == SetToSeq(DOMAIN v[2])
                          IN  FlattenSeq([i \in DOMAIN keys |->
                                <<TextOfKey(keys[i])>> \o TextsOf(v[2][keys[i]])])
    [] OTHER -> <<>>

\* The key that is written as the text of k has become.
RewriteKey(k, by) ==
  CHOOSE new \in DOMAIN KeyTexts \union {k} : TextOfKey(new) = by[TextOfKey(k)]

\* A body with its texts rewritten.  Of two keys that become one, the later stays.
RECURSIVE RewriteTree(_, _)
RewriteTree(v, by) ==
  LET Put(object, k) == (RewriteKey(k, by) :> RewriteTree(v[2][k], by)) @@ object
  IN  CASE Kind(v) = "str" -> Str(by[v[2]])
        [] Kind(v) = "arr" -> Arr([i \in DOMAIN v[2] |-> RewriteTree(v[2][i], by)])
        [] Kind(v) = "obj" -> Map(FoldLeft(Put, Empty, SetToSeq(DOMAIN v[2])))
        [] OTHER -> v

FieldValues(fields) == [i \in DOMAIN fields |-> fields[i].value]

\* The names of the variables as they are met.
VariablesOf(r) ==
  LET texts == (IF r.body.mode = "raw" THEN TextsOf(r.body.value) ELSE <<>>)
                 \o <<r.url>> \o FieldValues(r.headers) \o FieldValues(r.query)
      Names(text) == SelectSeq(text, LAMBDA fragment : fragment[1] = "var")
  IN  FlattenSeq([i \in DOMAIN texts |-> [j \in DOMAIN Names(texts[i]) |-> Names(texts[i])[j][2]]])

\* The names that have to be changed, to what they become: no two the same within a
\* request, though one may become what another is called.
Renamed(names) ==
  LET Step(known, n) ==
        IF n = "" \/ IsEnvName(n) \/ n \in DOMAIN known THEN known
        ELSE LET clean == IF Sanitized[n] = "" THEN "var" ELSE Sanitized[n]
             IN  known @@ (n :> Dedupe(clean, {known[m] : m \in DOMAIN known}))
  IN  FoldLeft(Step, [n \in {} |-> ""], names)

\* The request with ${env.*} for each {{variable}}, and the keys these name.  An
\* empty name is left as it is.  Fields that are disabled are rewritten too.  The
\* body is rewritten as it is written: {{variables}} in the keys of its objects too.
Rewrite(r) ==
  LET names  == VariablesOf(r)
      become == Renamed(names)
      KeyOf(n) == IF n \in DOMAIN become THEN become[n] ELSE n
      InText(text) == [i \in DOMAIN text |->
        IF text[i][1] = "var" /\ text[i][2] # "" THEN Ref(EnvPath(KeyOf(text[i][2]))) ELSE text[i]]
      InFields(fields) == [i \in DOMAIN fields |-> [fields[i] EXCEPT !.value = InText(@)]]
      InBody(body) == RewriteTree(body.value, [t \in ToSet(TextsOf(body.value)) |-> InText(t)])
  IN  [request |-> [r EXCEPT !.url = InText(@), !.headers = InFields(@), !.query = InFields(@),
                             !.body.value = IF r.body.mode = "raw" THEN InBody(r.body) ELSE @],
       envKeys |-> {KeyOf(n) : n \in ToSet(names) \ {""}}]

-----------------------------------------------------------------------------
(* The endpoint.                                                           *)

SupportedMethods == {"GET", "POST", "PUT", "PATCH", "DELETE", "HEAD", "OPTIONS"}
Enabled(fields) == SelectSeq(fields, LAMBDA f : ~f.disabled)
\* Of two fields of one name the later one stays.
AsObject(fields) ==
  [k \in {fields[i].key : i \in DOMAIN fields} |->
     fields[SelectLastInSeq(fields, LAMBDA f : f.key = k)].value]
HasContent(body) == body.json \/ body.value # Str(<<>>)

IdBase(r) == IF r.name # "" THEN r.name ELSE IF r.id # "" THEN r.id ELSE "endpoint"

BuildRequest(r) ==
  LET raw == r.body.mode = "raw" /\ HasContent(r.body)
  IN  [headers |-> AsObject(Enabled(r.headers)),
       query   |-> AsObject([i \in DOMAIN Enabled(r.query) |->
                               [Enabled(r.query)[i] EXCEPT !.value = Typed("string")]]),
       body    |-> IF raw THEN r.body.value ELSE Undefined,
       schema  |-> IF raw /\ r.body.json THEN Infer(r.body.value) ELSE Undefined]

\* The first 2xx example, otherwise the first; no example is a pending review.
ChosenExample(responses) ==
  LET ok == SelectSeq(responses, LAMBDA x : InRange(x.code, 200, 299))
  IN  IF ok # <<>> THEN Head(ok)
      ELSE IF responses # <<>> THEN Head(responses) ELSE [code |-> Num(200), body |-> NoBody]

SeedResponse(responses) ==
  LET chosen == ChosenExample(responses)
  IN  [status |-> IF InRange(chosen.code, 100, 599) THEN chosen.code ELSE Num(200),
       schema |-> IF ~HasContent(chosen.body) THEN PendingReview
                  ELSE IF chosen.body.json THEN Infer(chosen.body.value) ELSE Permissive]

AuthTypeMap == ("bearer" :> "user_token") @@ ("basic" :> "basic_auth") @@ ("apikey" :> "api_key")

\* The script is empty, does more than set a token, or sets one and nothing else.
ExtractAuth(r) ==
  IF r.auth \in DOMAIN AuthTypeMap THEN [strategy |-> AuthTypeMap[r.auth], warned |-> FALSE]
  ELSE [strategy |-> IF r.script = "sets_token" THEN "user_token" ELSE "",
        warned   |-> r.script = "other" \/ (r.script = "" /\ r.auth # "")]

\* infer() throws on the bodies it is given; the id is taken by then, and so is that
\* of a request without a supported method.
AssemblePostman(r, id) ==
  LET rewritten == Rewrite(r).request
      example   == ChosenExample(r.responses).body
      TooDeep(body) == body.json /\ NestsDeeper(body.value, InferDepth)
      usable    == /\ r.method \in SupportedMethods
                   /\ ~(r.body.mode = "raw" /\ TooDeep(rewritten.body)) /\ ~TooDeep(example)
      auth      == ExtractAuth(r)
      endpoint  == [id |-> id, name |-> IF r.name = "" THEN id ELSE r.name,
                    url |-> IF rewritten.url = <<>> THEN <<Lit("/")>> ELSE rewritten.url,
                    auth |-> auth.strategy, request |-> BuildRequest(rewritten),
                    response |-> SeedResponse(r.responses)]
  IN  IF ~usable \/ ~ValidEndpoint(endpoint)
      THEN [endpoint |-> <<>>, warned |-> {"skipped"}]
      ELSE [endpoint |-> <<endpoint>>,
            warned |-> IF auth.warned THEN {"auth"} ELSE {}]
=============================================================================

------------------------------ MODULE ImportNames ------------------------------
(***************************************************************************)
(* The ids and files an import gives (src/importers/postman/path-naming.ts *)
(* and the two output-writer.ts).  How a name is spelled into its slug is  *)
(* a constant; what is done when two names fall together is modelled.      *)
(***************************************************************************)
EXTENDS Naturals, Sequences, FiniteSets, TLC

CONSTANTS
  Slug           \* the names that are not their own slugs, to them; "" is nothing left

SlugOf(text, fallback) ==
  LET slug == IF text \in DOMAIN Slug THEN Slug[text] ELSE text
  IN  IF slug = "" THEN fallback ELSE slug
ToIdSlug(text) == SlugOf(text, "endpoint")
ToPathSegment(text) == SlugOf(text, "unnamed")

NumberedName(candidate, n) == candidate \o "_" \o ToString(n)

\* Variant: the second of two names is numbered, and so is the third.
DedupeOnce(candidate, used) ==
  IF candidate \notin used THEN candidate ELSE NumberedName(candidate, 2)

\* The first free one of candidate, candidate_2, candidate_3, ...
Dedupe(candidate, used) ==
  LET first == CHOOSE n \in 2 .. (Cardinality(used) + 2) :
                 /\ NumberedName(candidate, n) \notin used
                 /\ \A k \in 2 .. (n - 1) : NumberedName(candidate, k) \in used
  IN  IF candidate \notin used THEN candidate ELSE NumberedName(candidate, first)

\* Where an endpoint is written: the folders and the stem of the file.  Files next
\* to the folder whose names begin as its own does may be taken for files in it,
\* which only leaves out a number.
PathFor(folders, name, used) ==
  LET dir == [i \in DOMAIN folders |-> ToPathSegment(folders[i])]
  IN  <<dir, Dedupe(ToPathSegment(name), {p[2] : p \in {q \in used : q[1] = dir}})>>
=============================================================================

------------------------------ MODULE PathSegments ------------------------------
(***************************************************************************)
(* What assertions and queries share: the segments of a path as it is      *)
(* written (src/assertions/target-path-db.ts) and results that may fail.   *)
(***************************************************************************)
EXTENDS JsonValues

Failed == <<"failed">>
Ok(x)  == <<"ok", x>>
IsOk(r) == r[1] = "ok"

DigitValue == ("0" :> 0) @@ ("1" :> 1) @@ ("2" :> 2)

\* A segment made of digits is an index, wherever it was written.
ClassifyPath(segs) ==
  [i \in DOMAIN segs |-> IF segs[i] \in DOMAIN DigitValue
                         THEN <<"index", DigitValue[segs[i]]>> ELSE <<"key", segs[i]>>]
=============================================================================

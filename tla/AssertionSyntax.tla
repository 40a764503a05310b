---------------------------- MODULE AssertionSyntax ----------------------------
(***************************************************************************)
(* From the text of an assertion to its syntax tree: the tokenizer, the    *)
(* parser, the parser of operand regions, of arithmetic and of target      *)
(* paths (src/assertions).  Text is a sequence of pieces:                  *)
(*   <<"word", parts>>   letters, digits and dots, with bracketed parts    *)
(*   <<"num", n>>        digits                                            *)
(*   <<"string", s>>     a quoted string                                   *)
(*   <<"slash", w>>      "/" directly followed by the letters w            *)
(*   <<"minus", loose>>  "-", with a space behind it when loose            *)
(*   <<"sym", c>>        any other character, or ".."                      *)
(* and the parts of a word are <<"text", segs>>, what stands between its   *)
(* dots, and <<"bracket", seg>>.  An assertion with any error has no tree, *)
(* so errors are not told apart; recovery from them, and the limits on the *)
(* length of the text and the number of tokens, are left out.              *)
(***************************************************************************)
EXTENDS PathSegments

CONSTANTS MaxArithDepth    \* deepest nesting of parentheses (64)

OperatorShape ==
  LET Of(names, shape) == [n \in names |-> shape]
  IN  [n \in {"equals", "not_equals", "greater_than", "less_than"} |-> "comparand"]
   @@ Of({"in_range"}, "range") @@ Of({"matches"}, "regex")
   @@ Of({"contains", "starts_with", "ends_with"}, "value")
   @@ Of({"exists", "not_exists", "is_null", "is_not_null", "is_uuid_v4", "is_email",
          "is_url", "is_iso_timestamp", "is_recent_timestamp"}, "none")
   @@ Of({"count_equals", "count_greater_than"}, "numeric")
AllowsArithmeticRhs == {"equals", "not_equals", "greater_than", "less_than", "in_range"}

-----------------------------------------------------------------------------
\* Target paths.

\* A dot before a bracket or behind one separates nothing.
SplitDotAndBracketSegments(parts) ==
  LET Segs(i) ==
        IF parts[i][1] = "bracket" THEN <<parts[i][2]>>
        ELSE LET segs == parts[i][2]
                 lo == IF i > 1 /\ segs[1] = "" THEN 2 ELSE 1
                 hi == IF i < Len(parts) /\ segs[Len(segs)] = "" THEN Len(segs) - 1
                       ELSE Len(segs)
             IN  SubSeq(segs, lo, hi)
  IN  FlattenSeq([i \in DOMAIN parts |-> Segs(i)])

Reference(root, conn, id, path) ==
  Ok([root |-> root, connection |-> conn, queryId |-> id, path |-> ClassifyPath(path)])

At(segs, i) == IF i <= Len(segs) THEN segs[i] ELSE ""

ParseRequest(segs) ==
  IF At(segs, 2) \in {"headers", "body", "url"}
  THEN Reference(<<"request", segs[2]>>, "", "", SubSeq(segs, 3, Len(segs))) ELSE Failed

\* The status and the time have no parts.
ParseResponse(segs) ==
  CASE At(segs, 2) \in {"headers", "body"} ->
         Reference(<<"response", segs[2]>>, "", "", SubSeq(segs, 3, Len(segs)))
    [] At(segs, 2) \in {"status", "time_ms"} /\ Len(segs) = 2 ->
         Reference(<<"response", segs[2]>>, "", "", <<>>)
    [] OTHER -> Failed

CaptureDb(segs) ==
  IF Len(segs) > 2 THEN Reference(<<"db">>, segs[2], segs[3], SubSeq(segs, 4, Len(segs)))
  ELSE Failed

ParseTarget(segs) ==
  CASE \E i \in DOMAIN segs : segs[i] = "" -> Failed
    [] At(segs, 1) = "request"  -> ParseRequest(segs)
    [] At(segs, 1) = "response" -> ParseResponse(segs)
    [] At(segs, 1) = "db"       -> CaptureDb(segs)
    [] OTHER -> Failed

-----------------------------------------------------------------------------
\* The tokenizer.

\* Kinds after which "/" divides and "-" subtracts.
ValueKinds == {"number", "string", "boolean", "null", "target", "rparen", "regex"}

\* An identifier directly behind the target is the operator.
PrevIsValue(toks) ==
  /\ toks # <<>>
  /\ LET prev == Last(toks)[1]
     IN  \/ prev \in ValueKinds
         \/ prev = "identifier" /\ Len(toks) > 1 /\ toks[Len(toks) - 1][1] # "target"

\* Only the first word is a target and takes its brackets along; elsewhere a
\* bracket is a stray character.
WordToken(parts, first) ==
  LET segs == SplitDotAndBracketSegments(parts)
  IN  CASE segs \in {<<"true">>, <<"false">>} -> <<"boolean", segs = <<"true">>>>
        [] segs = <<"null">> -> <<"null">>
        [] ~(segs \in {<<"true">>, <<"false">>, <<"null">>}) /\ first -> <<"target", segs>>
        [] OTHER -> IF Len(parts) > 1 THEN <<"bad">> ELSE <<"identifier", segs>>

\* What a piece adds to a pattern it stands in.
PatternText(piece) ==
  CASE piece[1] = "word"   -> Dotted(SplitDotAndBracketSegments(piece[2]))
    [] piece[1] = "num"    -> <<ToString(piece[2])>>
    [] piece[1] = "string" -> <<"quote">> \o piece[2] \o <<"quote">>
    [] piece[1] = "slash"  -> piece[2]
    [] piece[1] = "minus"  -> <<"-">>
    [] OTHER               -> <<piece[2]>>

Punctuation == ("(" :> <<"lparen">>) @@ (")" :> <<"rparen">>) @@ (".." :> <<"range_sep">>)
            @@ ("+" :> <<"arith_op", "+">>) @@ ("*" :> <<"arith_op", "*">>)

\* A token and the text behind it.
Taken(tok, rest) == [tok |-> tok, rest |-> rest]

\* The pattern ends at the next slash, and its flags are the letters behind it.
ScanRegex(text) ==
  LET rest == Tail(text)
      closers == {i \in DOMAIN rest : rest[i][1] = "slash"}
      close == CHOOSE i \in closers : \A j \in closers : i <= j
      source == Head(text)[2] \o FlattenSeq([i \in 1 .. close - 1 |-> PatternText(rest[i])])
  IN  IF closers = {} THEN Taken(<<"bad">>, <<>>)
      ELSE Taken(<<"regex", source, rest[close][2]>>, SubSeq(rest, close + 1, Len(rest)))

\* Behind a value a slash divides, and the letters behind it are a word.
HandleSlash(text, toks) ==
  LET letters == Head(text)[2]
      word == IF letters = <<>> THEN <<>> ELSE <<<<"word", <<<<"text", letters>>>>>>>>
  IN  IF PrevIsValue(toks) THEN Taken(<<"arith_op", "/">>, word \o Tail(text))
      ELSE ScanRegex(text)

\* A sign stands directly before its number and not behind a value.
HandleMinus(text, toks) ==
  LET rest == Tail(text)
      loose == Head(text)[2]
  IN  IF ~PrevIsValue(toks) /\ ~loose /\ rest # <<>> /\ rest[1][1] = "num"
      THEN Taken(<<"number", -rest[1][2]>>, Tail(rest))
      ELSE Taken(<<"arith_op", "-">>, rest)

HandlePunct(c) == IF c \in DOMAIN Punctuation THEN Punctuation[c] ELSE <<"bad">>

DispatchChar(text, toks) ==
  LET piece == Head(text)
      rest == Tail(text)
  IN  CASE piece[1] = "word"   -> Taken(WordToken(piece[2], toks = <<>>), rest)
        [] piece[1] = "num"    -> Taken(<<"number", piece[2]>>, rest)
        [] piece[1] = "string" -> Taken(piece, rest)
        [] piece[1] = "slash"  -> HandleSlash(text, toks)
        [] piece[1] = "minus"  -> HandleMinus(text, toks)
        [] piece[1] = "sym"    -> Taken(HandlePunct(piece[2]), rest)

RECURSIVE ScanLoop(_, _)
ScanLoop(text, toks) ==
  IF text = <<>> THEN toks
  ELSE LET next == DispatchChar(text, toks)
       IN  ScanLoop(next.rest, Append(toks, next.tok))

Tokenize(text) == ScanLoop(text, <<>>)

-----------------------------------------------------------------------------
\* Arithmetic: sums of products of factors, each chain to the left.  An operator
\* without an operand on either side is an error of the factor it lacks.

\* Variant: all four operators on one level.
OneLevel == <<{"+", "-", "*", "/"}>>

LevelOps == <<{"+", "-"}, {"*", "/"}>>

RECURSIVE ParseChain(_, _, _, _), ChainTail(_, _, _, _), ParseFactor(_, _, _)
\* A result is <<"ok", tree, next>>, where next is the first token not taken.
ParseChain(toks, i, depth, level) ==
  IF level > Len(LevelOps) THEN ParseFactor(toks, i, depth)
  ELSE ChainTail(toks, ParseChain(toks, i, depth, level + 1), depth, level)

ChainTail(toks, left, depth, level) ==
  IF ~IsOk(left) THEN Failed
  ELSE
  LET i == left[3]
  IN  IF i <= Len(toks) /\ toks[i][1] = "arith_op" /\ toks[i][2] \in LevelOps[level]
      THEN LET right == ParseChain(toks, i + 1, depth, level + 1)
           IN  IF IsOk(right)
               THEN ChainTail(toks, <<"ok", <<"binary", toks[i][2], left[2], right[2]>>, right[3]>>,
                              depth, level)
               ELSE Failed
      ELSE left

ParseFactor(toks, i, depth) ==
  LET kind == IF i <= Len(toks) THEN toks[i][1] ELSE "end"
      inner == ParseChain(toks, i + 1, depth + 1, 1)
      target == ParseTarget(toks[i][2])
  IN  CASE kind = "number" -> <<"ok", <<"number", toks[i][2]>>, i + 1>>
        [] kind = "lparen" /\ depth < MaxArithDepth ->
             IF IsOk(inner) /\ inner[3] <= Len(toks) /\ toks[inner[3]][1] = "rparen"
             THEN <<"ok", inner[2], inner[3] + 1>> ELSE Failed
        [] kind = "identifier" /\ Len(toks[i][2]) > 1 ->
             IF IsOk(target) THEN <<"ok", <<"target", target[2]>>, i + 1>> ELSE Failed
        [] OTHER -> Failed

\* Nothing may be left behind the chain.
ParseArithmetic(toks) ==
  LET r == ParseChain(toks, 1, 0, 1)
  IN  IF IsOk(r) /\ r[3] > Len(toks) THEN Ok(<<"arithmetic", r[2]>>) ELSE Failed

-----------------------------------------------------------------------------
\* Operand regions, by the shape the operator asks for.

ParseLiteralOrTarget(toks) ==
  IF Len(toks) # 1 THEN Failed
  ELSE
  LET tok == toks[1]
  IN  CASE tok[1] = "string"  -> Ok(<<"literal", Str(tok[2])>>)
        [] tok[1] = "number"  -> Ok(<<"literal", Num(tok[2])>>)
        [] tok[1] = "boolean" -> Ok(<<"literal", Boolean(tok[2])>>)
        [] tok[1] = "null"    -> Ok(<<"literal", Null>>)
        [] tok[1] = "identifier" ->
             LET ref == ParseTarget(tok[2])
             IN  IF IsOk(ref) THEN Ok(<<"target", ref[2]>>) ELSE Failed
        [] OTHER -> Failed

\* lo..hi with literal numbers only.
ParseRange(toks) ==
  IF /\ Len(toks) = 3
     /\ <<toks[1][1], toks[2][1], toks[3][1]>> = <<"number", "range_sep", "number">>
     /\ toks[1][2] <= toks[3][2]
  THEN Ok(<<"range", Num(toks[1][2]), Num(toks[3][2])>>) ELSE Failed

\* The pattern is the lexeme itself when it is no /.../: a quoted one keeps its
\* quotes.
Lexeme(tok) ==
  LET Plain(source) == [source |-> source, flags |-> <<>>]
  IN  CASE tok[1] = "regex"      -> [source |-> tok[2], flags |-> tok[3]]
        [] tok[1] = "identifier" -> Plain(Dotted(tok[2]))
        [] tok[1] = "string"     -> Plain(<<"quote">> \o tok[2] \o <<"quote">>)
        [] tok[1] = "number"     -> Plain(<<ToString(tok[2])>>)
        [] tok[1] = "boolean"    -> Plain(<<IF tok[2] THEN "true" ELSE "false">>)
        [] tok[1] = "arith_op"   -> Plain(<<tok[2]>>)
        [] OTHER -> Plain(<<CASE tok[1] = "lparen" -> "(" [] tok[1] = "rparen" -> ")"
                              [] OTHER -> tok[1]>>)

RegexFlags == {"i", "m", "s", "u"}

\* The engine's own check of a pattern: groups close and a repetition repeats
\* something.
RegExpCompiles(source) ==
  LET Count(c) == Cardinality({i \in DOMAIN source : source[i] = c})
  IN  /\ Count("(") = Count(")")
      /\ source # <<>> => Head(source) \notin {"*", "+"}

CompileRegex(tok) ==
  LET pattern == Lexeme(tok)
      flags == pattern.flags
  IN  IF /\ \A i \in DOMAIN flags : flags[i] \in RegexFlags
         /\ \A i, j \in DOMAIN flags : i # j => flags[i] # flags[j]
         /\ RegExpCompiles(pattern.source)
      THEN Ok(<<"regex", pattern>>) ELSE Failed

ParseNumeric(toks) ==
  IF Len(toks) = 1 /\ toks[1][1] \in {"number", "identifier"}
  THEN ParseLiteralOrTarget(toks) ELSE Failed

\* Arithmetic starts with a parenthesis.
ParseComparand(op, toks) ==
  IF toks # <<>> /\ toks[1][1] = "lparen"
  THEN IF op \in AllowsArithmeticRhs THEN ParseArithmetic(toks) ELSE Failed
  ELSE ParseLiteralOrTarget(toks)

ParseOperand(op, toks) ==
  LET shape == OperatorShape[op]
  IN  CASE shape = "none"  -> IF toks = <<>> THEN Ok(<<"none">>) ELSE Failed
        [] shape = "range" -> ParseRange(toks)
        [] shape = "regex" -> IF Len(toks) = 1 THEN CompileRegex(toks[1]) ELSE Failed
        [] shape = "value" -> ParseLiteralOrTarget(toks)
        [] shape = "numeric" -> ParseNumeric(toks)
        [] shape = "comparand" -> ParseComparand(op, toks)

ParseAssertion(text) ==
  LET toks == Tokenize(text)
  IN  IF \/ Len(toks) < 2
         \/ \E i \in DOMAIN toks : toks[i][1] = "bad"
         \/ toks[1][1] # "target"
         \/ toks[2][1] # "identifier"
         \/ Len(toks[2][2]) # 1
         \/ toks[2][2][1] \notin DOMAIN OperatorShape
      THEN Failed
      ELSE LET target  == ParseTarget(toks[1][2])
               op      == toks[2][2][1]
               operand == ParseOperand(op, SubSeq(toks, 3, Len(toks)))
           IN  IF IsOk(target) /\ IsOk(operand)
               THEN Ok([target |-> target[2], operator |-> op, operand |-> operand[2]])
               ELSE Failed
=============================================================================

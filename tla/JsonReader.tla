----------------------------- MODULE JsonReader -----------------------------
(***************************************************************************)
(* The JSON reader of src/json_reader.c.  A text is a sequence of symbols, *)
(* one for each class of bytes the reader tells apart; a literal is the    *)
(* two symbols "t" "r", and a hex escape has HexDigits digits.  A reader   *)
(* is a record, and a call returns its result with the reader it leaves    *)
(* behind: a call that fails has often moved on in the text.               *)
(***************************************************************************)
EXTENDS Decimals, SequencesExt

CONSTANTS MaxNesting,  \* JSON_MAX_NESTING_DEPTH
          StackBits,   \* width of json_bit_stack_t.stack
          HexDigits    \* bound: digits of a \u escape, 4 in the code

ASSUME JsonAssumption ==
  /\ MaxNesting \in Nat \ {0} /\ StackBits \in Nat \ {0} /\ HexDigits \in Nat \ {0}

Hex == Digits \cup {"d", "e", "f"}
Quote == "\""
Escape == "\\"
Control == "^"  \* a byte below the space that only \u can write
Space == " "

At(p, i) == IF i \in 1 .. Len(p) THEN p[i] ELSE "end"
FirstFrom(p, i, S) == CHOOSE j \in i .. Len(p) + 1 :
                        At(p, j) \notin S /\ \A k \in i .. j - 1 : p[k] \in S
Rest(p, n) == SubSeq(p, n + 1, Len(p))

(* json_bit_stack_t: one bit for each level, 1 for an object.              *)
EmptyStack == [stack |-> 0, depth |-> 0]
Push(s, item) == [stack |-> (2 * s.stack + item) % 2 ^ StackBits, depth |-> s.depth + 1]
Pop(s) == IF s.depth = 0 THEN s ELSE [stack |-> s.stack \div 2, depth |-> s.depth - 1]
Peek(s) == s.stack % 2
Bit == [begin_object |-> 1, end_object |-> 1, begin_array |-> 0, end_array |-> 0]

Reader(json) ==
  [json |-> json, kind |-> "none", slice |-> <<>>, escaped |-> FALSE, current_depth |-> 0,
   consumed |-> 0, complex |-> FALSE, bits |-> EmptyStack]
Remaining(r) == Rest(r.json, r.consumed)
Skipped(r) == [r EXCEPT !.consumed = FirstFrom(r.json, @ + 1, {Space}) - 1]
Ret(res, r) == [res |-> res, r |-> r]
AndThen(ret, Call(_)) == IF ret.res = "ok" THEN Call(ret.r) ELSE ret

Token(r, kind, n) ==
  LET opens == kind \in {"begin_object", "begin_array"} IN
  Ret("ok", [r EXCEPT !.kind = kind, !.slice = SubSeq(Remaining(r), 1, n), !.escaped = FALSE,
                      !.current_depth = r.bits.depth - (IF opens THEN 1 ELSE 0),
                      !.consumed = @ + n])
-----------------------------------------------------------------------------
ContainerStart(r, kind) ==
  IF r.bits.depth >= MaxNesting THEN Ret("nesting_overflow", r)
  ELSE Token([r EXCEPT !.bits = Push(@, Bit[kind])], kind, 1)
ContainerEnd(r, kind) ==
  IF r.bits.depth = 0 \/ Peek(r.bits) # Bit[kind] THEN Ret("unexpected_char", r)
  ELSE Token([r EXCEPT !.bits = Pop(@)], kind, 1)

(* Where the string that starts at p ends: at its quote, or why not.       *)
StringScan(p) ==
  LET scan[i \in 1 .. Len(p) + 1] ==
        LET hex == SubSeq(p, i + 2, i + 1 + HexDigits) IN
        CASE i > Len(p) -> <<"unexpected_end", 0>>
          [] At(p, i) = Quote -> <<"ok", i>>
          [] At(p, i) = Control -> <<"unexpected_char", 0>>
          [] At(p, i) = Escape /\ At(p, i + 1) = "u" ->
               IF i + HexDigits >= Len(p) THEN <<"unexpected_end", 0>>
               ELSE IF Range(hex) \subseteq Hex THEN scan[i + 2 + HexDigits]
               ELSE <<"unexpected_char", 0>>
          [] At(p, i) = Escape /\ At(p, i + 1) = "end" -> <<"unexpected_end", 0>>
          [] At(p, i) = Escape /\ At(p, i + 1) \in {Quote, Escape} -> scan[i + 2]
          [] At(p, i) = Escape -> <<"unexpected_char", 0>>
          [] OTHER -> scan[i + 1]
  IN  scan[1]

(* reader_process_string: the opening quote is consumed even if it fails.  *)
String(r) ==
  LET in   == [r EXCEPT !.consumed = @ + 1]
      p    == Remaining(in)
      scan == StringScan(p)
      body == SubSeq(p, 1, scan[2] - 1) IN
  IF scan[1] # "ok" THEN Ret(scan[1], in)
  ELSE Ret("ok", [in EXCEPT !.kind = "string", !.slice = body,
                            !.escaped = Escape \in Range(body),
                            !.current_depth = r.bits.depth, !.consumed = @ + scan[2]])

PropertyName(r) ==
  LET colon(s) ==
        LET n == Skipped([s EXCEPT !.kind = "property_name"])
            b == At(Remaining(n), 1) IN
        CASE b = ":" -> Ret("ok", [n EXCEPT !.consumed = @ + 1])
          [] b = "end" -> Ret("unexpected_end", n)
          [] OTHER -> Ret("unexpected_char", n)
  IN  AndThen(String(r), colon)

(* The parts of a number: each gives the place behind it, or 0 for a       *)
(* number that is malformed.                                               *)
IntegerPart(p) ==
  LET i == IF p[1] = "-" THEN 2 ELSE 1 IN
  CASE At(p, i) = "0" -> i + 1
    [] At(p, i) \in Digits \ {"0"} -> FirstFrom(p, i, Digits)
    [] OTHER -> 0
FractionalPart(p, i) ==
  CASE i = 0 \/ At(p, i) # "." -> i
    [] At(p, i) = "." /\ At(p, i + 1) \in Digits -> FirstFrom(p, i + 1, Digits)
    [] OTHER -> 0
ExponentPart(p, i) ==
  LET j == IF At(p, i + 1) = "-" THEN i + 2 ELSE i + 1 IN
  CASE i = 0 \/ At(p, i) # "e" -> i
    [] At(p, i) = "e" /\ At(p, j) \in Digits -> FirstFrom(p, j, Digits)
    [] OTHER -> 0
Number(r) ==
  LET p    == Remaining(r)
      next == ExponentPart(p, FractionalPart(p, IntegerPart(p))) IN
  CASE next = 0 \/ At(p, next) \notin {"end", ",", "}", "]", Space} -> Ret("unexpected_char", r)
    [] next > Len(p) /\ r.complex -> Ret("unexpected_end", r)
    [] OTHER -> Token(r, "number", next - 1)

Literal(r) ==
  CASE Len(Remaining(r)) < 2 -> Ret("unexpected_end", r)
    [] Len(Remaining(r)) >= 2 /\ Remaining(r)[2] # "r" -> Ret("unexpected_char", r)
    [] OTHER -> Token(r, "literal", 2)

Value(r) ==
  LET b == At(Remaining(r), 1) IN
  CASE b = Quote -> String(r)
    [] b = "{" -> ContainerStart(r, "begin_object")
    [] b = "[" -> ContainerStart(r, "begin_array")
    [] b \in Digits \cup {"-"} -> Number(r)
    [] b = "t" -> Literal(r)
    [] OTHER -> Ret("unexpected_char", r)

AfterComma_Fault(r) ==
  LET b == At(Remaining(r), 1) IN
  CASE b = "end" -> Ret("unexpected_end", r)
    [] b = "]" -> ContainerEnd(r, "end_array")
    [] b # "end" /\ Peek(r.bits) = 0 -> Value(r)
    [] b = Quote /\ Peek(r.bits) = 1 -> PropertyName(r)
    [] OTHER -> Ret("unexpected_char", r)
AfterComma(r) ==
  LET b == At(Remaining(r), 1) IN
  CASE b = "end" -> Ret("unexpected_end", r)
    [] b # "end" /\ Peek(r.bits) = 0 -> Value(r)
    [] b = Quote /\ Peek(r.bits) = 1 -> PropertyName(r)
    [] OTHER -> Ret("unexpected_char", r)

AfterValue(r) ==
  LET b == At(Remaining(r), 1) IN
  CASE r.bits.depth > 0 /\ b = "," -> AfterComma(Skipped([r EXCEPT !.consumed = @ + 1]))
    [] r.bits.depth > 0 /\ b = "}" -> ContainerEnd(r, "end_object")
    [] r.bits.depth > 0 /\ b = "]" -> ContainerEnd(r, "end_array")
    [] OTHER -> Ret("unexpected_char", r)

(* json_reader_next_token.                                                 *)
NextToken(reader) ==
  LET r == Skipped(reader)
      b == At(Remaining(r), 1) IN
  CASE b = "end" -> Ret(IF r.kind = "none" \/ r.bits.depth # 0 THEN "unexpected_end"
                        ELSE "json_reader_done", r)
    [] b # "end" /\ r.kind = "none" -> Value([r EXCEPT !.complex = @ \/ b \in {"{", "["}])
    [] b # "end" /\ r.kind = "begin_object" ->
         (CASE b = "}" -> ContainerEnd(r, "end_object")
            [] b = Quote -> PropertyName(r)
            [] OTHER -> Ret("unexpected_char", r))
    [] b # "end" /\ r.kind = "begin_array" ->
         IF b = "]" THEN ContainerEnd(r, "end_array") ELSE Value(r)
    [] b # "end" /\ r.kind = "property_name" -> Value(r)
    [] OTHER -> AfterValue(r)

(* next_token again and again, while it is ok and More holds.              *)
ReadWhile(ret, More(_)) ==
  FoldLeftDomain(LAMBDA acc, i : IF acc.res = "ok" /\ More(acc.r) THEN NextToken(acc.r) ELSE acc,
                 ret, ret.r.json)
-----------------------------------------------------------------------------
Entered(r) == IF r.kind = "property_name" THEN NextToken(r) ELSE Ret("ok", r)
Through(s, Inside(_)) == IF s.kind \in {"begin_object", "begin_array"}
                         THEN ReadWhile(NextToken(s), Inside) ELSE Ret("ok", s)
SkipChildren_Fault(r) ==
  AndThen(Entered(r), LAMBDA s : Through(s, LAMBDA t : t.kind \notin {"end_object", "end_array"}))
SkipChildren(r) ==
  AndThen(Entered(r), LAMBDA s : Through(s, LAMBDA t : t.bits.depth >= s.bits.depth))

Rewind(r) == Reader(r.json)

(* From a name that does not match past its value.                         *)
PastMember(s) == AndThen(AndThen(NextToken(s), SkipChildren), NextToken)

(* json_reader_find_property.  Equal compares a token with the name: it is *)
(* json_token_is_text_equal, of another file.                              *)
FindProperty(r, Equal(_)) ==
  LET differs(acc) == acc.res = "ok" /\ acc.r.kind = "property_name" /\ ~Equal(acc.r)
      members == FoldLeftDomain(LAMBDA acc, i : IF differs(acc) THEN PastMember(acc.r) ELSE acc,
                                IF r.kind = "begin_object" THEN NextToken(r) ELSE Ret("ok", r),
                                r.json)
      answer(s) == CASE s.kind = "end_object" -> Ret("not_found", s)
                     [] s.kind = "property_name" -> NextToken(s)
                     [] OTHER -> Ret("unexpected_char", s)
  IN  AndThen(members, answer)

(* The loop of json_reader_for_each_array_element around its visitor.      *)
Drained(ret, entry_depth) == ReadWhile(ret, LAMBDA s : s.bits.depth > entry_depth)
NextElement(r, entry_depth) == AndThen(Drained(Ret("ok", r), entry_depth), NextToken)

(* What is validated before it is appended to a writer, and every token of *)
(* a text read to its end or its first error.                              *)
Validate(text) ==
  LET verdict(end) == IF end.res = "json_reader_done" THEN Ret("ok", end.r) ELSE end
  IN  verdict(ReadWhile(NextToken(Reader(text)), LAMBDA s : TRUE))
=============================================================================

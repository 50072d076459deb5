---------------------------- MODULE JsonDocument ----------------------------
(***************************************************************************)
(* A document from the writer to the reader.  A client appends in any      *)
(* order, correct or not; the bytes written so far are then read, as they  *)
(* are or with one symbol changed.  A client stops at the first error, as  *)
(* every caller of next_token in the library does.                         *)
(***************************************************************************)
EXTENDS JsonWriter

CONSTANTS Strings, Names,   \* what is appended
          Ints, Doubles,    \* Doubles: <<v, fractional digits>>
          Texts,            \* fragments for append_json_text
          Symbols,          \* what a symbol is changed to
          MaxEdited,        \* bound: the longest text that is changed
          Numerals          \* the symbols of number tokens that are only parsed

VARIABLES mode,    \* "write", "read", "edited", or a token on its own
          w,       \* the writer
          log,     \* every token that was appended and where it ends
          r,       \* the reader
          result,  \* of the last call on it
          call,    \* that call and the token it started from
          each,    \* json_reader_for_each_array_element: its locals
          double   \* a value that is only formatted, and its digits

docVars == <<mode, w, log, r, result, call, each, double>>

NoCall == [op |-> "none", from |-> 0, name |-> <<>>]
NoLoop == [active |-> FALSE, entry_depth |-> 0, index |-> 0, from |-> 0]
DocInit ==
  /\ mode = "write" /\ w = Writer /\ log = <<>>
  /\ r = Reader(<<>>) /\ result = "ok" /\ call = NoCall /\ each = NoLoop
  /\ double = <<0, 0>>

(* The tokens of a fragment, as far as it can be read.                     *)
Entry(kind, value, end) == [kind |-> kind, value |-> value, end |-> end]
TokenText(s) == IF s.kind \in {"string", "property_name"} THEN GetString(s, Len(s.json))[2]
                ELSE s.slice
TokensOf(text, offset) ==
  LET add(tokens, n) ==
        [r |-> n.r, log |-> IF n.res = "ok" THEN Append(tokens, Entry(n.r.kind, TokenText(n.r),
                                                                    offset + n.r.consumed))
                            ELSE tokens]
      step(acc, i) == add(acc.log, NextToken(acc.r))
  IN  FoldLeftDomain(step, [r |-> Reader(text), log |-> <<>>], text).log

TokensAppended(out, tokens) ==
  /\ mode = "write" /\ out.res = "ok" /\ w' = out.w
  /\ log' = log \o tokens
  /\ UNCHANGED <<mode, r, result, call, each, double>>
Appended(out, kind, value) == TokensAppended(out, <<Entry(kind, value, Len(out.w.json))>>)

WriteString == \E v \in Strings : Appended(AppendString(w, v), "string", v)
WriteName == \E v \in Names : Appended(AppendPropertyName(w, v), "property_name", v)
WriteLiteral == Appended(AppendLiteral(w), "literal", <<"t", "r">>)
WriteInt32 == \E v \in Ints :
  Appended(AppendInt32(w, v), "number", SignOf(v) \o Decimal(Magn(v)))
WriteDouble == \E v \in Doubles :
  Appended(AppendDouble(w, v[1], v[2]), "number", FormatDouble(v[1], v[2]))
WriteStart == \/ Appended(AppendStart(w, "begin_object", "{"), "begin_object", <<"{">>)
              \/ Appended(AppendStart(w, "begin_array", "["), "begin_array", <<"[">>)
WriteEnd == \/ Appended(AppendEnd(w, "end_object", "}"), "end_object", <<"}">>)
            \/ Appended(AppendEnd(w, "end_array", "]"), "end_array", <<"]">>)
WriteText == \E text \in Texts :
  TokensAppended(AppendJsonText(w, text), TokensOf(text, Len(w.json) + Len(Comma(w))))

(* The text is read as it was written, or with one symbol changed, taken   *)
(* out or put in.                                                          *)
OpenReader ==
  /\ mode = "write" /\ w.json # <<>> /\ mode' = "read" /\ r' = Reader(w.json)
  /\ UNCHANGED <<w, log, result, call, each, double>>
Edits(t) ==
  {RemoveAt(t, i) : i \in DOMAIN t}
  \cup UNION {{ReplaceAt(t, i, s), InsertAt(t, i, s)} : i \in DOMAIN t, s \in Symbols}
Edit ==
  /\ mode = "write" /\ w.json # <<>> /\ Len(w.json) <= MaxEdited /\ mode' = "edited"
  /\ r' \in {Reader(t) : t \in Edits(w.json) \cup {w.json}}
  /\ w' = Writer /\ log' = <<>> /\ UNCHANGED <<result, call, each, double>>
-----------------------------------------------------------------------------
Position == IF \E k \in DOMAIN log : log[k].end = r.consumed
            THEN CHOOSE k \in DOMAIN log : log[k].end = r.consumed ELSE 0
Returned(op, name, ret) ==
  /\ r' = ret.r /\ result' = ret.res
  /\ call' = [op |-> op, from |-> Position, name |-> name]
  /\ UNCHANGED <<mode, w, log, double>>
Reads == mode = "read" /\ result = "ok"

Next_token == Reads /\ ~each.active /\ Returned("next", <<>>, NextToken(r)) /\ UNCHANGED each
Skip_children == Reads /\ ~each.active /\ Returned("skip", <<>>, SkipChildren(r)) /\ UNCHANGED each
Find_property == \E name \in Names :
  /\ Reads /\ ~each.active /\ UNCHANGED each
  /\ Returned("find", name, FindProperty(r, LAMBDA s : TextEqual(s, name)))
Rewind_reader == Reads /\ ~each.active /\ r.kind # "none"
                 /\ Returned("rewind", <<>>, Ret("ok", Rewind(r))) /\ UNCHANGED each

(* The first element; then, when the visitor has returned, the next one.   *)
Loop(ret, loop) ==
  each' = [loop EXCEPT !.active = ret.res = "ok" /\ ret.r.kind # "end_array"]
For_each ==
  /\ Reads /\ ~each.active
  /\ LET loop == [active |-> TRUE, entry_depth |-> r.bits.depth, index |-> 0, from |-> Position]
         ret  == IF r.kind = "begin_array" THEN NextToken(r) ELSE Ret("invalid_state", r)
     IN  Returned("each", <<>>, ret) /\ Loop(ret, loop)
VisitorReads ==
  /\ Reads /\ each.active /\ r.bits.depth > each.entry_depth
  /\ Returned("visit", <<>>, NextToken(r)) /\ UNCHANGED each
VisitorReturns ==
  /\ Reads /\ each.active
  /\ LET ret == NextElement(r, each.entry_depth)
     IN  Returned("each", <<>>, ret) /\ Loop(ret, [each EXCEPT !.index = @ + 1])

(* Tokens on their own, for the getters, and doubles for the writer.       *)
TokenOf(kind, slice) == [Reader(slice) EXCEPT !.kind = kind, !.slice = slice,
                                              !.escaped = Escape \in Range(slice)]
Pick(m, t) == mode = "write" /\ w = Writer /\ mode' = m /\ r' = t
              /\ UNCHANGED <<w, log, result, call, each>>
CompareToken == \E n \in 0 .. Chunk - 1 : \E v \in [1 .. n -> {"x", Quote, Control}] :
  Pick("compare", TokenOf("string", Escaped(v))) /\ UNCHANGED double
ParseNumber == \E n \in 1 .. 3 : \E s \in [1 .. n -> Numerals] :
  Pick("number", TokenOf("number", s)) /\ UNCHANGED double
FormatNumber == \E v \in -2 * Unit .. 2 * Unit, digits \in 0 .. 2 :
  Pick("double", TokenOf("number", FormatDouble(v, digits))) /\ double' = <<v, digits>>

Write == \/ WriteString \/ WriteName \/ WriteLiteral \/ WriteInt32 \/ WriteDouble
         \/ WriteStart \/ WriteEnd \/ WriteText
Read == \/ Next_token \/ Skip_children \/ Find_property \/ Rewind_reader
        \/ For_each \/ VisitorReads \/ VisitorReturns
DocNext == Write \/ OpenReader \/ Edit \/ Read \/ CompareToken \/ ParseNumber \/ FormatNumber
DocSpec == DocInit /\ [][DocNext]_docVars
-----------------------------------------------------------------------------
DocTypeOK ==
  /\ mode \in {"write", "read", "edited", "compare", "number", "double"}
  /\ Len(w.json) <= Capacity /\ w.bits.stack \in 0 .. 2 ^ StackBits - 1
  /\ r.consumed \in 0 .. Len(r.json) /\ r.bits.depth \in 0 .. MaxNesting

(* The reader takes exactly the documents of RFC 8259 that nest no deeper  *)
(* than the limit, whatever was done to a text.                            *)
G == INSTANCE JsonGrammar
VerdictIsGrammar == mode = "edited" => (Validate(r.json).res = "ok" <=> G!IsDocument(r.json))

(* The tokens a reader can deliver: a number at the end of an incomplete   *)
(* document may go on, and is not one of them.                             *)
Complete == w.bits.depth = 0 /\ w.kind # "none"
Shown == IF w.kind = "number" /\ ~Complete /\ Last(w.json) # Space THEN Len(log) - 1
         ELSE Len(log)

(* Where a container that begins at token k ends, 0 if it does not.        *)
Opens(k) == log[k].kind \in {"begin_object", "begin_array"}
Closes(k) == log[k].kind \in {"end_object", "end_array"}
Level(k) == Cardinality({j \in 1 .. k : Opens(j)}) - Cardinality({j \in 1 .. k : Closes(j)})
EndOf(k) == LET ends == {j \in k + 1 .. Len(log) : Level(j) < Level(k)}
            IN  IF ends = {} THEN 0 ELSE CHOOSE j \in ends : \A i \in ends : j <= i

(* What has been written is always the beginning of a document, and the    *)
(* writer and a reader that has read it agree about where in it they are:  *)
(* no order of appends, failed ones included, leaves a text the reader     *)
(* refuses.  Only a fragment can nest deeper than the reader goes.         *)
PlacesAgree ==
  mode = "write" /\ w.json # <<>> =>
    LET v == Validate(w.json) IN
    \/ /\ v.res = (IF Complete THEN "ok" ELSE "unexpected_end") /\ v.r.bits = w.bits
       /\ v.r.kind = w.kind \/ (w.kind = "number" /\ ~Complete)
    \/ /\ v.res = "nesting_overflow" /\ w.bits.depth <= MaxNesting
       /\ \E k \in DOMAIN log : Level(k) > MaxNesting

(* Every token the reader delivers is one that was appended, with the text *)
(* it was appended with: escapes, numbers and fragments included.          *)
RoundTrip ==
  mode = "read" /\ result = "ok" /\ r.kind # "none" =>
    /\ Position > 0 /\ log[Position].kind = r.kind /\ log[Position].value = TokenText(r)
    /\ \A v \in Names \cup Strings :
         r.kind \in {"string", "property_name"} => (TextEqual(r, v) <=> v = log[Position].value)

(* Together: what a client appended, in whatever order and with whatever    *)
(* failures, is what a reader of the text is told.                         *)
WriterReaderAgree == DocTypeOK /\ PlacesAgree /\ RoundTrip

(* skip_children passes everything inside a value and nothing behind it,   *)
(* and fails only when the value is not complete.                          *)
SkipLandsAtEnd ==
  call.op = "skip" /\ call.from > 0 =>
    LET k == IF log[call.from].kind = "property_name" THEN call.from + 1 ELSE call.from
        to == IF k \in DOMAIN log /\ Opens(k) THEN EndOf(k) ELSE k IN
    IF to \in 1 .. Shown THEN result \in {"ok", "nesting_overflow"} /\ (result = "ok" => Position = to)
    ELSE result \in {"unexpected_end", "nesting_overflow"}

(* find_property stops at the value of the first member of this object     *)
(* that has the name, never at one of a nested object, and says not_found  *)
(* only at the end of this object.                                         *)
FindFindsFirst ==
  call.op = "find" /\ call.from > 0 /\ log[call.from].kind \in {"begin_object", "property_name"} =>
    LET level   == Level(call.from)
        end     == EndOf(call.from)
        members == {j \in call.from .. (IF end = 0 THEN Len(log) ELSE end) :
                      log[j].kind = "property_name" /\ Level(j) = level /\ log[j].value = call.name}
    IN  /\ result = "ok" => Position - 1 \in members /\ \A j \in members : Position - 1 <= j
        /\ result = "not_found" => members = {} /\ Position = end
        /\ result \in {"ok", "not_found", "unexpected_end", "nesting_overflow"}

(* for_each calls its visitor once for every element of the array, however *)
(* much of it the visitor reads, and ends on the end of this array.        *)
EachVisitsAll ==
  call.op = "each" /\ result = "ok" =>
    LET elements == {j \in each.from + 1 .. Position :
                       \/ Level(j) = Level(each.from) /\ ~Closes(j)
                       \/ Level(j) = Level(each.from) + 1 /\ Opens(j)} IN
    IF each.active THEN each.index = Cardinality(elements) - 1
    ELSE Position = EndOf(each.from) /\ each.index = Cardinality(elements)

(* Together: every call that moves the reader's cursor over more than one   *)
(* token leaves it where the tokens that were appended say.                *)
NavigationIsExact == SkipLandsAtEnd /\ FindFindsFirst /\ EachVisitsAll

(* A name compares equal exactly to what it says without its escapes,      *)
(* wherever the chunks of the comparison fall.                             *)
NamesCompare ==
  mode = "compare" =>
    LET text == Unescaped(r.slice) IN
    /\ TextEqual(r, text)
    /\ \A c \in {"x", Quote, Control} : ~TextEqual(r, Append(text, c))
    /\ text # <<>> => ~TextEqual(r, Front(text)) /\ ~TextEqual(r, Tail(text) \o <<"7">>)

(* The integer getters give the number a token says, and refuse exactly    *)
(* those that do not fit.                                                  *)
GettersAreExact ==
  mode = "number" =>
    LET neg    == Head(r.slice) = "-"
        digits == IF neg THEN Tail(r.slice) ELSE r.slice
        whole  == digits # <<>> /\ Range(digits) \subseteq Digits
        v      == FoldLeft(LAMBDA a, c : 10 * a + DigitValue(c), 0, digits) * (IF neg THEN -1 ELSE 1)
        exact(get, low, high) ==
          get = IF whole /\ v \in low .. high THEN <<"ok", v>> ELSE Bad
    IN  /\ exact(GetInt32(r.slice), -(2 ^ (Bits32 - 1)), 2 ^ (Bits32 - 1) - 1)
        /\ exact(GetInt64(r.slice), -(2 ^ (Bits64 - 1)), 2 ^ (Bits64 - 1) - 1)
        /\ exact(GetUint32(r.slice), 0, 2 ^ Bits32 - 1)
        /\ exact(GetUint64(r.slice), 0, 2 ^ Bits64 - 1)

(* A formatted double reads back as the magnitude rounded to its digits    *)
(* (cut off, without digits), through the carry into the integer part, the *)
(* leading zeros and the trimmed ones; its sign is lost by a carry only.   *)
DoubleIsRounded ==
  mode = "double" =>
    LET digits   == double[2]
        text     == IF Negative(r.slice) THEN Tail(r.slice) ELSE r.slice
        int      == IntegerPart(text) - 1
        fraction == Rest(text, int + 1)
        value    == FoldLeft(LAMBDA a, c : 10 * a + DigitValue(c), 0, SubSeq(text, 1, int) \o fraction)
        scaled   == Magn(double[1]) * 10 ^ digits
        rounded  == (2 * scaled + (IF digits = 0 THEN 0 ELSE Unit)) \div (2 * Unit)
    IN  /\ NextToken(Reader(r.slice)).res = "ok" /\ Len(fraction) <= digits
        /\ value * 10 ^ (digits - Len(fraction)) = rounded
        /\ Negative(r.slice) <=> double[1] < 0 /\ ~(digits > 0 /\ rounded % 10 ^ digits = 0
                                                     /\ rounded > scaled \div Unit)

(* Together: names, integers and doubles are compared, read and written by *)
(* their value, whatever their escapes, signs, widths and carries.         *)
ValuesAreExact == NamesCompare /\ GettersAreExact /\ DoubleIsRounded

(* A client that moves over a document and asks for its values is told     *)
(* where they are and what they are.                                       *)
ReadingIsExact == NavigationIsExact /\ ValuesAreExact
=============================================================================

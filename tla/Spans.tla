------------------------------- MODULE Spans --------------------------------
(***************************************************************************)
(* The spans of src/span.c: a client cuts a text up with span_iterate,     *)
(* span_split and the searches, and converts numbers.  A span is a place   *)
(* in the text and a length, an unsigned integer; the text is never changed.*)
(***************************************************************************)
EXTENDS Decimals, SequencesExt

CONSTANTS Letters, MaxText,  \* bound: the texts that are cut up
          Delimiters,
          Sizes,             \* bound: how many lengths there are, 2 ^ 32 in the code
          NumberBits,        \* bound: width of the integers, 32 in the code
          Room               \* bound: spans a number is written to

ASSUME SpanAssumption ==
  /\ Sizes \in Nat /\ MaxText \in 0 .. Sizes - 1 /\ NumberBits \in Nat \ {0}
  /\ Delimiters \subseteq Seq(Letters) /\ <<>> \notin Delimiters

VARIABLES text,    \* what the spans point into
          span,    \* what is still to be cut up
          items,   \* what was cut off, in order
          asked    \* the last call and its answer

spanVars == <<text, span, items, asked>>

Empty == [at |-> 0, size |-> 0]  \* SPAN_EMPTY
Whole == [at |-> 0, size |-> Len(text)]
Wrap(n) == n % Sizes
Bytes(s) == SubSeq(text, s.at + 1, s.at + s.size)
Slice(s, start, size) ==
  IF size = 0 \/ Wrap(start + size) > s.size THEN Empty ELSE [at |-> s.at + start, size |-> size]
SliceToEnd(s, start) == Slice(s, start, Wrap(s.size - start))
SliceOut(s, end) == Slice(s, 0, Wrap(s.size - end.size))

(* span_find and span_find_reverse: a position, or -1.                     *)
Matches(s, h, target) == SubSeq(Bytes(s), h + 1, h + Len(target)) = target
NotFound == -1
LastStart_Fault(s, target) == s.size - Len(target) - 1
LastStart(s, target) == s.size - Len(target)
Find(s, start, target) ==
  LET at == {h \in start .. LastStart(s, target) : Matches(s, h, target)} IN
  IF start < 0 \/ target = <<>> \/ Wrap(s.size - start) < Len(target) \/ at = {} THEN NotFound
  ELSE CHOOSE h \in at : \A g \in at : h <= g
FindReverse(s, start, target) ==
  LET from == IF start = -1 THEN s.size - 1 ELSE start
      at == {h \in 0 .. from - Len(target) + 1 : Matches(s, h, target)} IN
  IF target = <<>> \/ Len(target) > s.size
     \/ (start # -1 /\ start \notin Len(target) - 1 .. s.size - 1) \/ at = {} THEN NotFound
  ELSE CHOOSE h \in at : \A g \in at : h >= g

Ask(op, delimiter, start, answer) ==
  asked' = [op |-> op, delimiter |-> delimiter, start |-> start, answer |-> answer, of |-> span]
Nothing == [op |-> "none", delimiter |-> <<>>, start |-> 0, answer |-> 0, of |-> Empty]
SpanInit == text = <<>> /\ span = Empty /\ items = <<>> /\ asked = Nothing

GetText == \E n \in 1 .. MaxText : \E t \in [1 .. n -> Letters] :
  /\ text = <<>> /\ asked.op = "none" /\ text' = t /\ span' = [at |-> 0, size |-> n]
  /\ UNCHANGED <<items, asked>>

(* span_iterate, until it says end_of_data.                                *)
Iterate == \E d \in Delimiters :
  LET h == Find(span, 0, d) IN
  /\ asked.op = "none" \/ (asked.op = "iterate" /\ asked.delimiter = d)
  /\ span.size > 0 /\ Ask("iterate", d, 0, h) /\ UNCHANGED text
  /\ items' = Append(items, IF h = NotFound THEN span ELSE Slice(span, 0, h))
  /\ span' = IF h = NotFound THEN Empty ELSE SliceToEnd(span, h + Len(d))

(* span_split, and the two searches on their own.                          *)
Split == \E d \in Delimiters, start \in 0 .. MaxText :
  LET h == Find(span, start, d) IN
  /\ text # <<>> /\ asked.op = "none" /\ Ask("split", d, start, h) /\ UNCHANGED text
  /\ items' = (IF h = NotFound THEN <<>> ELSE <<Slice(span, start, h - start)>>)
  /\ span' = IF h = NotFound THEN span ELSE SliceToEnd(span, h + Len(d))
Search_reverse == \E d \in Delimiters, start \in -1 .. MaxText :
  /\ text # <<>> /\ asked.op = "none" /\ UNCHANGED <<text, span, items>>
  /\ Ask("reverse", d, start, FindReverse(span, start, d))

(* span_copy: to a shorter copy; then span_slice_out, what is left of it.  *)
Slice_out == \E size \in 0 .. MaxText :
  /\ text # <<>> /\ size <= span.size /\ asked.op = "none" /\ UNCHANGED <<text, items>>
  /\ span' = SliceOut(span, [at |-> span.at + span.size - size, size |-> size])
  /\ Ask("slice_out", <<>>, size, 0)
-----------------------------------------------------------------------------
(* span_to_uint32_t: digits from the right, each with its power of ten,    *)
(* which wraps around.  An answer is <<value>>, or nothing.                *)
Max32 == 2 ^ NumberBits - 1
ToUint32(s) ==
  LET longest == Len(Decimal(Max32))
      add(v, k) == (v + DigitValue(s[k]) * 10 ^ (Len(s) - k)) % 2 ^ NumberBits IN
  IF Len(s) > longest \/ ~(Range(s) \subseteq Digits)
     \/ (Len(s) = longest /\ DigitValue(s[1]) > DigitValue(Decimal(Max32)[1])) THEN <<>>
  ELSE <<FoldLeft(add, 0, [k \in DOMAIN s |-> k])>>

(* span_copy_int32 into a span of n bytes: a mask goes down the powers of  *)
(* ten, with the sign of the value, and each step writes one digit.        *)
Quot(a, b) == IF (a < 0) = (b < 0) THEN (IF a < 0 THEN (-a) \div (-b) ELSE a \div b)
              ELSE -((IF a < 0 THEN -a ELSE a) \div (IF b < 0 THEN -b ELSE b))
Rem(a, b) == a - b * Quot(a, b)
HighestMask_Fault == 10 ^ (Len(Decimal(2 ^ (NumberBits - 1) - 1)) - 2)
HighestMask == 10 ^ (Len(Decimal(2 ^ (NumberBits - 1) - 1)) - 1)
FirstMask(v) ==
  LET mask[m \in 0 .. HighestMask] == IF m = 0 \/ Rem(v, m) # v THEN m ELSE mask[m \div 10]
      low == mask[HighestMask]
  IN  IF v = 0 THEN 1 ELSE IF v < 0 THEN -low ELSE low
CopyInt32(v, n) ==
  LET step(s, k) == IF s.mask = 0 THEN s
                    ELSE [out |-> Append(s.out, ToString(Quot(s.value, s.mask))),
                          value |-> Rem(s.value, s.mask), mask |-> Quot(s.mask, 10)]
      all == FoldLeftDomain(step, [out |-> IF v < 0 THEN <<"-">> ELSE <<>>,
                                   value |-> v, mask |-> FirstMask(v)], Decimal(HighestMask)).out
  IN  IF Len(all) <= n THEN all ELSE <<>>

WriteNumber == \E v \in -(2 ^ (NumberBits - 1)) .. 2 ^ (NumberBits - 1) - 1, n \in Room :
  /\ text = <<>> /\ asked.op = "none" /\ text' = CopyInt32(v, n)
  /\ Ask("write", <<>>, n, v) /\ UNCHANGED <<span, items>>
ReadNumber == \E n \in 0 .. 2 ^ (NumberBits + 1) :
  /\ text = <<>> /\ asked.op = "none" /\ text' = Decimal(n)
  /\ Ask("read", <<>>, n, ToUint32(Decimal(n))) /\ UNCHANGED <<span, items>>

SpanNext == \/ GetText \/ Iterate \/ Split \/ Search_reverse \/ Slice_out
            \/ WriteNumber \/ ReadNumber
SpanSpec == SpanInit /\ [][SpanNext]_spanVars
-----------------------------------------------------------------------------
(* Every span a call hands out lies in the text it was cut from, whatever  *)
(* the lengths wrap to.                                                    *)
SpansStayInside ==
  asked.op \in {"iterate", "split", "slice_out"} =>
    \A s \in Range(items) \cup {span} : s.at + s.size <= Len(text) /\ s.size < Sizes

(* An iteration loses nothing: its items are the text from its start on,   *)
(* each from behind the delimiter that ends the one before it, up to the   *)
(* end of the text; only a delimiter at the very end leaves no item.       *)
Follow(d, place) ==
  \A i \in DOMAIN items :
    /\ place[i] = IF i = 1 THEN 0 ELSE place[i - 1] + items[i - 1].size + Len(d)
    /\ Bytes(items[i]) = SubSeq(text, place[i] + 1, place[i] + items[i].size)
    /\ i # Len(items) => Bytes([at |-> place[i] + items[i].size, size |-> Len(d)]) = d
    /\ \A h \in 0 .. items[i].size - Len(d) : ~Matches(items[i], h, d)
EndsAt(d, end) == \/ end = Len(text)
                  \/ end + Len(d) = Len(text) /\ Bytes([at |-> end, size |-> Len(d)]) = d
IterationIsWhole ==
  asked.op = "iterate" /\ span.size = 0 =>
    \E place \in [DOMAIN items -> 0 .. Len(text)] :
      /\ Follow(asked.delimiter, place)
      /\ EndsAt(asked.delimiter, place[Len(items)] + items[Len(items)].size)

(* A search finds a match if there is one in its range, the first from the *)
(* left or from the right; a split at it loses nothing but the delimiter.  *)
Occurs(h) == h \in 0 .. asked.of.size - Len(asked.delimiter) /\ Matches(asked.of, h, asked.delimiter)
SearchesFindNearest ==
  /\ asked.op = "split" =>
       /\ asked.answer # NotFound => Occurs(asked.answer) /\ asked.answer >= asked.start
       /\ \A h \in asked.start .. Len(text) : Occurs(h) => asked.answer \in asked.start .. h
       /\ asked.answer # NotFound =>
            SubSeq(text, asked.start + 1, Len(text)) = Bytes(items[1]) \o asked.delimiter \o Bytes(span)
  /\ asked.op = "reverse" /\ asked.start < Len(text) =>
       LET last == IF asked.start = -1 THEN Len(text) - 1 ELSE asked.start IN
       /\ asked.answer # NotFound => Occurs(asked.answer)
       /\ \A h \in 0 .. last - Len(asked.delimiter) + 1 : Occurs(h) => asked.answer >= h

(* Together: what cutting and searching a text answer is in the text.      *)
SpansAreExact == SpansStayInside /\ IterationIsWhole /\ SearchesFindNearest

(* A number is written as its decimal digits, to its last value in either  *)
(* direction, or not at all; a written one that is not negative reads back.*)
(* What does not fit is refused only from the next leading digit on, below *)
(* it the value wraps around.                                              *)
NumbersSurvive ==
  /\ asked.op = "write" =>
       LET v == asked.answer
           digits == IF v < 0 THEN <<"-">> \o Decimal(-v) ELSE Decimal(v) IN
       /\ text = IF Len(digits) <= asked.start THEN digits ELSE <<>>
       /\ v >= 0 /\ text # <<>> => ToUint32(text) = <<v>>
  /\ asked.op = "read" =>
       /\ asked.start <= Max32 => asked.answer = <<asked.start>>
       /\ asked.answer \in {<<>>, <<asked.start % 2 ^ NumberBits>>}

=============================================================================

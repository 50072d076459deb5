----------------------------- MODULE JsonWriter -----------------------------
(***************************************************************************)
(* The JSON writer of src/json_writer.c over a buffer of Capacity symbols. *)
(* A writer is a record; an append returns its result with the writer it   *)
(* leaves behind, which is the same one whenever the append fails.         *)
(***************************************************************************)
EXTENDS JsonToken

CONSTANTS Capacity,    \* bound: size of the destination
          Int32Size,   \* JSON_MAX_SIZE_FOR_INT32
          DoubleSize,  \* JSON_MAX_SIZE_FOR_WRITING_DOUBLE
          Unit         \* bound: a double is a whole number of 1 / Unit

ASSUME WriterAssumption ==
  /\ Capacity \in Nat /\ Int32Size \in Nat \ {0} /\ DoubleSize \in Nat \ {0} /\ Unit \in Nat \ {0}

Writer == [json |-> <<>>, need_comma |-> FALSE, kind |-> "none", bits |-> EmptyStack]
Out(res, w) == [res |-> res, w |-> w]
Comma(w) == IF w.need_comma THEN <<",">> ELSE <<>>
Fits(w, n) == Len(w.json) + n <= Capacity

(* writer_advance, with the bytes that were written before it.             *)
Advance(w, bytes, need_comma, kind) ==
  [w EXCEPT !.json = @ \o bytes, !.need_comma = need_comma, !.kind = kind]

InObject(w) == w.bits.depth > 0 /\ Peek(w.bits) = 1
CanAppendValue_Fault(w) == IF InObject(w) THEN w.kind = "property_name" ELSE TRUE
CanAppendValue(w) ==
  IF InObject(w) THEN w.kind = "property_name" ELSE w.bits.depth > 0 \/ w.kind = "none"
CanAppendPropertyName(w) == InObject(w) /\ w.kind # "property_name"
CanAppendContainerEnd(w, kind) ==
  w.bits.depth > 0 /\ w.kind # "property_name" /\ Peek(w.bits) = Bit[kind]

(* json_escaped_length and json_escape_one_byte: every byte of a value     *)
(* with its escape.                                                        *)
EscapeByte(c) ==
  CASE c \in {Quote, Escape} -> <<Escape, c>>
    [] c = Control -> <<Escape, "u">> \o [i \in 1 .. HexDigits |-> "0"]
    [] OTHER -> <<c>>
Escaped(value) == FlattenSeq([i \in DOMAIN value |-> EscapeByte(value[i])])

QuotedString(w, value, ends, need_comma, kind) ==
  LET bytes == Comma(w) \o <<Quote>> \o Escaped(value) \o <<Quote>> \o ends IN
  IF Fits(w, Len(bytes)) THEN Out("ok", Advance(w, bytes, need_comma, kind))
  ELSE Out("insufficient_size", w)
AppendString(w, value) ==
  IF CanAppendValue(w) THEN QuotedString(w, value, <<>>, TRUE, "string")
  ELSE Out("invalid_argument", w)
AppendPropertyName(w, name) ==
  IF name # <<>> /\ CanAppendPropertyName(w)
  THEN QuotedString(w, name, <<":">>, FALSE, "property_name")
  ELSE Out("invalid_argument", w)

(* A literal is as long as it is; a number must find room for the longest. *)
AppendText(w, text, size, kind) ==
  CASE ~CanAppendValue(w) -> Out("invalid_argument", w)
    [] CanAppendValue(w) /\ ~Fits(w, Len(Comma(w)) + size) -> Out("insufficient_size", w)
    [] OTHER -> Out("ok", Advance(w, Comma(w) \o text, TRUE, kind))
AppendLiteral(w) == AppendText(w, <<"t", "r">>, 2, "literal")

SignOf(v) == IF v < 0 THEN <<"-">> ELSE <<>>
Magn(v) == IF v < 0 THEN -v ELSE v
AppendInt32(w, v) == AppendText(w, SignOf(v) \o Decimal(Magn(v)), Int32Size, "number")

(* json_format_double of v / Unit: the fraction is rounded, and a carry    *)
(* writes the integer part again, from the start of the number.            *)
Fraction(n, digits) ==
  LET padded == [i \in 1 .. digits |-> ToString((n \div 10 ^ (digits - i)) % 10)] IN
  SubSeq(padded, 1, CHOOSE k \in 1 .. digits :
                      padded[k] # "0" /\ \A j \in k + 1 .. digits : padded[j] = "0")
FormatDouble(v, digits) ==
  LET int  == Magn(v) \div Unit
      frac == (2 * (Magn(v) % Unit) * 10 ^ digits + Unit) \div (2 * Unit) IN
  CASE digits = 0 \/ frac = 0 -> SignOf(v) \o Decimal(int)
    [] digits > 0 /\ frac >= 10 ^ digits -> Decimal(int + 1)
    [] OTHER -> SignOf(v) \o Decimal(int) \o <<".">> \o Fraction(frac, digits)
AppendDouble(w, v, digits) == AppendText(w, FormatDouble(v, digits), DoubleSize, "number")
AppendDoubleRefused(w) ==  \* not finite, or too large
  IF CanAppendValue(w) /\ ~Fits(w, Len(Comma(w)) + DoubleSize) THEN Out("insufficient_size", w)
  ELSE Out("invalid_argument", w)

AppendStart(w, kind, b) ==
  CASE ~CanAppendValue(w) -> Out("invalid_argument", w)
    [] CanAppendValue(w) /\ w.bits.depth >= MaxNesting -> Out("nesting_overflow", w)
    [] CanAppendValue(w) /\ w.bits.depth < MaxNesting /\ ~Fits(w, Len(Comma(w)) + 1) ->
         Out("insufficient_size", w)
    [] OTHER -> Out("ok", [Advance(w, Comma(w) \o <<b>>, FALSE, kind)
                             EXCEPT !.bits = Push(@, Bit[kind])])
AppendEnd(w, kind, b) ==
  CASE ~CanAppendContainerEnd(w, kind) -> Out("invalid_argument", w)
    [] CanAppendContainerEnd(w, kind) /\ ~Fits(w, 1) -> Out("insufficient_size", w)
    [] OTHER -> Out("ok", [Advance(w, <<b>>, TRUE, kind) EXCEPT !.bits = Pop(@)])

(* json_writer_append_json_text: the text is read through before it is     *)
(* appended; its own nesting is not added to the writer's.                 *)
AppendJsonText(w, text) ==
  LET append(v) ==
        CASE text = <<>> -> Out("invalid_argument", w)
          [] text # <<>> /\ v.res # "ok" -> Out(v.res, w)
          [] text # <<>> /\ v.res = "ok" /\ ~CanAppendValue(w) -> Out("invalid_state", w)
          [] text # <<>> /\ v.res = "ok" /\ CanAppendValue(w)
               /\ ~Fits(w, Len(Comma(w)) + Len(text)) -> Out("insufficient_size", w)
          [] OTHER -> Out("ok", Advance(w, Comma(w) \o text, TRUE, v.r.kind))
  IN  append(Validate(text))
=============================================================================

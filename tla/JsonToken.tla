----------------------------- MODULE JsonToken ------------------------------
(***************************************************************************)
(* The getters of src/json_token.c: a token's text without its escapes,    *)
(* the comparison of a token with a name, and the integers.  The escape    *)
(* \u with the digit "d" stands for a high surrogate, "f" for a low one,   *)
(* "0" for a control character; a surrogate pair is one symbol.            *)
(***************************************************************************)
EXTENDS JsonReader

CONSTANTS Chunk,     \* bytes compared in one pass, 16 in the code
          Bits32, Bits64  \* bound: widths of the integer types

ASSUME TokenAssumption == Chunk \in Nat \ {0} /\ Bits32 \in Nat \ {0} /\ Bits64 \in Nat \ {0}

UnicodeEscape == 2 + HexDigits  \* \uXXXX
Pair == 2 * UnicodeEscape
Character == "pair"

(* unescape_into: the text, or the failure on an escape it cannot take.    *)
Malformed == <<"malformed">>
Unescaped(p) ==
  LET escape(i) == At(p, i) = Escape /\ At(p, i + 1) = "u" /\ i + 1 + HexDigits <= Len(p)
      unit(i) == p[i + 1 + HexDigits]
      from[i \in 1 .. Len(p) + 1] ==
        LET then(text, n) == IF from[i + n] = Malformed THEN Malformed
                             ELSE text \o from[i + n] IN
        CASE i > Len(p) -> <<>>
          [] At(p, i) \notin {Escape, "end"} -> then(<<p[i]>>, 1)
          [] At(p, i) = Escape /\ At(p, i + 1) \in {Quote, Escape} -> then(<<p[i + 1]>>, 2)
          [] escape(i) /\ unit(i) \notin {"d", "f"} -> then(<<Control>>, UnicodeEscape)
          [] escape(i) /\ unit(i) = "d" /\ escape(i + UnicodeEscape)
               /\ unit(i + UnicodeEscape) = "f" -> then(<<Character>>, Pair)
          [] OTHER -> Malformed
  IN  from[1]

(* json_token_get_string into a destination with room for n symbols.       *)
GetString(r, n) ==
  LET text == IF r.escaped THEN Unescaped(r.slice) ELSE r.slice IN
  CASE r.kind \notin {"string", "property_name"} -> <<"invalid_state", <<>>>>
    [] r.kind \in {"string", "property_name"} /\ (text = Malformed \/ Len(text) > n) ->
         <<"insufficient_size", <<>>>>
    [] OTHER -> <<"ok", text>>

(* json_token_is_text_equal: how far a chunk of src from i goes without    *)
(* splitting an escape, and the comparison one chunk after the other.      *)
SafeChunk_Fault(src, i) == IF Len(src) - i < Chunk THEN Len(src) - i ELSE Chunk
SafeChunk(src, i) ==
  LET chunk == IF Len(src) - i < Chunk THEN Len(src) - i ELSE Chunk
      safe[n \in 0 .. Len(src)] ==
        LET c == At(src, i + n + 1)
            u == At(src, i + n + 2) = "u" IN
        CASE n >= chunk -> n
          [] n < chunk /\ c # Escape -> safe[n + 1]
          [] n < chunk /\ c = Escape /\ (n + 1 >= chunk
               \/ (u /\ (n + UnicodeEscape > chunk
                       \/ (chunk - n < Pair /\ i + n + Pair <= Len(src))))) -> n
          [] OTHER -> safe[n + (IF u THEN UnicodeEscape ELSE 2)]
  IN  IF safe[0] = 0 THEN chunk ELSE safe[0]

TextEqual(r, expected) ==
  LET equal[i \in 0 .. Len(r.slice), rest \in {Rest(expected, n) : n \in 0 .. Len(expected)}] ==
        LET safe == SafeChunk(r.slice, i)
            text == Unescaped(SubSeq(r.slice, i + 1, i + safe)) IN
        IF i = Len(r.slice) THEN rest = <<>>
        ELSE /\ text # Malformed /\ IsPrefix(text, rest)
             /\ equal[i + safe, Rest(rest, Len(text))]
  IN  /\ r.kind \in {"string", "property_name"}
      /\ IF r.escaped THEN equal[0, expected] ELSE r.slice = expected
-----------------------------------------------------------------------------
UintMax(bits) == 2 ^ bits - 1
IntMax(bits) == 2 ^ (bits - 1) - 1

(* parse_uint64_digits and token_is_pure_integer: the magnitude, or -1.    *)
WouldOverflow(v, d) == v > (UintMax(Bits64) - d) \div 10
Magnitude(s) ==
  LET digits == IF Head(s) = "-" THEN Tail(s) ELSE s
      step(v, c) == IF v = -1 \/ c \notin Digits \/ WouldOverflow(v, DigitValue(c)) THEN -1
                    ELSE v * 10 + DigitValue(c)
  IN  IF s = <<>> \/ digits = <<>> THEN -1 ELSE FoldLeft(step, 0, digits)

(* The getters, on the slice of a number: <<result, value>>.               *)
Bad == <<"unexpected_char", 0>>
Negative(s) == s # <<>> /\ Head(s) = "-"
GetUint64(s) ==
  IF Magnitude(s) = -1 \/ (Negative(s) /\ Magnitude(s) # 0) THEN Bad ELSE <<"ok", Magnitude(s)>>
GetUint32(s) ==
  IF GetUint64(s)[1] = "ok" /\ GetUint64(s)[2] > UintMax(Bits32) THEN Bad ELSE GetUint64(s)
GetInt64(s) ==
  CASE Magnitude(s) = -1 -> Bad
    [] Negative(s) /\ Magnitude(s) \in 0 .. IntMax(Bits64) + 1 -> <<"ok", -Magnitude(s)>>
    [] ~Negative(s) /\ Magnitude(s) \in 0 .. IntMax(Bits64) -> <<"ok", Magnitude(s)>>
    [] OTHER -> Bad
GetInt32(s) ==
  IF GetInt64(s)[1] = "ok" /\ GetInt64(s)[2] \notin -IntMax(Bits32) - 1 .. IntMax(Bits32)
  THEN Bad ELSE GetInt64(s)
=============================================================================

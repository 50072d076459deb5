------------------------------- MODULE Base64 -------------------------------
(***************************************************************************)
(* Base64 as src/base64.c writes and reads it: three bytes are four        *)
(* letters.  A letter is the code of its character.  A decoder with an     *)
(* empty input looks for the padding in front of it: none is given one.    *)
(***************************************************************************)
EXTENDS Integers, Sequences

CONSTANTS Octets,    \* the bytes that are encoded
          MaxOctets  \* bound: how many

Byte == 256
Sextet == 64

ASSUME Base64Assumption ==
  /\ Octets \subseteq 0 .. Byte - 1
  /\ MaxOctets \in Nat /\ (MaxOctets + 2) \div 3 < 1073741824  \* the letters have a 32-bit size

VARIABLES octets, letters, decoded

base64Vars == <<octets, letters, decoded>>

Padding == 61  \* =
Byte64(data, i) == IF i \in DOMAIN data THEN data[i] ELSE 0

(* The table of the encoder, A to Z, a to z, 0 to 9, + and /, and what the *)
(* decoder takes a character for.                                          *)
Letter64(v) == IF v < 26 THEN v + 65 ELSE IF v < 52 THEN v - 26 + 97
               ELSE IF v < 62 THEN v - 52 + 48 ELSE IF v = 62 THEN 43 ELSE 47
Value64(c) == IF c \in 65 .. 90 THEN c - 65 ELSE IF c \in 97 .. 122 THEN c - 97 + 26
              ELSE IF c \in 48 .. 57 THEN c - 48 + 52 ELSE IF c = 43 THEN 62
              ELSE IF c = 47 THEN 63 ELSE 0

(* base64_encode: groups of three bytes, then the padding over the end.    *)
Pads(n) == (3 - (n % 3)) % 3
EncodedSize(n) == 4 * ((n + 2) \div 3)
Shift64(p) == CASE p = 0 -> Sextet * Sextet * Sextet [] p = 1 -> Sextet * Sextet [] p = 2 -> Sextet [] p = 3 -> 1
Encoded(data) ==
  LET triple(k) == (Byte64(data, 3 * k + 1) * Byte + Byte64(data, 3 * k + 2)) * Byte + Byte64(data, 3 * k + 3)
      letter(j) == Letter64((triple(j \div 4) \div Shift64(j % 4)) % Sextet)
  IN  [i \in 1 .. EncodedSize(Len(data)) |->
         IF i > EncodedSize(Len(data)) - Pads(Len(data)) THEN Padding ELSE letter(i - 1)]

(* base64_decode: the size from the padding at the end; what lies behind   *)
(* it is cut off.  A destination that is too small is an error.            *)
DecodedSize_Fault(data) == 3 * (Len(data) \div 4)
DecodedSize(data) ==
  3 * (Len(data) \div 4) - (IF data[Len(data)] = Padding THEN 1 ELSE 0)
                       - (IF data[Len(data) - 1] = Padding THEN 1 ELSE 0)
Shift8(p) == CASE p = 0 -> Byte * Byte [] p = 1 -> Byte [] p = 2 -> 1
Decoded(data, room) ==
  LET value(i) == Value64(data[i])
      triple(k) == ((value(4 * k + 1) * Sextet + value(4 * k + 2)) * Sextet + value(4 * k + 3)) * Sextet
                     + value(4 * k + 4)
      byte(j) == (triple(j \div 3) \div Shift8(j % 3)) % Byte
  IN  IF Len(data) % 4 # 0 \/ room < DecodedSize(data) THEN [room |-> room, ok |-> FALSE, bytes |-> <<>>]
      ELSE [room |-> room, ok |-> TRUE, bytes |-> [i \in 1 .. DecodedSize(data) |-> byte(i - 1)]]

NotYet == [room |-> -1, ok |-> FALSE, bytes |-> <<>>]
Base64Init == octets = <<>> /\ letters = <<>> /\ decoded = NotYet
Encode == \E n \in 1 .. MaxOctets : \E data \in [1 .. n -> Octets] :
  /\ octets = <<>> /\ octets' = data /\ letters' = Encoded(data) /\ UNCHANGED decoded
Decode == \E room \in {Len(octets), Len(octets) - 1} :
  /\ letters # <<>> /\ decoded = NotYet /\ decoded' = Decoded(letters, room)
  /\ UNCHANGED <<octets, letters>>
Base64Next == Encode \/ Decode
Base64Spec == Base64Init /\ [][Base64Next]_base64Vars
-----------------------------------------------------------------------------
(* What was encoded comes back, of every length, from letters with the     *)
(* padding at their end, into a destination that holds just that many      *)
(* bytes; a smaller one gets an error.                                     *)
DecodeInvertsEncode ==
  /\ \A i \in DOMAIN letters : letters[i] = Padding => i > Len(letters) - 2
  /\ decoded # NotYet =>
       IF decoded.room = Len(octets) THEN decoded.ok /\ decoded.bytes = octets ELSE ~decoded.ok
=============================================================================

---------------------------- MODULE JsonGrammar -----------------------------
(***************************************************************************)
(* RFC 8259 over the symbols of JsonReader, as a definition that knows     *)
(* nothing of a reader: an interval of a text is a value when it can be    *)
(* divided into the parts of one.                                          *)
(***************************************************************************)
EXTENDS JsonReader

Blank(t, i, j) == \A k \in i .. j : t[k] = Space

IsNumber(t, i, j) ==
  LET digits(a, b) == a <= b /\ \A k \in a .. b : t[k] \in Digits
      int(a, b) == digits(a, b) /\ (a < b => t[a] # "0")
      signed(a, b) == int(a, b) \/ (t[a] = "-" /\ int(a + 1, b))
      exponent(a, b) == digits(a, b) \/ (t[a] = "-" /\ digits(a + 1, b))
      decimal(a, b) == \/ signed(a, b)
                       \/ \E p \in a + 1 .. b - 1 :
                            t[p] = "." /\ signed(a, p - 1) /\ digits(p + 1, b)
  IN  \/ decimal(i, j)
      \/ \E p \in i + 1 .. j - 1 : t[p] = "e" /\ decimal(i, p - 1) /\ exponent(p + 1, j)

IsString(t, i, j) ==
  LET inside[a \in i + 1 .. j + HexDigits + 2] ==
        \/ a = j
        \/ a < j /\ t[a] \notin {Quote, Escape, Control} /\ inside[a + 1]
        \/ a < j - 1 /\ t[a] = Escape /\ t[a + 1] \in {Quote, Escape} /\ inside[a + 2]
        \/ /\ a < j - 1 - HexDigits /\ t[a] = Escape /\ t[a + 1] = "u"
           /\ \A k \in a + 2 .. a + 1 + HexDigits : t[k] \in Hex
           /\ inside[a + 2 + HexDigits]
  IN  i < j /\ t[i] = Quote /\ t[j] = Quote /\ inside[i + 1]

(* A value, or the inside of a container, with at most d levels.           *)
IsDocument(t) ==
  LET n == Len(t)
      enclosed(i, j, open, close) == i < j /\ t[i] = open /\ t[j] = close
      is[what \in {"value", "padded", "elements", "member", "members"},
         i \in 1 .. n + 1, j \in 0 .. n, d \in 0 .. MaxNesting] ==
        CASE i > j -> FALSE
          [] i <= j /\ what = "value" ->
               \/ IsString(t, i, j) \/ IsNumber(t, i, j)
               \/ j = i + 1 /\ t[i] = "t" /\ t[j] = "r"
               \/ /\ enclosed(i, j, "[", "]") /\ d > 0
                  /\ Blank(t, i + 1, j - 1) \/ is["elements", i + 1, j - 1, d - 1]
               \/ /\ enclosed(i, j, "{", "}") /\ d > 0
                  /\ Blank(t, i + 1, j - 1) \/ is["members", i + 1, j - 1, d - 1]
          [] i <= j /\ what = "padded" ->
               \E a, b \in i .. j : /\ t[a] # Space /\ t[b] # Space
                                    /\ Blank(t, i, a - 1) /\ Blank(t, b + 1, j)
                                    /\ is["value", a, b, d]
          [] i <= j /\ what = "elements" ->
               \/ is["padded", i, j, d]
               \/ \E c \in i .. j : /\ t[c] = "," /\ is["padded", i, c - 1, d]
                                    /\ is["elements", c + 1, j, d]
          [] i <= j /\ what = "member" ->
               \E a, b, c \in i .. j : /\ IsString(t, a, b) /\ Blank(t, i, a - 1)
                                       /\ t[c] = ":" /\ b < c /\ Blank(t, b + 1, c - 1)
                                       /\ is["padded", c + 1, j, d]
          [] i <= j /\ what = "members" ->
               \/ is["member", i, j, d]
               \/ \E c \in i .. j : /\ t[c] = "," /\ is["member", i, c - 1, d]
                                    /\ is["members", c + 1, j, d]
  IN  is["padded", 1, n, MaxNesting]
=============================================================================

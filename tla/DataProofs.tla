----------------------------- MODULE DataProofs -----------------------------
(***************************************************************************)
(* The argument parser, base64, the spans, the lists and the search tree   *)
(* do what they promise, whatever they are given and however much of it:   *)
(* each section is about one of them and stands on its own.                *)
(***************************************************************************)
EXTENDS ArgParser, Base64, Spans, Lists, Tree,
        FiniteSetTheorems, SequenceTheorems, WellFoundedInduction, TLAPS

(***************************************************************************)
(* The argument parser.  A handler of a command is given the whole command *)
(* line, as its schema allows it, whatever the commands are and whatever   *)
(* the user types.                                                         *)
(***************************************************************************)

Entry == [id : Nat, value : Values, is_default : BOOLEAN]
ParsedType == [storage : Seq(Entry), fulfilled : SUBSET Nat, next_positional : Nat]

ArgTypes ==
  /\ argv \in Seq(Tokens) /\ ended \in BOOLEAN /\ i \in Nat /\ heap \in {0, 1}
  /\ cmd \in [name : DOMAIN Commands \cup {"none"}, tokens : Nat]
  /\ parsed \in ParsedType /\ handed \in {<<>>, <<parsed.storage>>}
  /\ i <= Len(argv) /\ Len(argv) <= MaxArgv /\ Len(parsed.storage) <= MaxParsed

(* Where the parser is, and what it has done by then.                      *)
Within == at \in {"dispatch", "parse", "call"}
Complete == at = "call" \/ handed # <<>>
Phases ==
  /\ at \in {"root", "dispatch", "parse", "call", "done"}
  /\ at \in {"root", "dispatch"} => parsed = NoParsed
  /\ Within \/ parsed.storage # <<>> \/ handed # <<>> => cmd.name \in DOMAIN Commands
  /\ cmd.tokens <= i /\ (at = "dispatch" => cmd.tokens = i)
  /\ handed # <<>> => at = "done"
  /\ at = "done" => heap = 0 /\ outcome # "none"
  /\ heap = 1 => at = "call"
  /\ Complete => ended /\ i = Len(argv)

(* What parse_command_args has stored agrees with the schema, its flags    *)
(* and its count of positional arguments with what it has stored.          *)
StoredOK(schema, p) ==
  /\ \A k \in DOMAIN p.storage : Typed(p.storage[k]) /\ p.storage[k].id \in DOMAIN schema
  /\ p.fulfilled = {p.storage[k].id : k \in DOMAIN p.storage}
  /\ p.next_positional = Cardinality(Positionals(schema, p.storage))
  /\ Ordered(schema, p.storage)
  /\ \A k \in DOMAIN p.storage :
       LET a == schema[p.storage[k].id] IN
       a.allowed # {} /\ a.value_type # "none" => p.storage[k].value \in a.allowed
  /\ \A k, m \in DOMAIN p.storage :
       k # m /\ p.storage[k].id = p.storage[m].id => schema[p.storage[k].id].multiple_allowed

ArgInv ==
  /\ ArgTypes /\ Phases
  /\ \A k \in DOMAIN parsed.storage : parsed.storage[k].id \in DOMAIN Arguments
  /\ at = "parse" => StoredOK(Arguments, parsed) /\ Says(Arguments, Words(i), parsed.storage)
  /\ Complete => /\ SchemaKept(Arguments, parsed.storage)
                 /\ Says(Arguments, Words(Len(argv)), parsed.storage)
                 /\ Ordered(Arguments, parsed.storage)
  /\ OkIsDeserved

-----------------------------------------------------------------------------
(* Sequences.                                                              *)

LEMMA Prefix ==
  ASSUME NEW S, NEW s \in Seq(S), NEW t \in Seq(S), NEW a \in Nat \ {0}, NEW b \in 0 .. Len(s)
  PROVE  SubSeq(s \o t, a, b) = SubSeq(s, a, b)
<1>1. CASE a <= b
  BY <1>1, SubSeqOfConcat1
<1>2. CASE b < a
  BY <1>2, SubSeqEmpty
<1> QED BY <1>1, <1>2

LEMMA Suffix ==
  ASSUME NEW S, NEW s \in Seq(S), NEW t \in Seq(S)
  PROVE  SubSeq(s \o t, Len(s) + 1, Len(s) + Len(t)) = t
<1>1. CASE t = <<>>
  BY <1>1, SubSeqEmpty
<1>2. CASE t # <<>>
  <2>1. Len(t) \in Nat \ {0} /\ Len(s) \in Nat
    BY <1>2, EmptySeq
  <2>2. SubSeq(s \o t, Len(s) + 1, Len(s) + Len(t)) = SubSeq(t, 1, Len(t))
    BY <2>1, SubSeqOfConcat2
  <2> QED BY <2>2, SubSeqFull
<1> QED BY <1>1, <1>2

LEMMA Extended ==
  ASSUME NEW S, NEW s \in Seq(S), NEW a \in Nat, NEW b \in Nat, NEW c \in Nat,
         a <= b, b <= c, c <= Len(s)
  PROVE  SubSeq(s, a + 1, c) = SubSeq(s, a + 1, b) \o SubSeq(s, b + 1, c)
<1>1. a + 1 \in 1 .. Len(s) + 1 /\ b \in (a + 1) - 1 .. Len(s) /\ c \in b .. Len(s)
  BY LenProperties
<1> QED BY <1>1, ConcatAdjacentSubSeq

LEMMA Part ==
  ASSUME NEW S, NEW s \in Seq(S), NEW a \in Nat \ {0}, NEW b \in 0 .. Len(s)
  PROVE  SubSeq(s, a, b) \in Seq(S)
BY SubSeqProperties, ElementOfSeq

LEMMA One ==
  ASSUME NEW S, NEW s \in Seq(S), NEW a \in 1 .. Len(s)
  PROVE  SubSeq(s, a, a) = <<s[a]>>
<1>1. SubSeq(s, a, a) = <<s[a]>> \o SubSeq(s, a + 1, a)
  BY SubSeqRecursiveFirst
<1>2. SubSeq(s, a + 1, a) = <<>>
  BY SubSeqEmpty
<1>3. <<s[a]>> \in Seq(S)
  BY ElementOfSeq
<1> QED BY <1>1, <1>2, <1>3, ConcatEmptySeq

LEMMA Two ==
  ASSUME NEW S, NEW s \in Seq(S), NEW a \in 1 .. Len(s) - 1
  PROVE  SubSeq(s, a, a + 1) = <<s[a]>> \o <<s[a + 1]>>
<1>1. SubSeq(s, a, a + 1) = <<s[a]>> \o SubSeq(s, a + 1, a + 1)
  BY SubSeqRecursiveFirst
<1> QED BY <1>1, One

(* The first of a set of positions is in it.                               *)
LEMMA FirstOK ==
  ASSUME NEW S \in SUBSET Nat, S # {}
  PROVE  First(S) \in S
<1>1. PICK x \in S : \A y \in S : ~ (<<y, x>> \in OpToRel(<, Nat))
  BY NatLessThanWellFounded, WFMin
<1>2. \A y \in S : ~ (y < x)
  BY <1>1 DEF OpToRel
<1>3. \A y \in S : x <= y
  BY <1>2
<1> QED BY <1>3 DEF First
-----------------------------------------------------------------------------
(* The schema.                                                             *)

LEMMA ArgumentsOK ==
  ASSUME cmd.name \in DOMAIN Commands
  PROVE  Arguments \in Seq(ArgumentType) /\ This.commands \subseteq DOMAIN Commands
BY ArgAssumption DEF CommandType, Arguments, This

LEMMA ValueOfOK ==
  ASSUME NEW token \in Tokens, NEW a \in ArgumentType
  PROVE  ValueOf(token, a) \in Values
<1>1. <<token>> \in Values /\ <<>> \in Values
  BY DEF Values
<1>2. ASSUME token.text \in DOMAIN Numeral
      PROVE  <<Numeral[token.text]>> \in Values /\ <<-Numeral[token.text]>> \in Values
  BY <1>2, ArgAssumption DEF Values
<1> QED BY <1>1, <1>2 DEF ValueOf

(* What is typed for an argument with a value is a spelling of it.         *)
LEMMA ValueIsSpelled ==
  ASSUME NEW token \in Tokens, NEW a \in ArgumentType, Accepted(token, a), a.value_type # "none"
  PROVE  <<token>> \in ValueTokens(a, ValueOf(token, a))
BY DEF ValueTokens

LEMMA AcceptedOK ==
  ASSUME NEW token, NEW a \in ArgumentType, Accepted(token, a)
  PROVE  a.value_type # "none" /\ (a.allowed # {} => ValueOf(token, a) \in a.allowed)
BY DEF Accepted, ValueOf

(* One more argument and the words that spell it.                          *)
LEMMA SaysMore ==
  ASSUME NEW schema, NEW words \in Seq(Tokens), NEW more \in Seq(Tokens),
         NEW args \in Seq(Entry), NEW e \in Entry, Says(schema, words, args),
         IF Typed(e) THEN more \in Spellings(schema[e.id], e.value) ELSE more = <<>>
  PROVE  Says(schema, words \o more, Append(args, e))
<1> DEFINE n == Len(args)
           w == Len(words)
           all == words \o more
<1>1. n \in Nat /\ w \in Nat /\ Len(more) \in Nat /\ Len(all) = w + Len(more) /\ DOMAIN args = 1 .. n
  BY ConcatProperties
<1>2. /\ Len(Append(args, e)) = n + 1 /\ DOMAIN Append(args, e) = 1 .. n + 1
      /\ Append(args, e)[n + 1] = e /\ \A k \in 1 .. n : Append(args, e)[k] = args[k]
  BY AppendProperties
<1>3. PICK cut \in [0 .. n -> 0 .. w] :
        /\ cut[0] = 0 /\ cut[n] = w
        /\ \A k \in DOMAIN args :
             LET d == args[k]
                 piece == SubSeq(words, cut[k - 1] + 1, cut[k]) IN
             /\ cut[k - 1] <= cut[k]
             /\ IF Typed(d) THEN piece \in Spellings(schema[d.id], d.value) ELSE piece = <<>>
  BY DEF Says
<1> DEFINE cut2 == [k \in 0 .. n + 1 |-> IF k = n + 1 THEN Len(all) ELSE cut[k]]
<1>4. /\ cut2 \in [0 .. n + 1 -> 0 .. Len(all)] /\ cut2[0] = 0 /\ cut2[n + 1] = Len(all)
      /\ \A k \in 0 .. n : cut2[k] = cut[k]
  BY <1>1, <1>3
<1> HIDE DEF cut2
<1>5. ASSUME NEW k \in 1 .. n + 1
      PROVE  LET d == Append(args, e)[k]
                 piece == SubSeq(all, cut2[k - 1] + 1, cut2[k]) IN
             /\ cut2[k - 1] <= cut2[k]
             /\ IF Typed(d) THEN piece \in Spellings(schema[d.id], d.value) ELSE piece = <<>>
  <2>1. CASE k = n + 1
    <3>1. cut2[k - 1] = w /\ cut2[k] = w + Len(more)
      BY <1>1, <1>3, <1>4, <2>1
    <3>2. SubSeq(all, cut2[k - 1] + 1, cut2[k]) = more
      BY <3>1, Suffix
    <3>3. cut2[k - 1] <= cut2[k]
      BY <1>1, <3>1
    <3> HIDE DEF all
    <3> QED BY <1>2, <2>1, <3>2, <3>3
  <2>2. CASE k \in 1 .. n
    <3>1. cut2[k - 1] = cut[k - 1] /\ cut2[k] = cut[k] /\ cut[k - 1] \in 0 .. w /\ cut[k] \in 0 .. w
      <4>1. k - 1 \in 0 .. n /\ k \in 0 .. n
        BY <1>1, <2>2
      <4> QED BY <1>3, <1>4, <4>1
    <3>2. SubSeq(all, cut[k - 1] + 1, cut[k]) = SubSeq(words, cut[k - 1] + 1, cut[k])
      <4>1. cut[k - 1] + 1 \in Nat \ {0}
        BY <1>1, <3>1
      <4> QED BY <3>1, <4>1, Prefix
    <3> QED BY <1>1, <1>2, <1>3, <2>2, <3>1, <3>2
  <2> QED BY <1>1, <2>1, <2>2
<1> QED BY <1>2, <1>4, <1>5 DEF Says

(* Arguments nobody typed, behind those that were.                         *)
LEMMA SaysDefaults ==
  ASSUME NEW schema, NEW words \in Seq(Tokens), NEW args \in Seq(Entry), NEW rest \in Seq(Entry),
         Says(schema, words, args), \A k \in DOMAIN rest : ~Typed(rest[k])
  PROVE  Says(schema, words, args \o rest)
<1> DEFINE n == Len(args)
           m == Len(rest)
           w == Len(words)
           all == args \o rest
<1>1. n \in Nat /\ w \in Nat /\ m \in Nat /\ DOMAIN args = 1 .. n /\ DOMAIN rest = 1 .. m
  OBVIOUS
<1>2. /\ Len(all) = n + m /\ DOMAIN all = 1 .. n + m
      /\ \A k \in 1 .. n + m : all[k] = IF k <= n THEN args[k] ELSE rest[k - n]
  BY ConcatProperties
<1>3. PICK cut \in [0 .. n -> 0 .. w] :
        /\ cut[0] = 0 /\ cut[n] = w
        /\ \A k \in DOMAIN args :
             LET d == args[k]
                 piece == SubSeq(words, cut[k - 1] + 1, cut[k]) IN
             /\ cut[k - 1] <= cut[k]
             /\ IF Typed(d) THEN piece \in Spellings(schema[d.id], d.value) ELSE piece = <<>>
  BY DEF Says
<1> DEFINE cut2 == [k \in 0 .. n + m |-> IF k <= n THEN cut[k] ELSE w]
<1>4. \A k \in 0 .. n + m : cut2[k] = IF k <= n THEN cut[k] ELSE w
  OBVIOUS
<1>5. cut2 \in [0 .. n + m -> 0 .. w] /\ cut2[0] = 0
  BY <1>1, <1>3
<1>6. cut2[n + m] = w
  <2>1. CASE m = 0
    BY <1>1, <1>3, <1>4, <2>1
  <2>2. CASE m # 0
    BY <1>1, <1>4, <2>2
  <2> QED BY <2>1, <2>2
<1> HIDE DEF cut2
<1>7. ASSUME NEW k \in 1 .. n + m
      PROVE  LET d == all[k]
                 piece == SubSeq(words, cut2[k - 1] + 1, cut2[k]) IN
             /\ cut2[k - 1] <= cut2[k]
             /\ IF Typed(d) THEN piece \in Spellings(schema[d.id], d.value) ELSE piece = <<>>
  <2>1. CASE k <= n
    <3>1. cut2[k - 1] = cut[k - 1] /\ cut2[k] = cut[k] /\ k \in DOMAIN args /\ all[k] = args[k]
      BY <1>1, <1>2, <1>4, <2>1
    <3> QED BY <1>3, <3>1
  <2>2. CASE k > n
    <3>1. cut2[k - 1] = w /\ cut2[k] = w
      BY <1>1, <1>3, <1>4, <2>2, SMTT(20)
    <3>2. SubSeq(words, cut2[k - 1] + 1, cut2[k]) = <<>> /\ cut2[k - 1] <= cut2[k]
      BY <1>1, <3>1, SubSeqEmpty
    <3>3. k - n \in DOMAIN rest /\ all[k] = rest[k - n]
      BY <1>1, <1>2, <2>2
    <3> HIDE DEF all
    <3> QED BY <3>2, <3>3
  <2> QED BY <1>1, <2>1, <2>2
<1> QED BY <1>2, <1>5, <1>6, <1>7 DEF Says
-----------------------------------------------------------------------------
(* What is stored for the schema.                                          *)

LEMMA PositionalsOK ==
  ASSUME NEW schema, NEW args \in Seq(Entry)
  PROVE  /\ Positionals(schema, args) \in SUBSET (1 .. Len(args))
         /\ IsFiniteSet(Positionals(schema, args)) /\ Cardinality(Positionals(schema, args)) \in Nat
<1>1. Positionals(schema, args) \in SUBSET (1 .. Len(args))
  BY LenProperties DEF Positionals
<1>2. IsFiniteSet(1 .. Len(args))
  BY FS_Interval, LenProperties
<1>3. IsFiniteSet(Positionals(schema, args))
  BY <1>1, <1>2, FS_Subset
<1> QED BY <1>1, <1>3, FS_CardinalityType

(* A positional argument that was stored has an earlier position than the  *)
(* next one.                                                               *)
LEMMA EarlierPosition ==
  ASSUME NEW schema, NEW args \in Seq(Entry), Ordered(schema, args), NEW k \in Positionals(schema, args)
  PROVE  schema[args[k].id].position < Cardinality(Positionals(schema, args))
<1> DEFINE P == Positionals(schema, args)
           B == {m \in P : m < k}
<1>1. IsFiniteSet(P) /\ Cardinality(P) \in Nat /\ P \in SUBSET (1 .. Len(args)) /\ k \in P
  BY PositionalsOK
<1>2. B \in SUBSET P /\ k \notin B
  BY <1>1
<1>3. IsFiniteSet(B) /\ Cardinality(B) \in Nat /\ Cardinality(B) <= Cardinality(P)
      /\ (Cardinality(P) = Cardinality(B) => P = B)
  BY <1>1, <1>2, FS_Subset, FS_CardinalityType
<1>4. schema[args[k].id].position = Cardinality(B)
  BY DEF Ordered
<1> HIDE DEF P, B
<1> QED BY <1>1, <1>2, <1>3, <1>4 DEF P

LEMMA StoreOK ==
  ASSUME NEW schema \in Seq(ArgumentType), NEW p \in ParsedType, StoredOK(schema, p),
         NEW j \in DOMAIN schema, NEW v \in Values, NEW q \in {0, 1},
         \/ schema[j].type = "positional" /\ q = 1 /\ schema[j].position = p.next_positional
         \/ schema[j].type = "named" /\ q = 0 /\ (j \in p.fulfilled => schema[j].multiple_allowed),
         schema[j].allowed # {} /\ schema[j].value_type # "none" => v \in schema[j].allowed
  PROVE  StoredOK(schema, [storage |-> Append(p.storage, [id |-> j, value |-> v, is_default |-> FALSE]),
                           fulfilled |-> p.fulfilled \cup {j}, next_positional |-> p.next_positional + q])
<1> DEFINE e == [id |-> j, value |-> v, is_default |-> FALSE]
           s == p.storage
           s2 == Append(s, e)
           n == Len(s)
           P == Positionals(schema, s)
           P2 == Positionals(schema, s2)
<1>1. s \in Seq(Entry) /\ n \in Nat /\ DOMAIN s = 1 .. n /\ e \in Entry /\ j \in Nat
      /\ p.fulfilled \in SUBSET Nat
  BY LenProperties DEF ParsedType, Entry
<1>2. /\ Len(s2) = n + 1 /\ DOMAIN s2 = 1 .. n + 1 /\ s2 \in Seq(Entry)
      /\ s2[n + 1] = e /\ \A k \in 1 .. n : s2[k] = s[k]
  BY <1>1, AppendProperties, LenProperties
<1>3. e.id = j /\ e.value = v /\ Typed(e)
  BY DEF Typed
<1>4. P \in SUBSET (1 .. n) /\ IsFiniteSet(P) /\ Cardinality(P) \in Nat
  BY <1>1, PositionalsOK
<1>5. P2 = IF schema[j].type = "positional" THEN P \cup {n + 1} ELSE P
  <2>1. P2 \subseteq 1 .. n + 1 /\ P \subseteq 1 .. n
    BY <1>1, <1>2 DEF Positionals
  <2>2. \A k \in 1 .. n : k \in P2 <=> k \in P
    BY <1>1, <1>2 DEF Positionals
  <2>3. n + 1 \in P2 <=> schema[j].type = "positional"
    BY <1>1, <1>2, <1>3 DEF Positionals
  <2>4. 1 .. n + 1 = (1 .. n) \cup {n + 1}
    BY <1>1
  <2> HIDE DEF P, P2, s, s2, n, e
  <2>5. CASE schema[j].type = "positional"
    <3>1. P2 = P \cup {n + 1}
      BY <2>1, <2>2, <2>3, <2>4, <2>5
    <3> QED BY <2>5, <3>1
  <2>6. CASE schema[j].type # "positional"
    <3>1. P2 = P
      BY <2>1, <2>2, <2>3, <2>4, <2>6
    <3> QED BY <2>6, <3>1
  <2> QED BY <2>5, <2>6
<1>6. n + 1 \notin P
  BY <1>1, <1>4
<1>7. Cardinality(P2) = Cardinality(P) + q
  <2> HIDE DEF P, P2, s, s2, n, e
  <2>1. Cardinality(P \cup {n + 1}) = Cardinality(P) + 1
    BY <1>4, <1>6, FS_AddElement
  <2> QED BY <1>4, <1>5, <2>1
<1>8. \A k \in 1 .. n : {m \in P2 : m < k} = {m \in P : m < k}
  BY <1>1, <1>4, <1>5
<1>9. {m \in P2 : m < n + 1} = P
  BY <1>1, <1>4, <1>5
<1> HIDE DEF P, P2, s, s2, n, e
<1>10. p.next_positional = Cardinality(P) /\ \A k \in P : schema[s[k].id].position = Cardinality({m \in P : m < k})
  BY DEF StoredOK, Ordered, P, s
<1>11. \A k \in P2 : schema[s2[k].id].position = Cardinality({m \in P2 : m < k})
  <2> SUFFICES ASSUME NEW k \in P2 PROVE schema[s2[k].id].position = Cardinality({m \in P2 : m < k})
    OBVIOUS
  <2>1. CASE k \in P
    <3>1. k \in 1 .. n
      BY <1>4, <2>1
    <3> QED BY <1>2, <1>8, <1>10, <2>1, <3>1
  <2>2. CASE k \notin P
    <3>1. k = n + 1 /\ schema[j].type = "positional"
      BY <1>5, <2>2
    <3>2. schema[j].position = Cardinality(P)
      BY <1>10, <3>1
    <3> QED BY <1>2, <1>3, <1>9, <3>1, <3>2
  <2> QED BY <2>1, <2>2
<1>12. Ordered(schema, s2)
  BY <1>11 DEF Ordered, P2
<1>13. p.fulfilled = {s[k].id : k \in 1 .. n} /\ \A k \in 1 .. n : Typed(s[k]) /\ s[k].id \in DOMAIN schema
  BY <1>1 DEF StoredOK, s
<1>14. p.fulfilled \cup {j} = {s2[k].id : k \in 1 .. n + 1}
  <2>1. \A k \in 1 .. n + 1 : s2[k].id = IF k = n + 1 THEN j ELSE s[k].id
    BY <1>1, <1>2, <1>3
  <2>2. n + 1 \in 1 .. n + 1 /\ 1 .. n \subseteq 1 .. n + 1
    BY <1>1
  <2>3. \A k \in 1 .. n : k # n + 1
    BY <1>1
  <2>4. {s2[k].id : k \in 1 .. n + 1} \subseteq p.fulfilled \cup {j}
    <3> SUFFICES ASSUME NEW k \in 1 .. n + 1 PROVE s2[k].id \in p.fulfilled \cup {j}
      OBVIOUS
    <3>1. k = n + 1 \/ k \in 1 .. n
      BY <1>1
    <3> QED BY <1>13, <2>1, <3>1
  <2>5. p.fulfilled \cup {j} \subseteq {s2[k].id : k \in 1 .. n + 1}
    BY <1>13, <2>1, <2>2, <2>3
  <2> QED BY <2>4, <2>5
<1>15. \A k \in 1 .. n + 1 : Typed(s2[k]) /\ s2[k].id \in DOMAIN schema
  BY <1>1, <1>2, <1>3, <1>13
<1>16. ASSUME NEW k \in 1 .. n + 1, schema[s2[k].id].allowed # {}, schema[s2[k].id].value_type # "none"
       PROVE  s2[k].value \in schema[s2[k].id].allowed
  <2>1. CASE k \in 1 .. n
    BY <1>1, <1>2, <1>16, <2>1 DEF StoredOK, s
  <2>2. CASE k = n + 1
    BY <1>2, <1>3, <1>16, <2>2
  <2> QED BY <1>1, <2>1, <2>2
<1>17. ASSUME NEW k \in 1 .. n, s[k].id = j
       PROVE  schema[j].multiple_allowed
  <2>1. CASE schema[j].type = "named"
    BY <1>13, <1>17, <2>1
  <2>2. CASE schema[j].type # "named"
    <3>1. schema[j].type = "positional" /\ schema[j].position = Cardinality(P)
      BY <1>10, <2>2
    <3>2. k \in P
      BY <1>1, <1>13, <1>17, <3>1 DEF P, Positionals
    <3>3. schema[j].position < Cardinality(P)
      BY <1>1, <1>17, <3>2, EarlierPosition DEF P, s, StoredOK
    <3>4. schema[j].position \in Nat
      BY <1>4, <3>1
    <3> QED BY <1>4, <3>1, <3>3
  <2> QED BY <2>1, <2>2
<1>18. ASSUME NEW k \in 1 .. n + 1, NEW m \in 1 .. n + 1, k # m, s2[k].id = s2[m].id
       PROVE  schema[s2[k].id].multiple_allowed
  <2>1. CASE k \in 1 .. n /\ m \in 1 .. n
    BY <1>1, <1>2, <1>18, <2>1 DEF StoredOK, s
  <2>2. CASE k = n + 1
    <3>1. m \in 1 .. n
      BY <1>1, <1>18, <2>2
    <3> QED BY <1>2, <1>3, <1>17, <1>18, <2>2, <3>1
  <2>3. CASE m = n + 1
    <3>1. k \in 1 .. n
      BY <1>1, <1>18, <2>3
    <3> QED BY <1>2, <1>3, <1>17, <1>18, <2>3, <3>1
  <2> QED BY <1>1, <2>1, <2>2, <2>3
<1> DEFINE p2 == [storage |-> s2, fulfilled |-> p.fulfilled \cup {j}, next_positional |-> p.next_positional + q]
<1>19. p2.storage = s2 /\ p2.fulfilled = p.fulfilled \cup {j} /\ p2.next_positional = Cardinality(P2)
  BY <1>7, <1>10
<1> HIDE DEF p2
<1>20. StoredOK(schema, p2)
  BY <1>2, <1>12, <1>14, <1>15, <1>16, <1>18, <1>19, ZenonT(30) DEF StoredOK, P2
<1> QED BY <1>20 DEF p2, s2, s, e

LEMMA OrderedDefaults ==
  ASSUME NEW schema, NEW args \in Seq(Entry), NEW rest \in Seq(Entry), Ordered(schema, args),
         \A k \in DOMAIN rest : ~Typed(rest[k])
  PROVE  Ordered(schema, args \o rest)
<1> DEFINE all == args \o rest
           n == Len(args)
<1>1. /\ DOMAIN all = 1 .. n + Len(rest) /\ n \in Nat /\ Len(rest) \in Nat /\ DOMAIN args = 1 .. n
      /\ DOMAIN rest = 1 .. Len(rest)
      /\ \A k \in 1 .. n + Len(rest) : all[k] = IF k <= n THEN args[k] ELSE rest[k - n]
  BY ConcatProperties, LenProperties
<1> HIDE DEF all, n
<1>2. \A k \in DOMAIN all : k \notin 1 .. n => ~Typed(all[k])
  BY <1>1, SMTT(20)
<1>3. 1 .. n \subseteq DOMAIN all /\ \A k \in 1 .. n : all[k] = args[k]
  BY <1>1
<1>4. Positionals(schema, all) = Positionals(schema, args)
  BY <1>1, <1>2, <1>3 DEF Positionals
<1>5. Positionals(schema, args) \subseteq 1 .. n
  BY PositionalsOK DEF n
<1>6. Ordered(schema, all)
  BY <1>3, <1>4, <1>5 DEF Ordered
<1> QED BY <1>6 DEF all

LEMMA SchemaIsKept ==
  ASSUME NEW schema \in Seq(ArgumentType), NEW p \in ParsedType, StoredOK(schema, p),
         \A j \in DOMAIN schema : schema[j].required => j \in p.fulfilled,
         NEW rest \in Seq(Entry), \A k \in DOMAIN rest : ~Typed(rest[k]) /\ rest[k].id \notin p.fulfilled,
         \A k, m \in DOMAIN rest : k < m => rest[k].id < rest[m].id,
         \A j \in DOMAIN schema : j \notin p.fulfilled /\ schema[j].default # <<>> =>
           \E k \in DOMAIN rest : rest[k].id = j
  PROVE  SchemaKept(schema, p.storage \o rest)
<1> DEFINE s == p.storage
           all == s \o rest
           n == Len(s)
           r == Len(rest)
<1>1. s \in Seq(Entry) /\ n \in Nat /\ r \in Nat /\ DOMAIN s = 1 .. n /\ DOMAIN rest = 1 .. r
      /\ \A k \in 1 .. r : rest[k].id \in Nat
  <2>1. \A k \in 1 .. r : rest[k] \in Entry
    BY ElementOfSeq
  <2> QED BY <2>1, LenProperties DEF ParsedType, Entry
<1>2. DOMAIN all = 1 .. n + r /\ \A k \in 1 .. n + r : all[k] = IF k <= n THEN s[k] ELSE rest[k - n]
  BY <1>1, ConcatProperties, LenProperties
<1>3. \A k \in 1 .. n : k \in DOMAIN all /\ all[k] = s[k] /\ Typed(s[k]) /\ s[k].id \in p.fulfilled
  <2>1. \A k \in 1 .. n : Typed(s[k]) /\ s[k].id \in p.fulfilled
    BY <1>1 DEF StoredOK
  <2>2. \A k \in 1 .. n : k \in 1 .. n + r /\ k <= n
    BY <1>1
  <2> QED BY <1>2, <2>1, <2>2
<1>4. \A k \in 1 .. r : n + k \in DOMAIN all /\ all[n + k] = rest[k]
  BY <1>1, <1>2
<1>5. ASSUME NEW k \in DOMAIN all
      PROVE  \/ k \in 1 .. n /\ all[k] = s[k] /\ Typed(all[k]) /\ all[k].id \in p.fulfilled
             \/ k - n \in 1 .. r /\ all[k] = rest[k - n] /\ ~Typed(all[k]) /\ all[k].id \notin p.fulfilled
  <2>1. CASE k <= n
    BY <1>1, <1>2, <1>3, <2>1
  <2>2. CASE k > n
    BY <1>1, <1>2, <2>2
  <2> QED BY <1>1, <1>2, <2>1, <2>2
<1> HIDE DEF all, n, r
<1> SUFFICES ASSUME NEW j \in DOMAIN schema
             PROVE  LET a == schema[j]
                        given == Given(j, all) IN
                    /\ a.required => \E k \in given : Typed(all[k])
                    /\ a.default # <<>> => given # {}
                    /\ \A k, m \in given : k # m => a.multiple_allowed /\ Typed(all[k])
                    /\ a.allowed # {} /\ a.value_type # "none" =>
                         \A k \in given : Typed(all[k]) => all[k].value \in a.allowed
  BY DEF SchemaKept, all
<1>6. j \in p.fulfilled => \E k \in 1 .. n : s[k].id = j
  BY <1>1 DEF StoredOK, s
<1>7. j \in p.fulfilled => \E k \in Given(j, all) : Typed(all[k])
  BY <1>3, <1>6 DEF Given
<1>8. schema[j].default # <<>> => Given(j, all) # {}
  <2>1. CASE j \in p.fulfilled
    BY <1>7, <2>1
  <2>2. CASE j \notin p.fulfilled
    BY <1>1, <1>4, <2>2 DEF Given
  <2> QED BY <2>1, <2>2
<1>9. ASSUME NEW k \in Given(j, all), NEW m \in Given(j, all), k # m
      PROVE  schema[j].multiple_allowed /\ Typed(all[k])
  <2>1. k \in DOMAIN all /\ m \in DOMAIN all /\ all[k].id = j /\ all[m].id = j
    BY DEF Given
  <2>2. CASE j \in p.fulfilled
    <3>1. k \in 1 .. n /\ m \in 1 .. n /\ s[k].id = j /\ s[m].id = j /\ Typed(all[k])
      BY <1>5, <2>1, <2>2
    <3>2. schema[j].multiple_allowed
      BY <1>1, <1>9, <3>1 DEF StoredOK, s
    <3> QED BY <3>1, <3>2
  <2>3. CASE j \notin p.fulfilled
    <3>1. k - n \in 1 .. r /\ m - n \in 1 .. r /\ rest[k - n].id = j /\ rest[m - n].id = j
      BY <1>5, <2>1, <2>3
    <3>2. k - n < m - n \/ m - n < k - n
      BY <1>1, <1>2, <1>9, <2>1 DEF n
    <3>3. rest[k - n].id \in Nat /\ rest[m - n].id \in Nat
      BY <1>1, <3>1
    <3> QED BY <1>1, <3>1, <3>2, <3>3
  <2> QED BY <2>2, <2>3
<1>10. ASSUME schema[j].allowed # {}, schema[j].value_type # "none", NEW k \in Given(j, all), Typed(all[k])
       PROVE  all[k].value \in schema[j].allowed
  <2>1. k \in 1 .. n /\ all[k] = s[k] /\ s[k].id = j
    BY <1>5, <1>10 DEF Given
  <2> QED BY <1>1, <1>10, <2>1 DEF StoredOK, s
<1> QED BY <1>7, <1>8, <1>9, <1>10
-----------------------------------------------------------------------------
(* The steps.                                                              *)

LEMMA NothingStored ==
  ASSUME NEW schema
  PROVE  /\ NoParsed \in ParsedType /\ NoParsed.storage = <<>>
         /\ StoredOK(schema, NoParsed) /\ Says(schema, <<>>, <<>>)
<1>1. NoParsed \in ParsedType /\ NoParsed.storage = <<>> /\ NoParsed.fulfilled = {} /\ NoParsed.next_positional = 0
  BY DEF NoParsed, ParsedType
<1>2. DOMAIN (<<>>) = {} /\ Len(<<>>) = 0
  OBVIOUS
<1>3. Positionals(schema, <<>>) = {}
  BY <1>2 DEF Positionals
<1>4. StoredOK(schema, NoParsed)
  BY <1>1, <1>2, <1>3, FS_EmptySet DEF StoredOK, Ordered
<1>5. Says(schema, <<>>, <<>>)
  <2> DEFINE cut == [k \in {0} |-> 0]
  <2>1. cut \in [0 .. 0 -> 0 .. 0] /\ cut[0] = 0
    OBVIOUS
  <2> HIDE DEF cut
  <2> QED BY <1>2, <2>1 DEF Says
<1> QED BY <1>1, <1>4, <1>5

LEMMA InitOK == ArgInit => ArgInv
<1> SUFFICES ASSUME ArgInit PROVE ArgInv
  OBVIOUS
<1>1. ArgTypes
  <2>1. argv \in Seq(Tokens) /\ Len(argv) = 0
    BY EmptySeq DEF ArgInit
  <2>2. cmd \in [name : DOMAIN Commands \cup {"none"}, tokens : Nat]
    BY DEF ArgInit
  <2>3. parsed \in ParsedType /\ Len(parsed.storage) = 0
    BY NothingStored, EmptySeq DEF ArgInit
  <2>4. ended \in BOOLEAN /\ i = 0 /\ heap \in {0, 1} /\ handed \in {<<>>, <<parsed.storage>>}
    BY DEF ArgInit
  <2>5. MaxArgv \in Nat /\ MaxParsed \in Nat
    BY ArgAssumption
  <2> QED BY <2>1, <2>2, <2>3, <2>4, <2>5 DEF ArgTypes
<1>2. Phases
  BY NothingStored DEF ArgInit, Phases, Within, Complete
<1> QED BY <1>1, <1>2, NothingStored DEF ArgInit, ArgInv, Complete, OkIsDeserved

LEMMA TypeStep == ASSUME ArgInv, Type PROVE ArgInv'
<1> USE DEF ArgInv, Type
<1>1. argv' \in Seq(Tokens) /\ Len(argv') <= MaxArgv /\ Len(argv) <= Len(argv')
  BY AppendProperties, ArgAssumption, SMTT(20) DEF ArgTypes
<1>2. ArgTypes' /\ Phases'
  <2>1. i <= Len(argv')
    BY <1>1, LenProperties DEF ArgTypes
  <2>2. ArgTypes'
    BY <1>1, <2>1 DEF ArgTypes
  <2>3. ended' \in BOOLEAN /\ ~Complete
    BY DEF ArgTypes, Phases, Complete
  <2> QED BY <2>2, <2>3 DEF Phases, Within, Complete
<1>3. Arguments' = Arguments
  BY DEF Arguments, This
<1>4. at = "parse" => Words(i)' = Words(i)
  <2>1. CASE argv' = argv
    BY <2>1 DEF Words
  <2>2. CASE \E t \in Tokens : argv' = Append(argv, t)
    <3>1. PICK t \in Tokens : argv' = argv \o <<t>>
      BY <2>2, AppendIsConcat DEF ArgTypes
    <3>2. SubSeq(argv', cmd.tokens + 1, i) = SubSeq(argv, cmd.tokens + 1, i)
      BY <3>1, Prefix, SMTT(20) DEF ArgTypes
    <3> QED BY <3>2 DEF Words
  <2> QED BY <2>1, <2>2
<1>5. ~Complete' /\ at' # "done"
  BY DEF Phases, Complete
<1> QED BY <1>2, <1>3, <1>4, <1>5 DEF OkIsDeserved

(* A return before the handler was called.                                 *)
LEMMA ExitStep ==
  ASSUME ArgInv, at \in {"root", "dispatch", "parse"}, NEW res, res # "none", Exit(res), Same,
         UNCHANGED <<i, cmd, parsed, handed, heap>>,
         res = "ok" => Roots = {} \/ (More /\ IsHelp(Current))
  PROVE  ArgInv'
<1> USE DEF ArgInv
<1>1. ArgTypes' /\ Phases'
  BY DEF ArgTypes, Phases, Within, Complete, Exit, Same
<1>2. ~Complete' /\ Arguments' = Arguments
  BY DEF Phases, Complete, Arguments, This, Exit
<1>3. OkIsDeserved'
  BY DEF OkIsDeserved, Exit, Same, More, Current, IsHelp
<1> QED BY <1>1, <1>2, <1>3 DEF Exit

LEMMA CommandIsKnown ==
  ASSUME NEW S, NEW c \in FindCommand(S)
  PROVE  c \in S
BY DEF FindCommand

(* A command was found.                                                    *)
LEMMA FoundStep ==
  ASSUME ArgInv, at \in {"root", "dispatch"}, at' = "dispatch", More, Same,
         NEW c \in DOMAIN Commands, cmd' = [name |-> c, tokens |-> i + 1], i' = i + 1,
         UNCHANGED <<outcome, parsed, handed, heap>>
  PROVE  ArgInv'
<1> USE DEF ArgInv
<1>1. parsed = NoParsed /\ handed = <<>> /\ heap = 0
  BY DEF Phases, ArgTypes
<1>2. i + 1 <= Len(argv) /\ i + 1 \in Nat
  BY DEF More, ArgTypes
<1>3. ArgTypes'
  BY <1>1, <1>2 DEF ArgTypes, Same
<1>4. Phases'
  BY <1>1, <1>2 DEF Phases, Within, Complete
<1> QED BY <1>1, <1>3, <1>4, NothingStored DEF Complete, OkIsDeserved

LEMMA ProcessArgsStep == ASSUME ArgInv, ProcessArgs PROVE ArgInv'
<1>1. CASE ~More /\ Exit("invalid_argument") /\ UNCHANGED <<i, cmd>>
  BY <1>1, ExitStep DEF ProcessArgs
<1>2. CASE More /\ (Roots = {} \/ IsHelp(Current)) /\ Exit("ok") /\ UNCHANGED <<i, cmd>>
  BY <1>2, ExitStep DEF ProcessArgs
<1>3. CASE Exit("invalid_argument") /\ UNCHANGED <<i, cmd>>
  BY <1>3, ExitStep DEF ProcessArgs
<1>4. CASE /\ More /\ \E c \in FindCommand(Roots) : cmd' = [name |-> c, tokens |-> i + 1]
           /\ i' = i + 1 /\ at' = "dispatch" /\ UNCHANGED outcome
  <2>1. PICK c \in FindCommand(Roots) : cmd' = [name |-> c, tokens |-> i + 1]
    BY <1>4
  <2>2. c \in DOMAIN Commands
    BY CommandIsKnown, ArgAssumption
  <2> QED BY <1>4, <2>1, <2>2, FoundStep DEF ProcessArgs
<1> QED BY <1>1, <1>2, <1>3, <1>4 DEF ProcessArgs

LEMMA DispatchStep == ASSUME ArgInv, Dispatch PROVE ArgInv'
<1>1. CASE More /\ IsHelp(Current) /\ Exit("ok") /\ UNCHANGED <<i, cmd>>
  BY <1>1, ExitStep DEF Dispatch
<1>2. CASE /\ \E c \in Subcommands : cmd' = [name |-> c, tokens |-> i + 1]
           /\ i' = i + 1 /\ UNCHANGED <<at, outcome>>
  <2>1. PICK c \in Subcommands : cmd' = [name |-> c, tokens |-> i + 1]
    BY <1>2
  <2>2. More /\ c \in This.commands
    BY CommandIsKnown DEF Subcommands
  <2>3. cmd.name \in DOMAIN Commands
    BY DEF ArgInv, Phases, Within, Dispatch
  <2>4. c \in DOMAIN Commands
    BY <2>2, <2>3, ArgumentsOK
  <2> QED BY <1>2, <2>1, <2>2, <2>4, FoundStep DEF Dispatch
<1>3. CASE /\ Exit(IF This.commands # {} THEN "invalid_argument" ELSE "invalid_state")
           /\ UNCHANGED <<i, cmd>>
  BY <1>3, ExitStep DEF Dispatch
<1>4. CASE at' = "parse" /\ UNCHANGED <<i, cmd, outcome>>
  <2> USE DEF ArgInv
  <2>1. parsed = NoParsed /\ handed = <<>> /\ heap = 0 /\ cmd.tokens = i
    BY DEF Dispatch, Phases, ArgTypes
  <2>2. ArgTypes' /\ Phases'
    BY <1>4, <2>1 DEF ArgTypes, Phases, Within, Complete, Dispatch, Same
  <2>3. Words(i) = <<>>
    BY <2>1, SubSeqEmpty DEF Words, ArgTypes
  <2>4. StoredOK(Arguments, parsed) /\ Says(Arguments, Words(i), parsed.storage) /\ DOMAIN parsed.storage = {}
    BY <2>1, <2>3, NothingStored
  <2>5. Arguments' = Arguments /\ parsed' = parsed /\ Words(i)' = Words(i) /\ ~Complete' /\ at' # "done"
    BY <1>4, <2>1 DEF Arguments, This, Words, Complete, Dispatch, Same
  <2> QED BY <2>2, <2>4, <2>5 DEF OkIsDeserved
<1> QED BY <1>1, <1>2, <1>3, <1>4 DEF Dispatch

LEMMA HelpWantedStep == ASSUME ArgInv, HelpWanted PROVE ArgInv'
BY ExitStep DEF HelpWanted

(* The n words from the current one on are taken for argument j.           *)
LEMMA StoreStep ==
  ASSUME ArgInv, at = "parse", NEW j \in DOMAIN Arguments, NEW v \in Values, NEW n \in {1, 2},
         NEW q \in {0, 1}, Store(j, v, n, q), Same, UNCHANGED <<cmd, handed, heap>>,
         i + n <= Len(argv), Len(parsed.storage) < MaxParsed,
         SubSeq(argv, i + 1, i + n) \in Spellings(Arguments[j], v),
         \/ Arguments[j].type = "positional" /\ q = 1 /\ Arguments[j].position = parsed.next_positional
         \/ Arguments[j].type = "named" /\ q = 0 /\ (j \in Seen => Arguments[j].multiple_allowed),
         Arguments[j].allowed # {} /\ Arguments[j].value_type # "none" => v \in Arguments[j].allowed
  PROVE  ArgInv'
<1> DEFINE e == [id |-> j, value |-> v, is_default |-> FALSE]
           s == parsed.storage
<1>1. ArgTypes /\ Phases /\ StoredOK(Arguments, parsed) /\ Says(Arguments, Words(i), s)
  BY DEF ArgInv
<1>2. cmd.name \in DOMAIN Commands /\ Arguments \in Seq(ArgumentType) /\ handed = <<>> /\ heap = 0
  BY <1>1, ArgumentsOK DEF Phases, Within, ArgTypes
<1>3. j \in Nat /\ e \in Entry /\ s \in Seq(Entry) /\ Typed(e)
  BY <1>1, <1>2, LenProperties DEF Entry, ArgTypes, ParsedType, Typed
<1>4. /\ parsed' = [storage |-> Append(s, e), fulfilled |-> parsed.fulfilled \cup {j},
                    next_positional |-> parsed.next_positional + q]
      /\ i' = i + n /\ at' = at /\ argv' = argv /\ ended' = ended /\ cmd' = cmd /\ outcome' = outcome
      /\ handed' = handed /\ heap' = heap
  BY DEF Store, Seen, Same
<1>5. /\ Append(s, e) \in Seq(Entry) /\ Len(Append(s, e)) = Len(s) + 1 /\ Len(s) \in Nat
      /\ parsed'.storage = Append(s, e) /\ parsed' \in ParsedType
  <2>1. parsed.fulfilled \cup {j} \in SUBSET Nat /\ parsed.next_positional + q \in Nat
    BY <1>1, <1>3 DEF ArgTypes, ParsedType
  <2> QED BY <1>3, <1>4, <2>1, AppendProperties, LenProperties DEF ParsedType
<1>6. ArgTypes'
  <2>1. i' \in Nat /\ i' <= Len(argv')
    BY <1>1, <1>4 DEF ArgTypes
  <2>2. Len(parsed'.storage) <= MaxParsed
    BY <1>5, ArgAssumption
  <2> QED BY <1>1, <1>2, <1>4, <1>5, <2>1, <2>2 DEF ArgTypes
<1>7. Phases'
  <2>1. cmd.tokens <= i'
    BY <1>1, <1>4 DEF ArgTypes, Phases
  <2> QED BY <1>1, <1>2, <1>4, <2>1 DEF Phases, Within, Complete
<1>8. Arguments' = Arguments
  BY <1>4 DEF Arguments, This
<1>9. StoredOK(Arguments, parsed')
  BY <1>1, <1>2, <1>4, StoreOK DEF ArgTypes, Seen
<1>10. Says(Arguments, Words(i)', parsed'.storage)
  <2>1. cmd.tokens + 1 \in 1 .. Len(argv) + 1 /\ i \in cmd.tokens .. Len(argv) /\ i + n \in i .. Len(argv)
        /\ cmd.tokens \in Nat
    BY <1>1 DEF ArgTypes, Phases
  <2> DEFINE more == SubSeq(argv, i + 1, i + n)
  <2>2. Words(i)' = Words(i) \o more
    <3>1. /\ cmd.tokens \in Nat /\ i \in Nat /\ i + n \in Nat /\ argv \in Seq(Tokens)
          /\ cmd.tokens <= i /\ i <= i + n /\ i + n <= Len(argv)
      BY <1>1, <2>1 DEF ArgTypes
    <3>2. SubSeq(argv, cmd.tokens + 1, i + n) = SubSeq(argv, cmd.tokens + 1, i) \o SubSeq(argv, i + 1, i + n)
      BY <3>1, Extended
    <3> QED BY <1>4, <3>2 DEF Words
  <2>3. Words(i) \in Seq(Tokens) /\ more \in Seq(Tokens)
    BY <1>1, <2>1, Part, SMTT(20) DEF Words, ArgTypes
  <2>4. e.id = j /\ e.value = v
    OBVIOUS
  <2> HIDE DEF more, e, s
  <2>5. Says(Arguments, Words(i) \o more, Append(s, e))
    BY <1>1, <1>3, <2>3, <2>4, SaysMore DEF more
  <2> QED BY <1>5, <2>2, <2>5
<1>11. \A k \in DOMAIN parsed'.storage : parsed'.storage[k].id \in DOMAIN Arguments
  BY <1>9 DEF StoredOK
<1>12. ~Complete' /\ OkIsDeserved'
  BY <1>2, <1>4 DEF Complete, OkIsDeserved
<1> QED BY <1>4, <1>6, <1>7, <1>8, <1>9, <1>10, <1>11, <1>12 DEF ArgInv

LEMMA CurrentOK ==
  ASSUME ArgInv, More
  PROVE  /\ i \in Nat /\ i + 1 <= Len(argv) /\ Current \in Tokens /\ Current = argv[i + 1]
         /\ Current = [prefix |-> Current.prefix, text |-> Current.text]
         /\ Current.prefix \in {"long", "short", "bare"} /\ SubSeq(argv, i + 1, i + 1) = <<Current>>
<1>1. i \in Nat /\ i + 1 \in 1 .. Len(argv) /\ argv \in Seq(Tokens)
  BY DEF ArgInv, ArgTypes, More
<1>2. Current \in Tokens
  BY <1>1, ElementOfSeq DEF Current
<1>3. Current \in [prefix : {"long", "short", "bare"}, text : STRING]
  BY <1>2, ArgAssumption
<1>4. SubSeq(argv, i + 1, i + 1) = <<argv[i + 1]>>
  BY <1>1, One
<1>5. Current = argv[i + 1]
  BY DEF Current
<1>6. Current = [prefix |-> Current.prefix, text |-> Current.text]
      /\ Current.prefix \in {"long", "short", "bare"}
  BY <1>3
<1>7. i \in Nat /\ i + 1 <= Len(argv)
  BY <1>1
<1>8. SubSeq(argv, i + 1, i + 1) = <<Current>>
  BY <1>4, <1>5, Zenon
<1> QED BY <1>2, <1>5, <1>6, <1>7, <1>8, Zenon

(* A named argument is spelled by the flag and the value behind it.        *)
LEMMA NamedIsSpelled ==
  ASSUME NEW a \in ArgumentType, a.type = "named", NEW token,
         \/ token = [prefix |-> "long", text |-> a.name]
         \/ token = [prefix |-> "short", text |-> a.short_name],
         NEW value, NEW w \in ValueTokens(a, value)
  PROVE  <<token>> \o w \in Spellings(a, value)
BY DEF Spellings

LEMMA NamedStep == ASSUME ArgInv, Named PROVE ArgInv'
<1> DEFINE field == IF Current.prefix = "long" THEN "name" ELSE "short_name"
           found == {j \in DOMAIN Arguments : Arguments[j].type = "named"
                       /\ Arguments[j][field] = Current.text /\ Current.text # Null}
           j     == First(found)
           full  == Len(parsed.storage) >= MaxParsed
           free  == found # {} /\ ~Repeated(j)
           takes == Arguments[j].value_type # "none"
           good  == i + 2 <= Len(argv) /\ Accepted(argv[i + 2], Arguments[j])
<1>1. /\ at = "parse" /\ More /\ Same /\ UNCHANGED <<cmd, handed, heap>>
      /\ Current.prefix \in {"long", "short"}
  BY DEF Named
<1>2. \/ \E res \in {"invalid_argument", "insufficient_size"} : Exit(res) /\ UNCHANGED <<i, parsed>>
      \/ free /\ ~full /\ ~takes /\ Store(j, <<1>>, 1, 0)
      \/ free /\ ~full /\ takes /\ good /\ Store(j, ValueOf(argv[i + 2], Arguments[j]), 2, 0)
  BY DEF Named
<1>3. CASE \E res \in {"invalid_argument", "insufficient_size"} : Exit(res) /\ UNCHANGED <<i, parsed>>
  BY <1>1, <1>3, ExitStep
<1>4. ASSUME free, ~full
      PROVE  /\ j \in DOMAIN Arguments /\ Arguments[j] \in ArgumentType /\ Arguments[j].type = "named"
             /\ (j \in Seen => Arguments[j].multiple_allowed)
             /\ \/ Current = [prefix |-> "long", text |-> Arguments[j].name]
                \/ Current = [prefix |-> "short", text |-> Arguments[j].short_name]
             /\ Len(parsed.storage) < MaxParsed
  <2>1. Arguments \in Seq(ArgumentType)
    BY <1>1, ArgumentsOK DEF ArgInv, Phases, Within
  <2>2. found \in SUBSET Nat
    BY <2>1, LenProperties
  <2>3. j \in found
    BY <1>4, <2>2, FirstOK
  <2>4. j \in DOMAIN Arguments /\ Arguments[j] \in ArgumentType /\ Arguments[j].type = "named"
        /\ Arguments[j][field] = Current.text
    BY <2>1, <2>3, ElementOfSeq, LenProperties
  <2>5. j \in Seen => Arguments[j].multiple_allowed
    BY <1>4, <2>4 DEF Repeated
  <2>6. Len(parsed.storage) < MaxParsed
    <3>1. Len(parsed.storage) \in Nat
      BY LenProperties DEF ArgInv, ArgTypes, ParsedType
    <3> QED BY <1>4, <3>1, ArgAssumption
  <2> HIDE DEF found, j
  <2>7. \/ Current = [prefix |-> "long", text |-> Arguments[j].name]
        \/ Current = [prefix |-> "short", text |-> Arguments[j].short_name]
    <3>1. CASE Current.prefix = "long"
      BY <1>1, <2>4, <3>1, CurrentOK
    <3>2. CASE Current.prefix = "short"
      BY <1>1, <2>4, <3>2, CurrentOK
    <3> QED BY <1>1, <3>1, <3>2
  <2> QED BY <2>4, <2>5, <2>6, <2>7
<1> HIDE DEF found, j, field
<1>5. ASSUME free, ~full, ~takes, Store(j, << 1 >>, 1, 0)
      PROVE  ArgInv'
  <2>1. <<1>> \in Values
    BY DEF Values
  <2>2. SubSeq(argv, i + 1, i + 1) = <<Current>> /\ i + 1 <= Len(argv)
    BY <1>1, CurrentOK
  <2>3. <<Current>> \o <<>> = <<Current>>
    BY <1>1, CurrentOK, ConcatEmptySeq
  <2>4. <<Current>> \o <<>> \in Spellings(Arguments[j], <<1>>)
    BY <1>4, <1>5, NamedIsSpelled DEF ValueTokens
  <2> QED BY <1>1, <1>4, <1>5, <2>1, <2>2, <2>3, <2>4, StoreStep
<1>6. ASSUME free, ~full, takes, good, Store(j, ValueOf(argv[i + 2], Arguments[j]), 2, 0)
      PROVE  ArgInv'
  <2> DEFINE v == ValueOf(argv[i + 2], Arguments[j])
  <2>1. argv \in Seq(Tokens) /\ i \in Nat /\ i + 2 \in 1 .. Len(argv) /\ i + 1 \in 1 .. Len(argv) - 1
        /\ Current = argv[i + 1]
    BY <1>1, <1>6, CurrentOK DEF ArgInv, ArgTypes
  <2>2. argv[i + 2] \in Tokens
    BY <2>1, ElementOfSeq
  <2>3. v \in Values /\ (Arguments[j].allowed # {} => v \in Arguments[j].allowed)
    BY <1>4, <1>6, <2>2, ValueOfOK, AcceptedOK
  <2>4. <<argv[i + 2]>> \in ValueTokens(Arguments[j], v)
    BY <1>4, <1>6, <2>2, ValueIsSpelled
  <2>5. SubSeq(argv, i + 1, i + 1 + 1) = <<Current>> \o <<argv[i + 1 + 1]>>
    BY <2>1, Two
  <2>6. i + 1 + 1 = i + 2
    BY <2>1
  <2>7. SubSeq(argv, i + 1, i + 2) \in Spellings(Arguments[j], v)
    BY <1>4, <1>6, <2>4, <2>5, <2>6, NamedIsSpelled
  <2> HIDE DEF v
  <2>8. Store(j, v, 2, 0)
    BY <1>6 DEF v
  <2> QED BY <1>1, <1>4, <1>6, <2>1, <2>3, <2>7, <2>8, StoreStep
<1> QED BY <1>2, <1>3, <1>5, <1>6

LEMMA PositionalStep == ASSUME ArgInv, Positional PROVE ArgInv'
<1> DEFINE found == {j \in DOMAIN Arguments : Arguments[j].type = "positional"
                                              /\ Arguments[j].position = parsed.next_positional}
           j     == First(found)
           full  == Len(parsed.storage) >= MaxParsed
<1>1. at = "parse" /\ More /\ Same /\ UNCHANGED <<cmd, handed, heap>>
  BY DEF Positional
<1>2. \/ \E res \in {"invalid_argument", "insufficient_size"} : Exit(res) /\ UNCHANGED <<i, parsed>>
      \/ /\ found # {} /\ ~full /\ Accepted(Current, Arguments[j])
         /\ Store(j, ValueOf(Current, Arguments[j]), 1, 1)
  BY DEF Positional, Advances
<1>3. CASE \E res \in {"invalid_argument", "insufficient_size"} : Exit(res) /\ UNCHANGED <<i, parsed>>
  BY <1>1, <1>3, ExitStep
<1>4. ASSUME found # {}, ~full, Accepted(Current, Arguments[j]), Store(j, ValueOf(Current, Arguments[j]), 1, 1)
      PROVE  ArgInv'
  <2> DEFINE v == ValueOf(Current, Arguments[j])
  <2>1. Arguments \in Seq(ArgumentType)
    BY <1>1, ArgumentsOK DEF ArgInv, Phases, Within
  <2>2. found \in SUBSET Nat
    BY <2>1, LenProperties
  <2>3. j \in found
    BY <1>4, <2>2, FirstOK
  <2>4. j \in DOMAIN Arguments /\ Arguments[j] \in ArgumentType /\ Arguments[j].type = "positional"
        /\ Arguments[j].position = parsed.next_positional
    BY <2>1, <2>3, ElementOfSeq, LenProperties
  <2>5. Len(parsed.storage) < MaxParsed
    <3>1. Len(parsed.storage) \in Nat
      BY LenProperties DEF ArgInv, ArgTypes, ParsedType
    <3> QED BY <1>4, <3>1, ArgAssumption
  <2> HIDE DEF found, j
  <2>6. Current \in Tokens /\ i + 1 <= Len(argv) /\ SubSeq(argv, i + 1, i + 1) = <<Current>>
    BY <1>1, CurrentOK
  <2>7. v \in Values /\ (Arguments[j].allowed # {} => v \in Arguments[j].allowed)
        /\ Arguments[j].value_type # "none"
    BY <1>4, <2>4, <2>6, ValueOfOK, AcceptedOK
  <2>8. <<Current>> \in Spellings(Arguments[j], v)
    BY <1>4, <2>4, <2>6, <2>7, ValueIsSpelled DEF Spellings
  <2> HIDE DEF v
  <2>9. Store(j, v, 1, 1)
    BY <1>4 DEF v
  <2> QED BY <1>1, <1>4, <2>4, <2>5, <2>6, <2>7, <2>8, <2>9, StoreStep
<1> QED BY <1>2, <1>3, <1>4

LEMMA FillDefaultsStep == ASSUME ArgInv, FillDefaults PROVE ArgInv'
<1>1. at = "parse" /\ Sees /\ ~More /\ Same /\ UNCHANGED <<i, cmd, handed>>
  BY DEF FillDefaults
<1>2. PICK d \in [1 .. Cardinality(Missing) -> Missing] :
        /\ DefinitionOrder(d)
        /\ \/ \E res \in {"invalid_argument", "insufficient_size", "error"} :
                Exit(res) /\ UNCHANGED <<parsed, heap>>
           \/ /\ Wanting \cup {d[k] : k \in MaxParsed - Len(parsed.storage) + 1 .. Cardinality(Missing)} = {}
              /\ at' = "call" /\ parsed' = [parsed EXCEPT !.storage = Filled(d)]
              /\ heap' = (IF Filled(d) = <<>> THEN 0 ELSE 1) /\ UNCHANGED outcome
  BY DEF FillDefaults
<1>3. CASE \E res \in {"invalid_argument", "insufficient_size", "error"} :
             Exit(res) /\ UNCHANGED <<parsed, heap>>
  BY <1>1, <1>3, ExitStep
<1>4. CASE /\ Wanting \cup {d[k] : k \in MaxParsed - Len(parsed.storage) + 1 .. Cardinality(Missing)} = {}
           /\ at' = "call" /\ parsed' = [parsed EXCEPT !.storage = Filled(d)]
           /\ heap' = (IF Filled(d) = <<>> THEN 0 ELSE 1) /\ UNCHANGED outcome
  <2> DEFINE c == Cardinality(Missing)
             s == parsed.storage
             rest == [k \in DOMAIN d |-> [id |-> d[k], value |-> Arguments[d[k]].default, is_default |-> TRUE]]
  <2>1. ArgTypes /\ Phases /\ StoredOK(Arguments, parsed) /\ Says(Arguments, Words(i), s)
    BY <1>1 DEF ArgInv
  <2>2. cmd.name \in DOMAIN Commands /\ Arguments \in Seq(ArgumentType) /\ handed = <<>>
        /\ s \in Seq(Entry) /\ parsed \in ParsedType /\ Len(s) \in Nat
    BY <1>1, <2>1, ArgumentsOK, LenProperties DEF Phases, Within, ArgTypes, ParsedType
  <2>3. c \in Nat
    <3>1. DOMAIN Arguments = 1 .. Len(Arguments) /\ Len(Arguments) \in Nat
      BY <2>2, LenProperties
    <3>2. IsFiniteSet(Missing)
      <4>1. Missing \in SUBSET (1 .. Len(Arguments)) /\ IsFiniteSet(1 .. Len(Arguments))
        BY <3>1, FS_Interval DEF Missing
      <4> QED BY <4>1, FS_Subset
    <3> QED BY <3>2, FS_CardinalityType
  <2>4. \A k \in 1 .. c : /\ d[k] \in DOMAIN Arguments /\ d[k] \notin parsed.fulfilled
                          /\ Arguments[d[k]] \in ArgumentType /\ d[k] \in Nat
    <3>1. \A j \in Missing : /\ j \in DOMAIN Arguments /\ j \notin parsed.fulfilled /\ j \in Nat
                             /\ Arguments[j] \in ArgumentType
      BY <2>2, ElementOfSeq, LenProperties DEF Missing, Seen
    <3> QED BY <3>1
  <2>5. \A k \in 1 .. c : rest[k] \in Entry
    BY <2>4 DEF Entry, ArgumentType
  <2>6. rest \in Seq(Entry) /\ Len(rest) = c /\ DOMAIN rest = 1 .. c
    <3>1. rest \in [1 .. c -> Entry]
      BY <2>5
    <3> HIDE DEF rest, c
    <3>2. rest \in Seq(Entry)
      BY <2>3, <3>1, SeqDef
    <3> QED BY <2>3, <3>1, <3>2
  <2>7. \A k \in 1 .. c : rest[k].id = d[k] /\ ~Typed(rest[k])
    BY DEF Typed
  <2>8. Filled(d) = s \o rest
    BY DEF Filled
  <2> HIDE DEF rest, s, c
  <2>9. Filled(d) \in Seq(Entry) /\ Len(Filled(d)) = Len(s) + c
    BY <2>2, <2>6, <2>8, ConcatProperties
  <2>10. Len(Filled(d)) <= MaxParsed
    <3>1. \A k \in 1 .. c : k <= MaxParsed - Len(s)
      <4> SUFFICES ASSUME NEW k \in 1 .. c, k > MaxParsed - Len(s) PROVE FALSE
        BY <2>2, <2>3, ArgAssumption
      <4>1. k \in MaxParsed - Len(s) + 1 .. c
        BY <2>2, <2>3, ArgAssumption
      <4>2. d[k] \in {d[m] : m \in MaxParsed - Len(s) + 1 .. c}
        BY <4>1
      <4> QED BY <1>4, <4>2 DEF s, c
    <3>2. Len(s) <= MaxParsed
      BY <2>1 DEF ArgTypes, s
    <3>3. CASE c = 0
      BY <2>2, <2>9, <3>2, <3>3, ArgAssumption
    <3>4. CASE c # 0
      BY <2>2, <2>3, <2>9, <3>1, <3>4, ArgAssumption
    <3> QED BY <3>3, <3>4
  <2>11. parsed'.storage = Filled(d) /\ parsed' \in ParsedType
    BY <1>4, <2>2, <2>9 DEF ParsedType
  <2>12. ended /\ i = Len(argv) /\ Words(Len(argv))' = Words(i) /\ Arguments' = Arguments
    <3>1. ended /\ i = Len(argv)
      BY <1>1, <2>1, LenProperties DEF Sees, More, ArgTypes
    <3> QED BY <1>1, <3>1 DEF Words, Same, Arguments, This
  <2>13. ArgTypes'
    BY <1>1, <1>4, <2>1, <2>2, <2>10, <2>11 DEF ArgTypes, Same
  <2>14. Phases'
    BY <1>1, <1>4, <2>1, <2>2, <2>12 DEF Phases, Within, Complete, Same
  <2>15. SchemaKept(Arguments, Filled(d))
    <3>1. \A j \in DOMAIN Arguments : Arguments[j].required => j \in parsed.fulfilled
      BY <1>4 DEF Wanting, Seen
    <3>2. \A j \in DOMAIN Arguments : j \notin parsed.fulfilled /\ Arguments[j].default # <<>> =>
            \E k \in 1 .. c : d[k] = j
      BY <1>2 DEF DefinitionOrder, Range, Missing, Seen, c
    <3>3. \A k, m \in 1 .. c : k < m => d[k] < d[m]
      BY <1>2 DEF DefinitionOrder, c
    <3>4. \A j \in DOMAIN Arguments : j \notin parsed.fulfilled /\ Arguments[j].default # <<>> =>
            \E k \in DOMAIN rest : rest[k].id = j
      BY <2>6, <2>7, <3>2
    <3>5. \A k, m \in DOMAIN rest : k < m => rest[k].id < rest[m].id
      BY <2>6, <2>7, <3>3
    <3>6. \A k \in DOMAIN rest : ~Typed(rest[k]) /\ rest[k].id \notin parsed.fulfilled
      BY <2>4, <2>6, <2>7
    <3>7. SchemaKept(Arguments, parsed.storage \o rest)
      BY <2>1, <2>2, <2>6, <3>1, <3>4, <3>5, <3>6, SchemaIsKept, Zenon
    <3> QED BY <2>8, <3>7 DEF s
  <2>16. Words(i) \in Seq(Tokens)
    <3>1. cmd.tokens + 1 \in Nat \ {0} /\ i \in 0 .. Len(argv) /\ argv \in Seq(Tokens)
      BY <2>1 DEF ArgTypes
    <3> QED BY <3>1, Part DEF Words
  <2>17. Says(Arguments, Words(i), Filled(d)) /\ Ordered(Arguments, Filled(d))
    BY <2>1, <2>2, <2>6, <2>7, <2>8, <2>16, SaysDefaults, OrderedDefaults DEF StoredOK, s
  <2>18. \A k \in DOMAIN Filled(d) : Filled(d)[k].id \in DOMAIN Arguments
    <3> SUFFICES ASSUME NEW k \in DOMAIN Filled(d) PROVE Filled(d)[k].id \in DOMAIN Arguments
      OBVIOUS
    <3>1. k \in 1 .. Len(s) + c /\ Filled(d)[k] = IF k <= Len(s) THEN s[k] ELSE rest[k - Len(s)]
      BY <2>2, <2>6, <2>8, <2>9, ConcatProperties, LenProperties
    <3>2. CASE k <= Len(s)
      BY <2>1, <2>2, <3>1, <3>2, LenProperties DEF StoredOK, s
    <3>3. CASE k > Len(s)
      <4>1. k - Len(s) \in 1 .. c
        BY <2>2, <2>3, <3>1, <3>3
      <4> QED BY <2>2, <2>4, <2>7, <3>1, <3>3, <4>1
    <3> QED BY <2>2, <3>1, <3>2, <3>3
  <2> QED BY <1>4, <2>11, <2>12, <2>13, <2>14, <2>15, <2>17, <2>18 DEF ArgInv, OkIsDeserved
<1> QED BY <1>2, <1>3, <1>4

LEMMA CallHandlerStep == ASSUME ArgInv, CallHandler PROVE ArgInv'
<1> USE DEF ArgInv
<1>1. handed = <<>> /\ handed' = <<parsed.storage>>
  <2>1. handed = <<>> /\ handed' = Append(handed, parsed.storage)
    BY DEF CallHandler, Phases
  <2> QED BY <2>1
<1>2. \E r \in {"ok", "error"} : at' = "done" /\ outcome' = r
  BY DEF CallHandler, Exit
<1>3. UNCHANGED <<argv, ended, i, cmd, parsed>> /\ heap' = 0 /\ at = "call"
  BY DEF CallHandler, Same, Released
<1>4. ArgTypes'
  BY <1>1, <1>3 DEF ArgTypes
<1>5. cmd.name \in DOMAIN Commands /\ Complete /\ handed' # <<>>
  BY <1>1, <1>3 DEF Phases, Within, Complete
<1>6. Phases'
  BY <1>1, <1>2, <1>3, <1>5 DEF Phases, Within, Complete
<1>7. Arguments' = Arguments /\ Words(Len(argv))' = Words(Len(argv))
  BY <1>3 DEF Arguments, This, Words
<1>8. OkIsDeserved'
  BY <1>5 DEF OkIsDeserved
<1> QED BY <1>2, <1>3, <1>4, <1>5, <1>6, <1>7, <1>8

LEMMA StepKeepsArgInv == ArgInv /\ [ArgNext]_argVars => ArgInv'
<1> SUFFICES ASSUME ArgInv, [ArgNext]_argVars PROVE ArgInv'
  OBVIOUS
<1>1. CASE UNCHANGED argVars
  BY <1>1 DEF ArgInv, ArgTypes, Phases, Within, Complete, Arguments, This, Words, OkIsDeserved, More, Current,
              argVars
<1> QED BY <1>1, TypeStep, ProcessArgsStep, DispatchStep, HelpWantedStep, NamedStep, PositionalStep,
           FillDefaultsStep, CallHandlerStep DEF ArgNext

LEMMA ArgInvIsSafe == ArgInv => HandlerGetsCommandLine
<1> SUFFICES ASSUME ArgInv PROVE HandlerGetsCommandLine
  OBVIOUS
<1>1. ArgTypes /\ Phases /\ OkIsDeserved
  BY DEF ArgInv
<1>2. ArgTypeOK
  <2>1. handed = <<>> \/ handed = <<parsed.storage>>
    BY <1>1 DEF ArgTypes
  <2>2. Len(handed) <= 1
    <3>1. CASE handed = <<>>
      BY <3>1
    <3>2. CASE handed = <<parsed.storage>>
      BY <3>2
    <3> QED BY <2>1, <3>1, <3>2
  <2> QED BY <1>1, <2>2 DEF ArgTypeOK, ArgTypes, Phases, ArgInv
<1>3. CASE handed = <<>>
  BY <1>1, <1>2, <1>3 DEF HandlerGetsCommandLine, HandlerGetsSchema, CommandLineIsSaid
<1>4. CASE handed # <<>>
  <2>1. handed = <<parsed.storage>> /\ Complete
    BY <1>1, <1>4 DEF ArgTypes, Complete
  <2>2. \A c \in DOMAIN handed : handed[c] = parsed.storage
    BY <2>1
  <2> QED BY <1>1, <1>2, <2>1, <2>2 DEF HandlerGetsCommandLine, HandlerGetsSchema, CommandLineIsSaid, ArgInv
<1> QED BY <1>3, <1>4

(* A handler is called at most once, with every word typed behind its      *)
(* command, in turn, and with what the schema says is missing: whatever    *)
(* the commands and their arguments are, however long the command line is  *)
(* and however much the parser can store (arg_parser_process_args).        *)
THEOREM HandlerIsGivenCommandLine == ArgSpec => []HandlerGetsCommandLine
<1>1. ArgSpec => []ArgInv
  BY InitOK, StepKeepsArgInv, PTL DEF ArgSpec
<1> QED BY <1>1, ArgInvIsSafe, PTL

-----------------------------------------------------------------------------
(***************************************************************************)
(* Base64.  What base64_encode writes base64_decode reads back, of every   *)
(* length.                                                                 *)
(***************************************************************************)

Bytes64 == 0 .. Byte - 1
Sextets == 0 .. Sextet - 1
Triples == {t \in Int : 0 <= t /\ t <= 256 * 256 * 256 - 1}
Triple(a, b, c) == (a * Byte + b) * Byte + c
Quadruple(v, w, x, y) == ((v * Sextet + w) * Sextet + x) * Sextet + y

(* The decoder's table inverts the encoder's, and no letter is the padding.*)
LEMMA TablesAgree ==
  ASSUME NEW v \in Sextets
  PROVE  Value64(Letter64(v)) = v /\ Letter64(v) # Padding /\ Value64(Padding) = 0
BY DEF Sextets, Sextet, Value64, Letter64, Padding

LEMMA TripleOK ==
  ASSUME NEW a \in Bytes64, NEW b \in Bytes64, NEW c \in Bytes64
  PROVE  /\ Triple(a, b, c) \in Triples
         /\ (Triple(a, b, c) \div Shift8(0)) % Byte = a
         /\ (Triple(a, b, c) \div Shift8(1)) % Byte = b
         /\ (Triple(a, b, c) \div Shift8(2)) % Byte = c
<1> DEFINE t == Triple(a, b, c)
<1>1. t = 256 * (256 * a + b) + c /\ a \in 0 .. 255 /\ b \in 0 .. 255 /\ c \in 0 .. 255
  BY DEF Triple, Byte, Bytes64
<1>2. Shift8(0) = 256 * 256 /\ Shift8(1) = 256 /\ Shift8(2) = 1
  BY DEF Shift8, Byte
<1> HIDE DEF t
<1>3. t \div (256 * 256) = a
  BY <1>1
<1>4. t \div 256 = 256 * a + b
  BY <1>1
<1>5. t \in Int /\ 0 <= t /\ t <= 256 * 256 * 256 - 1
  BY <1>1
<1>6. t \div 1 = t
  BY <1>5
<1>7. a % 256 = a /\ (256 * a + b) % 256 = b /\ t % 256 = c
  BY <1>1
<1>8. Byte = 256 /\ t \in Triples
  BY <1>5 DEF Byte, Triples
<1> QED BY <1>2, <1>3, <1>4, <1>6, <1>7, <1>8 DEF t

(* Four letters hold the 24 bits of three bytes.                           *)
LEMMA SextetsOK ==
  ASSUME NEW t \in Triples
  PROVE  /\ \A p \in 0 .. 3 : (t \div Shift64(p)) % Sextet \in Sextets
         /\ Quadruple((t \div Shift64(0)) % Sextet, (t \div Shift64(1)) % Sextet,
                      (t \div Shift64(2)) % Sextet, (t \div Shift64(3)) % Sextet) = t
<1> DEFINE q1 == t \div 64
           q2 == t \div (64 * 64)
           q3 == t \div (64 * 64 * 64)
<1>1. t \in Int /\ 0 <= t /\ t <= 256 * 256 * 256 - 1
  BY DEF Triples, Byte
<1>2. q1 \in Int /\ 0 <= q1 /\ q1 <= 64 * 64 * 64 - 1 /\ t = 64 * q1 + (t % 64) /\ t % 64 \in 0 .. 63
  BY <1>1
<1>3. q2 = q1 \div 64
  BY <1>1
<1>4. q3 = q2 \div 64
  BY <1>1
<1>5. t \div 1 = t
  BY <1>1
<1> HIDE DEF q1, q2, q3
<1>6. q2 \in Int /\ 0 <= q2 /\ q2 <= 64 * 64 - 1 /\ q1 = 64 * q2 + (q1 % 64) /\ q1 % 64 \in 0 .. 63
  BY <1>2, <1>3
<1>7. q3 \in 0 .. 63 /\ q2 = 64 * q3 + (q2 % 64) /\ q2 % 64 \in 0 .. 63
  <2>1. q2 \in Int /\ q3 = q2 \div 64 /\ q2 \div 64 \in Int
    BY <1>4, <1>6
  <2>2. 0 <= q2 \div 64 /\ q2 \div 64 <= 63
    BY <1>6
  <2>3. q2 = 64 * (q2 \div 64) + (q2 % 64) /\ q2 % 64 \in 0 .. 63
    BY <1>6
  <2> QED BY <2>1, <2>2, <2>3
<1>8. q3 % 64 = q3
  BY <1>7
<1>9. ((q3 * 64 + (q2 % 64)) * 64 + (q1 % 64)) * 64 + (t % 64) = t
  BY <1>2, <1>6, <1>7
<1>10. Shift64(0) = 64 * 64 * 64 /\ Shift64(1) = 64 * 64 /\ Shift64(2) = 64 /\ Shift64(3) = 1
  BY DEF Shift64, Sextet
<1>11. t \div Shift64(0) = q3 /\ t \div Shift64(1) = q2 /\ t \div Shift64(2) = q1 /\ t \div Shift64(3) = t
  BY <1>5, <1>10 DEF q1, q2, q3
<1>12. Sextet = 64 /\ Sextets = 0 .. 63
  BY DEF Sextets, Sextet
<1>13. Quadruple(q3 % 64, q2 % 64, q1 % 64, t % 64) = t
  BY <1>8, <1>9, <1>12 DEF Quadruple
<1>14. \A p \in 0 .. 3 : p = 0 \/ p = 1 \/ p = 2 \/ p = 3
  OBVIOUS
<1>15. \A p \in 0 .. 3 : (t \div Shift64(p)) % 64 \in 0 .. 63
  BY <1>2, <1>6, <1>7, <1>8, <1>11, <1>14
<1> QED BY <1>11, <1>12, <1>13, <1>15

(* What is missing of a last triple are bits that are zero anyway.         *)
LEMMA LastSextets ==
  ASSUME NEW a \in Bytes64, NEW b \in Bytes64
  PROVE  /\ (Triple(a, b, 0) \div Shift64(3)) % Sextet = 0
         /\ (Triple(a, 0, 0) \div Shift64(2)) % Sextet = 0
<1>1. Triple(a, b, 0) = 256 * (256 * a + b) /\ Triple(a, 0, 0) = 256 * 256 * a /\ a \in Int /\ b \in Int
  BY DEF Triple, Byte, Bytes64
<1>2. Shift64(3) = 1 /\ Shift64(2) = 64 /\ Sextet = 64
  BY DEF Shift64, Sextet
<1>3. (256 * (256 * a + b)) % 64 = 0 /\ (256 * (256 * a + b)) \div 1 = 256 * (256 * a + b)
  BY <1>1
<1>4. (256 * 256 * a) \div 64 = 64 * (16 * a) /\ (64 * (16 * a)) % 64 = 0
  BY <1>1
<1> QED BY <1>1, <1>2, <1>3, <1>4

(* The sizes and the places of the padding.                                *)
LEMMA SizesOK ==
  ASSUME NEW n \in Nat \ {0}
  PROVE  /\ EncodedSize(n) \in Nat \ {0} /\ EncodedSize(n) % 4 = 0
         /\ Pads(n) \in 0 .. 2 /\ 3 * (EncodedSize(n) \div 4) = n + Pads(n)
         /\ EncodedSize(n) >= 4
BY DEF EncodedSize, Pads

(* The three bytes of a group, and the letters it is written as.           *)
Group(data, k) == Triple(Byte64(data, 3 * k + 1), Byte64(data, 3 * k + 2), Byte64(data, 3 * k + 3))
Sextet64(data, k, p) == (Group(data, k) \div Shift64(p)) % Sextet

LEMMA GroupOK ==
  ASSUME NEW data \in Seq(Bytes64), NEW k \in Nat
  PROVE  /\ \A ix \in Nat : Byte64(data, ix) \in Bytes64
         /\ Group(data, k) \in Triples
         /\ \A p \in 0 .. 3 : Sextet64(data, k, p) \in Sextets
         /\ Quadruple(Sextet64(data, k, 0), Sextet64(data, k, 1), Sextet64(data, k, 2), Sextet64(data, k, 3))
              = Group(data, k)
<1>1. ASSUME NEW ix \in Nat PROVE Byte64(data, ix) \in Bytes64
  <2>1. 0 \in Bytes64
    BY DEF Bytes64, Byte
  <2>2. ix \in DOMAIN data => data[ix] \in Bytes64
    OBVIOUS
  <2> QED BY <2>1, <2>2 DEF Byte64
<1>2. 3 * k + 1 \in Nat /\ 3 * k + 2 \in Nat /\ 3 * k + 3 \in Nat
  OBVIOUS
<1>3. Group(data, k) \in Triples
  BY <1>1, <1>2, TripleOK DEF Group
<1> QED BY <1>1, <1>3, SextetsOK DEF Sextet64

(* A letter of the encoding stands for its six bits, the padding for those *)
(* of bytes that are not there.                                            *)
LEMMA LetterOK ==
  ASSUME NEW data \in Seq(Bytes64), Len(data) # 0, NEW ix \in 1 .. EncodedSize(Len(data))
  PROVE  Encoded(data)[ix]
           = IF ix > EncodedSize(Len(data)) - Pads(Len(data)) THEN Padding
             ELSE Letter64(Sextet64(data, (ix - 1) \div 4, (ix - 1) % 4))
BY DEF Encoded, Sextet64, Group, Triple

LEMMA LetterStandsForBits ==
  ASSUME NEW data \in Seq(Bytes64), Len(data) # 0,
         NEW k \in Nat, 4 * k < EncodedSize(Len(data)), NEW p \in 0 .. 3
  PROVE  Value64(Encoded(data)[4 * k + 1 + p]) = Sextet64(data, k, p)
<1> DEFINE n == Len(data)
           len == EncodedSize(n)
           ix == 4 * k + 1 + p
<1>1. n \in Nat \ {0}
  OBVIOUS
<1>2. /\ len \in Nat \ {0} /\ len % 4 = 0 /\ Pads(n) \in 0 .. 2
      /\ 3 * (len \div 4) = n + Pads(n) /\ len >= 4
  BY <1>1, SizesOK
<1> HIDE DEF len
<1>3. ix \in 1 .. len /\ (ix - 1) \div 4 = k /\ (ix - 1) % 4 = p
  <2>1. 4 * k < len
    BY DEF len
  <2>2. ix - 1 = 4 * k + p
    OBVIOUS
  <2> QED BY <1>2, <2>1, <2>2
<1>4. Encoded(data)[ix] = IF ix > len - Pads(n) THEN Padding ELSE Letter64(Sextet64(data, k, p))
  BY <1>1, <1>3, LetterOK DEF len
<1>5. CASE ~(ix > len - Pads(n))
  BY <1>4, <1>5, GroupOK, TablesAgree
<1>6. CASE ix > len - Pads(n)
  <2> DEFINE m == len \div 4
  <2>1. len = 4 * m /\ m \in Nat /\ 3 * m = n + Pads(n)
    BY <1>2
  <2> HIDE DEF m
  <2>2. k = m - 1 /\ p > 3 - Pads(n)
    BY <1>2, <1>3, <1>6, <2>1
  <2>3. Value64(Encoded(data)[ix]) = 0
    <3>1. 0 \in Sextets
      BY DEF Sextets, Sextet
    <3> QED BY <1>4, <1>6, TablesAgree, <3>1
  <2>4. Byte64(data, 3 * k + 1) \in Bytes64 /\ Byte64(data, 3 * k + 2) \in Bytes64
    BY GroupOK
  <2>5. Byte64(data, 3 * k + 3) = 0
    <3>1. 3 * k + 3 > n
      BY <1>1, <1>2, <2>1, <2>2
    <3> QED BY <3>1 DEF Byte64
  <2>6. CASE p = 3
    BY <2>3, <2>4, <2>5, <2>6, LastSextets DEF Sextet64, Group
  <2>7. CASE p = 2
    <3>1. 3 * k + 2 > n
      BY <1>1, <1>2, <2>1, <2>2, <2>7
    <3>2. Byte64(data, 3 * k + 2) = 0
      BY <3>1 DEF Byte64
    <3> QED BY <2>3, <2>4, <2>5, <2>7, <3>2, LastSextets DEF Sextet64, Group
  <2> QED BY <1>2, <2>2, <2>6, <2>7, SMTT(20)
<1> QED BY <1>5, <1>6

(* The size that the padding tells is the size of what was encoded.        *)
LEMMA DecodedSizeOK ==
  ASSUME NEW data \in Seq(Bytes64), Len(data) # 0
  PROVE  /\ Len(Encoded(data)) = EncodedSize(Len(data))
         /\ DOMAIN Encoded(data) = 1 .. EncodedSize(Len(data))
         /\ DecodedSize(Encoded(data)) = Len(data)
         /\ \A ix \in DOMAIN Encoded(data) : Encoded(data)[ix] = Padding => ix > Len(Encoded(data)) - 2
<1> DEFINE n == Len(data)
           len == EncodedSize(n)
           e == Encoded(data)
<1>1. n \in Nat \ {0}
  OBVIOUS
<1>2. /\ len \in Nat \ {0} /\ len % 4 = 0 /\ Pads(n) \in 0 .. 2
      /\ 3 * (len \div 4) = n + Pads(n) /\ len >= 4
  BY <1>1, SizesOK
<1>3. DOMAIN e = 1 .. len
  BY DEF Encoded
<1>4. Len(e) = len
  <2> DEFINE F(ix) == e[ix]
  <2>1. e = [ix \in 1 .. len |-> F(ix)]
    BY <1>3 DEF Encoded
  <2>2. len \in Nat
    BY <1>2
  <2> HIDE DEF F, e, len
  <2>3. Len([ix \in 1 .. len |-> F(ix)]) = len
    BY <2>2
  <2> QED BY <2>1, <2>3
<1>5. ASSUME NEW ix \in 1 .. len PROVE e[ix] = Padding <=> ix > len - Pads(n)
  <2>1. e[ix] = IF ix > len - Pads(n) THEN Padding ELSE Letter64(Sextet64(data, (ix - 1) \div 4, (ix - 1) % 4))
    BY LetterOK
  <2>2. (ix - 1) \div 4 \in Nat /\ (ix - 1) % 4 \in 0 .. 3
    OBVIOUS
  <2>3. Sextet64(data, (ix - 1) \div 4, (ix - 1) % 4) \in Sextets
    BY <2>2, GroupOK
  <2> QED BY <2>1, <2>3, TablesAgree
<1> HIDE DEF len, e
<1>6. len \in 1 .. len /\ len - 1 \in 1 .. len
  BY <1>2
<1>7. (e[len] = Padding <=> Pads(n) >= 1) /\ (e[len - 1] = Padding <=> Pads(n) >= 2)
  BY <1>2, <1>5, <1>6
<1>8. DecodedSize(e) = n
  <2>1. DecodedSize(e) = 3 * (len \div 4) - (IF e[len] = Padding THEN 1 ELSE 0)
                                        - (IF e[len - 1] = Padding THEN 1 ELSE 0)
    BY <1>4 DEF DecodedSize
  <2> QED BY <1>1, <1>2, <1>7, <2>1
<1>9. ASSUME NEW ix \in DOMAIN e, e[ix] = Padding PROVE ix > Len(e) - 2
  BY <1>2, <1>3, <1>4, <1>5, <1>9
<1> QED BY <1>3, <1>4, <1>8, <1>9 DEF len, e

(* What was encoded comes back into a destination of its size.             *)
LEMMA DecodedOK ==
  ASSUME NEW data \in Seq(Bytes64), Len(data) # 0
  PROVE  /\ Decoded(Encoded(data), Len(data)) = [room |-> Len(data), ok |-> TRUE, bytes |-> data]
         /\ Decoded(Encoded(data), Len(data) - 1) = [room |-> Len(data) - 1, ok |-> FALSE, bytes |-> <<>>]
<1> DEFINE n == Len(data)
           len == EncodedSize(n)
           e == Encoded(data)
           value(ix) == Value64(e[ix])
           triple(k) == ((value(4 * k + 1) * Sextet + value(4 * k + 2)) * Sextet + value(4 * k + 3)) * Sextet
                          + value(4 * k + 4)
           byte(j) == (triple(j \div 3) \div Shift8(j % 3)) % Byte
<1>1. n \in Nat \ {0}
  OBVIOUS
<1>2. /\ len \in Nat \ {0} /\ len % 4 = 0 /\ Pads(n) \in 0 .. 2
      /\ 3 * (len \div 4) = n + Pads(n) /\ len >= 4
  BY <1>1, SizesOK
<1>3. Len(e) = len /\ DecodedSize(e) = n
  BY DecodedSizeOK
<1>4. ASSUME NEW k \in Nat, 4 * k < len PROVE triple(k) = Group(data, k)
  <2>1. /\ Value64(e[4 * k + 1 + 0]) = Sextet64(data, k, 0)
        /\ Value64(e[4 * k + 1 + 1]) = Sextet64(data, k, 1)
        /\ Value64(e[4 * k + 1 + 2]) = Sextet64(data, k, 2)
        /\ Value64(e[4 * k + 1 + 3]) = Sextet64(data, k, 3)
    BY <1>4, LetterStandsForBits
  <2>2. 4 * k + 1 + 0 = 4 * k + 1 /\ 4 * k + 1 + 1 = 4 * k + 2 /\ 4 * k + 1 + 2 = 4 * k + 3
        /\ 4 * k + 1 + 3 = 4 * k + 4
    OBVIOUS
  <2>3. /\ value(4 * k + 1) = Sextet64(data, k, 0) /\ value(4 * k + 2) = Sextet64(data, k, 1)
        /\ value(4 * k + 3) = Sextet64(data, k, 2) /\ value(4 * k + 4) = Sextet64(data, k, 3)
    BY <2>1, <2>2
  <2> HIDE DEF value, e
  <2>4. triple(k) = Quadruple(Sextet64(data, k, 0), Sextet64(data, k, 1), Sextet64(data, k, 2), Sextet64(data, k, 3))
    BY <2>3 DEF Quadruple
  <2> QED BY <2>4, GroupOK
<1>5. ASSUME NEW ix \in 1 .. n PROVE byte(ix - 1) = data[ix]
  <2> DEFINE j == ix - 1
             k == j \div 3
             q == j % 3
  <2>1. j \in 0 .. n - 1
    BY <1>1
  <2> HIDE DEF j
  <2>2. k \in Nat /\ q \in 0 .. 2 /\ j = 3 * k + q
    BY <2>1
  <2> HIDE DEF k, q
  <2>3. 4 * k < len
    BY <1>1, <1>2, <2>1, <2>2
  <2>4. triple(k) = Group(data, k)
    BY <1>4, <2>2, <2>3
  <2>5. /\ Byte64(data, 3 * k + 1) \in Bytes64 /\ Byte64(data, 3 * k + 2) \in Bytes64
        /\ Byte64(data, 3 * k + 3) \in Bytes64
    BY <2>2, GroupOK
  <2>6. /\ (Group(data, k) \div Shift8(0)) % Byte = Byte64(data, 3 * k + 1)
        /\ (Group(data, k) \div Shift8(1)) % Byte = Byte64(data, 3 * k + 2)
        /\ (Group(data, k) \div Shift8(2)) % Byte = Byte64(data, 3 * k + 3)
    BY <2>5, TripleOK DEF Group
  <2>7. q = 0 \/ q = 1 \/ q = 2
    BY <2>2
  <2>8. (Group(data, k) \div Shift8(q)) % Byte = Byte64(data, 3 * k + 1 + q)
    <3>1. 3 * k + 1 + 0 = 3 * k + 1 /\ 3 * k + 1 + 1 = 3 * k + 2 /\ 3 * k + 1 + 2 = 3 * k + 3
      BY <2>2
    <3> QED BY <2>6, <2>7, <3>1
  <2>9. 3 * k + 1 + q = ix
    BY <2>2 DEF j
  <2>10. Byte64(data, ix) = data[ix]
    BY DEF Byte64
  <2>11. byte(j) = (triple(k) \div Shift8(q)) % Byte
    BY DEF k, q
  <2> HIDE DEF triple
  <2>12. byte(j) = data[ix]
    BY <2>4, <2>8, <2>9, <2>10, <2>11
  <2> QED BY <2>12 DEF j
<1>6. Decoded(e, n) = [room |-> n, ok |-> TRUE, bytes |-> [ix \in 1 .. n |-> byte(ix - 1)]]
  BY <1>1, <1>2, <1>3 DEF Decoded
<1>7. [ix \in 1 .. n |-> byte(ix - 1)] = data
  <2> HIDE DEF byte
  <2>1. [ix \in 1 .. n |-> byte(ix - 1)] = [ix \in 1 .. n |-> data[ix]]
    BY <1>5
  <2>2. data = [ix \in 1 .. n |-> data[ix]]
    OBVIOUS
  <2> QED BY <2>1, <2>2
<1>8. Decoded(e, n - 1) = [room |-> n - 1, ok |-> FALSE, bytes |-> <<>>]
  BY <1>1, <1>3 DEF Decoded
<1> HIDE DEF byte
<1> QED BY <1>6, <1>7, <1>8

(* A behaviour encodes once, and decodes what it encoded once.             *)
Base64Inv ==
  /\ octets \in Seq(Bytes64)
  /\ octets = <<>> => letters = <<>> /\ decoded = NotYet
  /\ octets # <<>> => letters = Encoded(octets)
  /\ decoded # NotYet => \E room \in {Len(octets), Len(octets) - 1} : decoded = Decoded(letters, room)

LEMMA Base64InvHolds == Base64Spec => []Base64Inv
<1>1. Base64Init => Base64Inv
  BY DEF Base64Init, Base64Inv
<1>2. Base64Inv /\ [Base64Next]_base64Vars => Base64Inv'
  <2> SUFFICES ASSUME Base64Inv, [Base64Next]_base64Vars PROVE Base64Inv'
    OBVIOUS
  <2>1. CASE Encode
    <3>0. PICK n \in 1 .. MaxOctets : \E data \in [1 .. n -> Octets] :
            octets = <<>> /\ octets' = data /\ letters' = Encoded(data) /\ UNCHANGED decoded
      BY <2>1 DEF Encode
    <3>1. PICK data \in [1 .. n -> Octets] :
            octets = <<>> /\ octets' = data /\ letters' = Encoded(data) /\ UNCHANGED decoded
      BY <3>0
    <3>2. Octets \subseteq Bytes64 /\ n \in Nat \ {0}
      <4>1. Octets \subseteq 0 .. Byte - 1 /\ MaxOctets \in Nat
        BY Base64Assumption, SMT
      <4> QED BY <4>1 DEF Bytes64
    <3>3. data \in Seq(Bytes64) /\ Len(data) = n /\ data # <<>>
      BY <3>2
    <3>4. decoded' = NotYet
      BY <3>1 DEF Base64Inv
    <3> QED BY <3>1, <3>3, <3>4 DEF Base64Inv, NotYet
  <2>2. CASE Decode
    <3>1. letters # <<>>
      BY <2>2 DEF Decode
    <3>2. octets # <<>>
      BY <3>1 DEF Base64Inv
    <3> QED BY <2>2, <3>1, <3>2 DEF Decode, Base64Inv
  <2>3. CASE UNCHANGED base64Vars
    BY <2>3 DEF base64Vars, Base64Inv, NotYet
  <2> QED BY <2>1, <2>2, <2>3 DEF Base64Next
<1> QED BY <1>1, <1>2, PTL DEF Base64Spec

(* What was encoded comes back, of every length, from letters with the     *)
(* padding at their end, into a destination that holds just that many      *)
(* bytes; a smaller one gets an error.                                     *)
THEOREM EncodedComesBack == Base64Spec => []DecodeInvertsEncode
<1>1. Base64Inv => DecodeInvertsEncode
  <2> SUFFICES ASSUME Base64Inv PROVE DecodeInvertsEncode
    OBVIOUS
  <2>1. CASE octets = <<>>
    BY <2>1 DEF Base64Inv, DecodeInvertsEncode
  <2>2. CASE octets # <<>>
    <3>1. octets \in Seq(Bytes64) /\ Len(octets) # 0 /\ letters = Encoded(octets)
      BY <2>2 DEF Base64Inv
    <3>2. \A ix \in DOMAIN letters : letters[ix] = Padding => ix > Len(letters) - 2
      BY <3>1, DecodedSizeOK
    <3>3. ASSUME decoded # NotYet
          PROVE  IF decoded.room = Len(octets) THEN decoded.ok /\ decoded.bytes = octets ELSE ~decoded.ok
      <4>1. PICK room \in {Len(octets), Len(octets) - 1} : decoded = Decoded(letters, room)
        BY <3>3 DEF Base64Inv
      <4>2. /\ Decoded(letters, Len(octets)) = [room |-> Len(octets), ok |-> TRUE, bytes |-> octets]
            /\ Decoded(letters, Len(octets) - 1) = [room |-> Len(octets) - 1, ok |-> FALSE, bytes |-> <<>>]
        BY <3>1, DecodedOK
      <4>3. Len(octets) \in Nat /\ Len(octets) - 1 # Len(octets)
        BY <3>1
      <4> QED BY <4>1, <4>2, <4>3
    <3> QED BY <3>2, <3>3 DEF DecodeInvertsEncode
  <2> QED BY <2>1, <2>2
<1> QED BY <1>1, Base64InvHolds, PTL

-----------------------------------------------------------------------------
(***************************************************************************)
(* Spans.  What is cut off a text lies in it, and nothing of it is lost.   *)
(***************************************************************************)

(* A set of numbers has a least one, and a bounded one has a greatest.     *)
LEMMA LeastOK ==
  ASSUME NEW S \in SUBSET Nat, S # {}
  PROVE  \E h \in S : \A g \in S : h <= g
<1>1. PICK h \in S : \A g \in S : ~(<<g, h>> \in OpToRel(<, Nat))
  BY NatLessThanWellFounded, WFMin
<1>2. \A g \in S : ~(g < h)
  BY <1>1 DEF OpToRel
<1>3. \A g \in S : h <= g
  BY <1>2
<1> QED BY <1>3

LEMMA GreatestOK ==
  ASSUME NEW n \in Nat, NEW S \in SUBSET (0 .. n), S # {}
  PROVE  \E h \in S : \A g \in S : h >= g
<1> DEFINE T == {k \in 0 .. n : n - k \in S}
<1>1. T \in SUBSET Nat
  OBVIOUS
<1>2. T # {}
  <2>1. PICK h \in S : TRUE
    OBVIOUS
  <2>2. n - h \in 0 .. n /\ n - (n - h) = h
    OBVIOUS
  <2> QED BY <2>1, <2>2
<1> HIDE DEF T
<1>3. PICK m \in T : \A k \in T : m <= k
  BY <1>1, <1>2, LeastOK, Zenon
<1>4. m \in 0 .. n /\ n - m \in S
  BY DEF T
<1>5. ASSUME NEW g \in S PROVE n - m >= g
  <2>1. g \in 0 .. n /\ n - g \in 0 .. n /\ n - (n - g) = g
    OBVIOUS
  <2>2. n - g \in T
    BY <2>1 DEF T
  <2>3. m <= n - g
    BY <1>3, <2>2
  <2> QED BY <1>4, <2>1, <2>3
<1> QED BY <1>4, <1>5
-----------------------------------------------------------------------------
(* Pieces of a text: n characters behind the first a.                      *)
Piece(t, a, n) == SubSeq(t, a + 1, a + n)

LEMMA PieceOK ==
  ASSUME NEW t \in Seq(Letters), NEW a \in Nat, NEW n \in Nat, a + n <= Len(t)
  PROVE  /\ Piece(t, a, n) \in Seq(Letters) /\ Len(Piece(t, a, n)) = n
         /\ \A ix \in 1 .. n : Piece(t, a, n)[ix] = t[a + ix]
<1>1. ASSUME NEW ix \in a + 1 .. a + n PROVE t[ix] \in Letters
  <2>1. ix \in 1 .. Len(t)
    BY LenProperties
  <2> QED BY <2>1, ElementOfSeq
<1>2. a + 1 \in Int /\ a + n \in Int
  OBVIOUS
<1>3. /\ SubSeq(t, a + 1, a + n) \in Seq(Letters)
      /\ Len(SubSeq(t, a + 1, a + n)) = IF a + 1 <= a + n THEN (a + n) - (a + 1) + 1 ELSE 0
      /\ \A ix \in 1 .. (a + n) - (a + 1) + 1 : SubSeq(t, a + 1, a + n)[ix] = t[(a + 1) + ix - 1]
  <2> DEFINE lo == a + 1
             hi == a + n
  <2>1. lo \in Int /\ hi \in Int /\ \A ix \in lo .. hi : t[ix] \in Letters
    BY <1>1, <1>2
  <2> HIDE DEF lo, hi
  <2>2. /\ SubSeq(t, lo, hi) \in Seq(Letters)
        /\ Len(SubSeq(t, lo, hi)) = IF lo <= hi THEN hi - lo + 1 ELSE 0
        /\ \A ix \in 1 .. hi - lo + 1 : SubSeq(t, lo, hi)[ix] = t[lo + ix - 1]
    BY <2>1, SubSeqProperties
  <2> QED BY <2>2 DEF lo, hi
<1>4. (a + n) - (a + 1) + 1 = n /\ (a + 1 <= a + n <=> n >= 1)
  OBVIOUS
<1>5. \A ix \in 1 .. n : (a + 1) + ix - 1 = a + ix
  OBVIOUS
<1> DEFINE p == SubSeq(t, a + 1, a + n)
<1> HIDE DEF p
<1>6. p \in Seq(Letters) /\ \A ix \in 1 .. n : p[ix] = t[a + ix]
  BY <1>3, <1>4, <1>5 DEF p
<1>7. Len(p) = IF n >= 1 THEN n ELSE 0
  BY <1>3, <1>4 DEF p
<1>8. Len(p) = n
  BY <1>7
<1> QED BY <1>6, <1>8, Zenon DEF Piece, p

LEMMA PieceOfPiece ==
  ASSUME NEW t \in Seq(Letters), NEW a \in Nat, NEW n \in Nat, a + n <= Len(t),
         NEW b \in Nat, NEW m \in Nat, b + m <= n
  PROVE  Piece(Piece(t, a, n), b, m) = Piece(t, a + b, m)
<1>1. Len(t) \in Nat
  BY LenProperties
<1>2. /\ Piece(t, a, n) \in Seq(Letters) /\ Len(Piece(t, a, n)) = n
      /\ \A ix \in 1 .. n : Piece(t, a, n)[ix] = t[a + ix]
  BY PieceOK
<1>3. /\ Piece(Piece(t, a, n), b, m) \in Seq(Letters) /\ Len(Piece(Piece(t, a, n), b, m)) = m
      /\ \A ix \in 1 .. m : Piece(Piece(t, a, n), b, m)[ix] = Piece(t, a, n)[b + ix]
  BY <1>2, PieceOK
<1>4. /\ Piece(t, a + b, m) \in Seq(Letters) /\ Len(Piece(t, a + b, m)) = m
      /\ \A ix \in 1 .. m : Piece(t, a + b, m)[ix] = t[(a + b) + ix]
  <2>1. a + b \in Nat /\ (a + b) + m <= Len(t)
    BY <1>1
  <2> QED BY <2>1, PieceOK
<1>5. ASSUME NEW ix \in 1 .. m PROVE Piece(Piece(t, a, n), b, m)[ix] = Piece(t, a + b, m)[ix]
  <2>1. b + ix \in 1 .. n /\ a + (b + ix) = (a + b) + ix
    OBVIOUS
  <2> QED BY <1>2, <1>3, <1>4, <2>1
<1> QED BY <1>3, <1>4, <1>5, SeqEqual

LEMMA PiecesJoin ==
  ASSUME NEW t \in Seq(Letters), NEW a \in Nat, NEW n \in Nat, NEW m \in Nat, a + n + m <= Len(t)
  PROVE  Piece(t, a, n) \o Piece(t, a + n, m) = Piece(t, a, n + m)
<1>1. Len(t) \in Nat
  BY LenProperties
<1>2. a + 1 \in 1 .. Len(t) + 1 /\ a + n \in (a + 1) - 1 .. Len(t) /\ a + n + m \in a + n .. Len(t)
  BY <1>1
<1>3. SubSeq(t, a + 1, a + n) \o SubSeq(t, (a + n) + 1, a + n + m) = SubSeq(t, a + 1, a + n + m)
  BY <1>2, ConcatAdjacentSubSeq
<1>4. a + n + m = a + (n + m) /\ a + n + m = (a + n) + m
  OBVIOUS
<1> QED BY <1>3, <1>4 DEF Piece
LEMMA ThreePiecesJoin ==
  ASSUME NEW t \in Seq(Letters), NEW a \in Nat, NEW n \in Nat, NEW m \in Nat, NEW k \in Nat,
         a + n + m + k <= Len(t)
  PROVE  (Piece(t, a, n) \o Piece(t, a + n, m)) \o Piece(t, a + n + m, k) = Piece(t, a, n + m + k)
<1>1. Len(t) \in Nat
  BY LenProperties
<1>2. Piece(t, a, n) \o Piece(t, a + n, m) = Piece(t, a, n + m)
  BY <1>1, PiecesJoin, SMTT(20)
<1> DEFINE nm == n + m
<1>3. nm \in Nat /\ a + nm = a + n + m /\ a + nm + k <= Len(t) /\ nm + k = n + m + k
  BY <1>1
<1> HIDE DEF nm
<1>4. Piece(t, a, nm) \o Piece(t, a + nm, k) = Piece(t, a, nm + k)
  BY <1>3, PiecesJoin, SMTT(20)
<1> QED BY <1>2, <1>3, <1>4 DEF nm
-----------------------------------------------------------------------------
(* Spans that lie in the text.                                             *)
Inside(s) == s.at \in Nat /\ s.size \in Nat /\ s.at + s.size <= Len(text) /\ s.size < Sizes
TextOK == text \in Seq(Letters) /\ Len(text) <= MaxText

LEMMA SizesAre == TextOK => Len(text) \in Nat /\ Len(text) < Sizes /\ Sizes \in Nat \ {0}
<1> SUFFICES ASSUME TextOK PROVE Len(text) \in Nat /\ Len(text) < Sizes /\ Sizes \in Nat \ {0}
  OBVIOUS
<1>1. Len(text) \in Nat
  BY LenProperties DEF TextOK
<1> QED BY <1>1, SpanAssumption DEF TextOK

LEMMA WrapOK ==
  ASSUME Sizes \in Nat \ {0}, NEW n \in Nat
  PROVE  Wrap(n) \in Nat /\ (n < Sizes => Wrap(n) = n)
BY DEF Wrap

LEMMA SliceOK ==
  ASSUME TextOK, NEW s, Inside(s), NEW start \in Nat, NEW size \in Nat, start + size <= s.size
  PROVE  /\ Slice(s, start, size) = IF size = 0 THEN Empty ELSE [at |-> s.at + start, size |-> size]
         /\ Inside(Slice(s, start, size)) /\ Slice(s, start, size).size = size
         /\ Bytes(Slice(s, start, size)) = Piece(text, s.at + start, size)
<1>1. Wrap(start + size) = start + size
  <2>1. start + size \in Nat /\ start + size < Sizes
    BY SizesAre DEF Inside
  <2> QED BY <2>1, SizesAre, WrapOK
<1>2. Slice(s, start, size) = IF size = 0 THEN Empty ELSE [at |-> s.at + start, size |-> size]
  BY <1>1 DEF Slice, Inside
<1>3. Inside(Slice(s, start, size)) /\ Slice(s, start, size).size = size
  <2>1. Inside(Empty)
    BY SizesAre DEF Inside, Empty
  <2> QED BY <1>2, <2>1, SizesAre DEF Inside, Empty
<1>4. ASSUME size = 0 PROVE Bytes(Slice(s, start, size)) = Piece(text, s.at + start, size)
  <2>1. Bytes(Empty) = <<>>
    <3>1. SubSeq(text, 0 + 1, 0 + 0) = <<>>
      BY SubSeqEmpty
    <3> QED BY <3>1 DEF Bytes, Empty
  <2>2. Piece(text, s.at + start, 0) = <<>>
    <3>1. (s.at + start) + 1 \in Int /\ (s.at + start) + 0 \in Int /\ (s.at + start) + 0 < (s.at + start) + 1
      BY DEF Inside
    <3> QED BY <3>1, SubSeqEmpty DEF Piece
  <2> QED BY <1>2, <1>4, <2>1, <2>2
<1>5. ASSUME size # 0 PROVE Bytes(Slice(s, start, size)) = Piece(text, s.at + start, size)
  <2>1. Slice(s, start, size) = [at |-> s.at + start, size |-> size]
    BY <1>2, <1>5
  <2>2. Bytes([at |-> s.at + start, size |-> size]) = Piece(text, s.at + start, size)
    BY DEF Bytes, Piece
  <2> QED BY <2>1, <2>2
<1> QED BY <1>2, <1>3, <1>4, <1>5

LEMMA SliceToEndOK ==
  ASSUME TextOK, NEW s, Inside(s), NEW start \in Nat, start <= s.size
  PROVE  SliceToEnd(s, start) = Slice(s, start, s.size - start)
<1>1. s.size - start \in Nat /\ s.size - start < Sizes
  BY SizesAre DEF Inside
<1>2. Wrap(s.size - start) = s.size - start
  BY <1>1, SizesAre, WrapOK
<1> QED BY <1>2 DEF SliceToEnd

LEMMA MatchesOK ==
  ASSUME TextOK, NEW s, Inside(s), NEW d \in Delimiters, NEW h \in Nat, h + Len(d) <= s.size
  PROVE  Matches(s, h, d) <=> Piece(text, s.at + h, Len(d)) = d
<1>1. Len(d) \in Nat
  BY SpanAssumption, LenProperties
<1>2. Matches(s, h, d) <=> Piece(Piece(text, s.at, s.size), h, Len(d)) = d
  BY DEF Matches, Bytes, Piece
<1> QED BY <1>1, <1>2, PieceOfPiece DEF Inside, TextOK

(* span_find answers with the first match from the start, or there is none.*)
LEMMA FindOK ==
  ASSUME TextOK, NEW s, Inside(s), NEW d \in Delimiters, NEW start \in Nat
  PROVE  \/ /\ Find(s, start, d) = NotFound
            /\ \A g \in start .. s.size - Len(d) : ~Matches(s, g, d)
         \/ /\ Find(s, start, d) \in start .. s.size - Len(d) /\ Matches(s, Find(s, start, d), d)
            /\ \A g \in start .. Find(s, start, d) - 1 : ~Matches(s, g, d)
<1> DEFINE found == {h \in start .. LastStart(s, d) : Matches(s, h, d)}
<1>1. Len(d) \in Nat /\ Len(d) # 0 /\ d # <<>> /\ d \in Seq(Letters)
  BY SpanAssumption, LenProperties, EmptySeq
<1>2. s.size \in Nat /\ LastStart(s, d) = s.size - Len(d)
  BY DEF Inside, LastStart
<1>3. ~(start < 0)
  OBVIOUS
<1>4. Wrap(s.size - start) < Len(d) => found = {}
  <2> SUFFICES ASSUME Wrap(s.size - start) < Len(d) PROVE found = {}
    OBVIOUS
  <2>1. CASE start <= s.size
    <3>1. s.size - start \in Nat /\ s.size - start < Sizes
      BY <1>2, <2>1, SizesAre DEF Inside
    <3>2. Wrap(s.size - start) = s.size - start
      BY <3>1, SizesAre, WrapOK
    <3> QED BY <1>1, <1>2, <3>2
  <2>2. CASE start > s.size
    BY <1>1, <1>2, <2>2
  <2> QED BY <1>2, <2>1, <2>2
<1>5. CASE found = {}
  <2>1. Find(s, start, d) = NotFound
    BY <1>5 DEF Find
  <2>2. \A g \in start .. s.size - Len(d) : ~Matches(s, g, d)
    BY <1>2, <1>5
  <2> QED BY <2>1, <2>2
<1>6. CASE found # {}
  <2> DEFINE h == CHOOSE h \in found : \A g \in found : h <= g
  <2>1. Find(s, start, d) = h
    BY <1>1, <1>3, <1>4, <1>6 DEF Find
  <2>2. found \in SUBSET Nat
    BY <1>1, <1>2
  <2> HIDE DEF found
  <2>3. h \in found /\ \A g \in found : h <= g
    BY <1>6, <2>2, LeastOK
  <2> HIDE DEF h
  <2>4. h \in start .. s.size - Len(d) /\ Matches(s, h, d)
    BY <1>2, <2>3 DEF found
  <2>5. ASSUME NEW g \in start .. h - 1 PROVE ~Matches(s, g, d)
    <3>1. g \in start .. LastStart(s, d) /\ ~(h <= g)
      BY <1>1, <1>2, <2>4
    <3> QED BY <2>3, <3>1 DEF found
  <2> QED BY <2>1, <2>4, <2>5
<1> QED BY <1>5, <1>6

(* span_find_reverse answers with the last match that ends by the start.   *)
LEMMA FindReverseOK ==
  ASSUME TextOK, NEW s, Inside(s), NEW d \in Delimiters, NEW start \in -1 .. MaxText,
         start < s.size
  PROVE  LET last == IF start = -1 THEN s.size - 1 ELSE start IN
         /\ FindReverse(s, start, d) # NotFound =>
              FindReverse(s, start, d) \in 0 .. s.size - Len(d) /\ Matches(s, FindReverse(s, start, d), d)
         /\ \A h \in 0 .. last - Len(d) + 1 :
              h \in 0 .. s.size - Len(d) /\ Matches(s, h, d) => FindReverse(s, start, d) >= h
<1> DEFINE last == IF start = -1 THEN s.size - 1 ELSE start
           found == {h \in 0 .. last - Len(d) + 1 : Matches(s, h, d)}
           f == FindReverse(s, start, d)
<1>1. Len(d) \in Nat /\ Len(d) # 0 /\ d # <<>>
  BY SpanAssumption, LenProperties, EmptySeq
<1>2. s.size \in Nat /\ MaxText \in Nat
  BY SpanAssumption DEF Inside
<1>3. last \in Int /\ last <= s.size - 1 /\ last >= -1
  BY <1>2
<1> DEFINE out == Len(d) > s.size \/ (start # -1 /\ start \notin Len(d) - 1 .. s.size - 1)
<1>4. f = IF out \/ found = {} THEN NotFound ELSE CHOOSE h \in found : \A g \in found : h >= g
  BY <1>1 DEF FindReverse
<1>5. CASE out
  <2>1. ASSUME NEW h \in 0 .. last - Len(d) + 1 PROVE h \notin 0 .. s.size - Len(d)
    BY <1>1, <1>2, <1>3, <1>5
  <2> QED BY <1>4, <1>5, <2>1
<1>6. CASE ~out /\ found = {}
  BY <1>4, <1>6
<1>7. CASE ~out /\ found # {}
  <2>1. last - Len(d) + 1 \in Nat /\ last - Len(d) + 1 <= s.size - Len(d)
    BY <1>1, <1>2, <1>3, <1>7
  <2>2. found \in SUBSET (0 .. last - Len(d) + 1)
    OBVIOUS
  <2> HIDE DEF found
  <2>3. \E h \in found : \A g \in found : h >= g
    BY <1>7, <2>1, <2>2, GreatestOK
  <2>4. f \in found /\ \A g \in found : f >= g
    BY <1>4, <1>7, <2>3
  <2> HIDE DEF f, last, out
  <2>5. f \in 0 .. s.size - Len(d) /\ Matches(s, f, d)
    BY <1>1, <1>2, <1>3, <2>1, <2>4 DEF found
  <2>6. \A h \in 0 .. last - Len(d) + 1 : Matches(s, h, d) => f >= h
    BY <2>4 DEF found
  <2> QED BY <2>5, <2>6 DEF f, last
<1> QED BY <1>5, <1>6, <1>7
-----------------------------------------------------------------------------
(* While a text is iterated over, the items are its pieces up to the one   *)
(* that is left, or up to its end.                                         *)
Cut(d, place) ==
  LET end == place[Len(items)] + items[Len(items)].size IN
  /\ Follow(d, place)
  /\ IF span.size = 0 THEN EndsAt(d, end)
     ELSE /\ span.at = end + Len(d) /\ span.at + span.size = Len(text)
          /\ Bytes([at |-> end, size |-> Len(d)]) = d

Spans0 == {s \in [at : Nat, size : Nat] : Inside(s)}
Iterating ==
  asked.op = "iterate" =>
    /\ asked.delimiter \in Delimiters /\ items \in Seq(Spans0) /\ items # <<>> /\ span \in Spans0
    /\ \E place \in [DOMAIN items -> 0 .. Len(text)] : Cut(asked.delimiter, place)

SpanInv ==
  /\ asked.op \in {"none", "iterate", "split", "reverse", "slice_out", "write", "read"}
  /\ asked.op \notin {"write", "read"} => TextOK
  /\ asked.op = "none" => span = Whole /\ items = <<>>
  /\ asked.op \in {"split", "slice_out"} => \A s \in Range(items) \cup {span} : Inside(s)
  /\ Iterating
  /\ SearchesFindNearest

LEMMA SpanInvImplies == SpanInv => SpansAreExact
<1> SUFFICES ASSUME SpanInv PROVE SpansAreExact
  OBVIOUS
<1>1. SpansStayInside
  <2>1. CASE asked.op = "iterate"
    <3>1. items \in Seq(Spans0) /\ span \in Spans0
      BY <2>1 DEF SpanInv, Iterating
    <3>2. Range(items) \subseteq Spans0
      BY <3>1, LenProperties, ElementOfSeq DEF Range
    <3> QED BY <3>1, <3>2 DEF SpansStayInside, Spans0, Inside
  <2>2. CASE asked.op \in {"split", "slice_out"}
    BY <2>2 DEF SpanInv, SpansStayInside, Inside
  <2> QED BY <2>1, <2>2 DEF SpansStayInside
<1>2. IterationIsWhole
  <2> SUFFICES ASSUME asked.op = "iterate", span.size = 0
               PROVE  \E place \in [DOMAIN items -> 0 .. Len(text)] :
                        /\ Follow(asked.delimiter, place)
                        /\ EndsAt(asked.delimiter, place[Len(items)] + items[Len(items)].size)
    BY DEF IterationIsWhole
  <2>1. PICK place \in [DOMAIN items -> 0 .. Len(text)] : Cut(asked.delimiter, place)
    BY DEF SpanInv, Iterating
  <2> QED BY <2>1 DEF Cut
<1> QED BY <1>1, <1>2 DEF SpansAreExact, SpanInv

LEMMA SpanInvInit == SpanInit => SpanInv
<1> SUFFICES ASSUME SpanInit PROVE SpanInv
  OBVIOUS
<1>1. TextOK
  BY EmptySeq, SpanAssumption DEF SpanInit, TextOK
<1>2. span = Whole /\ items = <<>> /\ asked.op = "none"
  BY EmptySeq DEF SpanInit, Nothing, Empty, Whole
<1> QED BY <1>1, <1>2 DEF SpanInv, Iterating, SearchesFindNearest

LEMMA WholeIsInside == TextOK => Inside(Whole)
BY SizesAre DEF Inside, Whole

(* A new text is what every call begins with.                              *)
LEMMA GetTextKeeps == ASSUME SpanInv, GetText PROVE SpanInv'
<1>1. PICK n \in 1 .. MaxText : \E t \in [1 .. n -> Letters] : text' = t /\ span' = [at |-> 0, size |-> n]
  BY DEF GetText
<1>2. PICK t \in [1 .. n -> Letters] : text' = t /\ span' = [at |-> 0, size |-> n]
  BY <1>1
<1>3. t \in Seq(Letters) /\ Len(t) = n
  BY SpanAssumption
<1>4. asked' = asked /\ items' = items /\ asked.op = "none"
  BY DEF GetText
<1>5. TextOK'
  BY <1>2, <1>3, SpanAssumption DEF TextOK
<1>6. span' = Whole' /\ items' = <<>>
  BY <1>2, <1>3, <1>4 DEF Whole, SpanInv
<1> QED BY <1>4, <1>5, <1>6 DEF SpanInv, Iterating, SearchesFindNearest

LEMMA ConvertsKeeps == ASSUME SpanInv, WriteNumber \/ ReadNumber PROVE SpanInv'
<1>1. asked'.op \in {"write", "read"}
  BY DEF WriteNumber, ReadNumber, Ask
<1> QED BY <1>1 DEF SpanInv, Iterating, SearchesFindNearest

LEMMA SliceOutKeeps == ASSUME SpanInv, Slice_out PROVE SpanInv'
<1>1. PICK size \in 0 .. MaxText :
        /\ size <= span.size /\ asked.op = "none" /\ UNCHANGED <<text, items>>
        /\ span' = SliceOut(span, [at |-> span.at + span.size - size, size |-> size])
        /\ Ask("slice_out", <<>>, size, 0)
  BY DEF Slice_out
<1>2. TextOK /\ Inside(span) /\ items = <<>>
  BY <1>1, WholeIsInside DEF SpanInv
<1>3. span.size - size \in Nat /\ span.size - size < Sizes /\ size \in Nat
  BY <1>1, <1>2, SpanAssumption DEF Inside
<1>4. Wrap(span.size - size) = span.size - size
  BY <1>2, <1>3, SizesAre, WrapOK
<1>5. span' = Slice(span, 0, span.size - size)
  BY <1>1, <1>4 DEF SliceOut
<1>6. Inside(Slice(span, 0, span.size - size))
  <2>1. 0 \in Nat /\ 0 + (span.size - size) <= span.size
    BY <1>2, <1>3 DEF Inside
  <2> QED BY <1>2, <1>3, <2>1, SliceOK
<1>7. TextOK' /\ Inside(span)'
  BY <1>1, <1>2, <1>5, <1>6 DEF TextOK, Inside
<1>8. Range(items') = {}
  BY <1>1, <1>2 DEF Range
<1>9. asked'.op = "slice_out"
  BY <1>1 DEF Ask
<1> QED BY <1>7, <1>8, <1>9 DEF SpanInv, Iterating, SearchesFindNearest

LEMMA ReverseKeeps == ASSUME SpanInv, Search_reverse PROVE SpanInv'
<1>1. PICK d \in Delimiters, start \in -1 .. MaxText :
        /\ asked.op = "none" /\ UNCHANGED <<text, span, items>>
        /\ Ask("reverse", d, start, FindReverse(span, start, d))
  BY DEF Search_reverse
<1>2. TextOK /\ Inside(span) /\ span.size = Len(text)
  BY <1>1, WholeIsInside DEF SpanInv, Whole
<1> DEFINE f == FindReverse(span, start, d)
           last == IF start = -1 THEN Len(text) - 1 ELSE start
<1>3. ASSUME start < Len(text)
      PROVE  /\ f # NotFound => f \in 0 .. span.size - Len(d) /\ Matches(span, f, d)
             /\ \A h \in 0 .. last - Len(d) + 1 :
                  h \in 0 .. span.size - Len(d) /\ Matches(span, h, d) => f >= h
  BY <1>2, <1>3, FindReverseOK
<1>4. TextOK'
  BY <1>1, <1>2 DEF TextOK
<1>5. asked' = [op |-> "reverse", delimiter |-> d, start |-> start, answer |-> f, of |-> span]
  BY <1>1 DEF Ask
<1> HIDE DEF f
<1>6. \A h : Occurs(h)' <=> h \in 0 .. span.size - Len(d) /\ Matches(span, h, d)
  BY <1>1, <1>5 DEF Occurs, Matches, Bytes
<1>7. SearchesFindNearest'
  BY <1>1, <1>3, <1>5, <1>6 DEF SearchesFindNearest
<1> QED BY <1>4, <1>5, <1>7 DEF SpanInv, Iterating

LEMMA SplitKeeps == ASSUME SpanInv, Split PROVE SpanInv'
<1>1. PICK d \in Delimiters, start \in 0 .. MaxText :
        /\ asked.op = "none" /\ UNCHANGED text /\ Ask("split", d, start, Find(span, start, d))
        /\ items' = (IF Find(span, start, d) = NotFound THEN <<>>
                     ELSE <<Slice(span, start, Find(span, start, d) - start)>>)
        /\ span' = IF Find(span, start, d) = NotFound THEN span
                   ELSE SliceToEnd(span, Find(span, start, d) + Len(d))
  BY DEF Split
<1> DEFINE h == Find(span, start, d)
<1>2. TextOK /\ Inside(span) /\ span.size = Len(text) /\ span.at = 0
  BY <1>1, WholeIsInside DEF SpanInv, Whole
<1>3. Len(d) \in Nat \ {0} /\ start \in Nat /\ Len(text) \in Nat /\ NotFound = -1
  BY <1>2, SpanAssumption, LenProperties, EmptySeq, SizesAre DEF NotFound
<1>4. \/ h = NotFound /\ \A g \in start .. span.size - Len(d) : ~Matches(span, g, d)
      \/ /\ h \in start .. span.size - Len(d) /\ Matches(span, h, d)
         /\ \A g \in start .. h - 1 : ~Matches(span, g, d)
  BY <1>2, <1>3, FindOK
<1>5. TextOK'
  BY <1>1, <1>2 DEF TextOK
<1>6. asked' = [op |-> "split", delimiter |-> d, start |-> start, answer |-> h, of |-> span]
  BY <1>1 DEF Ask
<1>7. /\ items' = IF h = NotFound THEN <<>> ELSE <<Slice(span, start, h - start)>>
      /\ span' = IF h = NotFound THEN span ELSE SliceToEnd(span, h + Len(d))
  BY <1>1
<1> HIDE DEF h
<1>8. \A g : Occurs(g)' <=> g \in 0 .. span.size - Len(d) /\ Matches(span, g, d)
  BY <1>1, <1>6 DEF Occurs, Matches, Bytes
<1>9. \A g \in start .. Len(text) : Occurs(g)' => h \in start .. g
  BY <1>2, <1>3, <1>4, <1>8
<1>10. CASE h = NotFound
  <2>1. Range(items') = {} /\ span' = span
    BY <1>7, <1>10 DEF Range
  <2>2. Inside(span)'
    BY <1>1, <1>2, <2>1 DEF Inside
  <2>3. SearchesFindNearest'
    BY <1>1, <1>6, <1>9, <1>10 DEF SearchesFindNearest
  <2> QED BY <1>5, <1>6, <2>1, <2>2, <2>3 DEF SpanInv, Iterating
<1>11. CASE h # NotFound
  <2> DEFINE left == Slice(span, start, h - start)
             right == SliceToEnd(span, h + Len(d))
  <2>1. h \in start .. span.size - Len(d) /\ Matches(span, h, d)
    BY <1>4, <1>11
  <2>2. h - start \in Nat /\ start + (h - start) <= span.size /\ h \in Nat /\ h + Len(d) <= span.size
        /\ h + Len(d) \in Nat /\ span.size - (h + Len(d)) \in Nat
        /\ (h + Len(d)) + (span.size - (h + Len(d))) <= span.size
    BY <1>2, <1>3, <2>1
  <2>3. Inside(left) /\ Bytes(left) = Piece(text, start, h - start)
    <3>1. span.at + start = start
      BY <1>2, <1>3
    <3> QED BY <1>2, <1>3, <2>2, <3>1, SliceOK
  <2>4. Inside(right) /\ Bytes(right) = Piece(text, h + Len(d), span.size - (h + Len(d)))
    <3>1. span.at + (h + Len(d)) = h + Len(d)
      BY <1>2, <2>2
    <3>2. right = Slice(span, h + Len(d), span.size - (h + Len(d)))
      BY <1>2, <2>2, SliceToEndOK
    <3> HIDE DEF right
    <3> QED BY <1>2, <2>2, <3>1, <3>2, SliceOK
  <2>5. d = Piece(text, h, Len(d))
    <3>1. span.at + h = h
      BY <1>2, <2>2
    <3> QED BY <1>2, <2>1, <2>2, <3>1, MatchesOK
  <2>6. items' = <<left>> /\ span' = right
    BY <1>7, <1>11
  <2> HIDE DEF left, right
  <2>7. Bytes(left) \o d \o Bytes(right) = SubSeq(text, start + 1, Len(text))
    <3>1. text \in Seq(Letters)
      BY <1>2 DEF TextOK
    <3> DEFINE n == h - start
               m == Len(d)
               k == span.size - (h + Len(d))
    <3>2. n \in Nat /\ m \in Nat /\ k \in Nat /\ start + n = h /\ start + n + m = h + m
          /\ start + n + m + k = Len(text) /\ start + n + m + k <= Len(text)
      BY <1>2, <1>3, <2>2
    <3>3. /\ Bytes(left) = Piece(text, start, n) /\ d = Piece(text, h, m)
          /\ Bytes(right) = Piece(text, h + m, k)
      BY <2>3, <2>4, <2>5
    <3> HIDE DEF n, m, k
    <3>4. (Piece(text, start, n) \o Piece(text, start + n, m)) \o Piece(text, start + n + m, k)
            = Piece(text, start, n + m + k)
      <4>1. start \in Nat /\ n \in Nat /\ m \in Nat /\ k \in Nat /\ start + n + m + k <= Len(text)
        BY <1>3, <3>2
      <4>2. \A ix, j, l \in Nat : start + ix + j + l <= Len(text) =>
              (Piece(text, start, ix) \o Piece(text, start + ix, j)) \o Piece(text, start + ix + j, l)
                = Piece(text, start, ix + j + l)
        BY <3>1, <4>1, ThreePiecesJoin
      <4> QED BY <4>1, <4>2
    <3>5. start + (n + m + k) = Len(text)
      BY <1>3, <3>2
    <3>6. Piece(text, start, n + m + k) = SubSeq(text, start + 1, Len(text))
      BY <3>5 DEF Piece
    <3> QED BY <3>2, <3>3, <3>4, <3>6
  <2>9. Range(items') = {left} /\ items'[1] = left
    BY <2>6 DEF Range
  <2>10. (Occurs(asked.answer) /\ asked.answer >= asked.start)'
    <3>1. asked'.answer = h /\ asked'.start = start
      BY <1>6
    <3>2. Occurs(asked.answer)' <=> h \in 0 .. span.size - Len(d) /\ Matches(span, h, d)
      BY <1>1, <1>6 DEF Occurs, Matches, Bytes
    <3>3. h \in 0 .. span.size - Len(d) /\ h >= start
      BY <1>3, <2>1, <2>2
    <3> QED BY <2>1, <3>1, <3>2, <3>3
  <2>11. (SubSeq(text, asked.start + 1, Len(text)) = Bytes(items[1]) \o asked.delimiter \o Bytes(span))'
    BY <1>1, <1>6, <2>6, <2>7, <2>9 DEF Bytes
  <2>12. SearchesFindNearest'
    BY <1>1, <1>6, <1>9, <2>10, <2>11 DEF SearchesFindNearest
  <2>13. \A s \in Range(items') \cup {span'} : s = left \/ s = right
    BY <2>6, <2>9
  <2>14. (\A s \in Range(items) \cup {span} : Inside(s))'
    BY <1>1, <2>3, <2>4, <2>13 DEF Inside
  <2> QED BY <1>5, <1>6, <2>12, <2>14 DEF SpanInv, Iterating
<1> QED BY <1>10, <1>11

(* span_iterate: one more item, from where the last one ended.             *)
LEMMA IterateKeeps == ASSUME SpanInv, Iterate PROVE SpanInv'
<1>1. PICK d \in Delimiters :
        /\ asked.op = "none" \/ (asked.op = "iterate" /\ asked.delimiter = d)
        /\ span.size > 0 /\ Ask("iterate", d, 0, Find(span, 0, d)) /\ UNCHANGED text
        /\ items' = Append(items, IF Find(span, 0, d) = NotFound THEN span
                                  ELSE Slice(span, 0, Find(span, 0, d)))
        /\ span' = IF Find(span, 0, d) = NotFound THEN Empty ELSE SliceToEnd(span, Find(span, 0, d) + Len(d))
  BY DEF Iterate
<1> DEFINE h == Find(span, 0, d)
           size == IF h = NotFound THEN span.size ELSE h
           item == IF h = NotFound THEN span ELSE Slice(span, 0, h)
           n == Len(items)
<1>2. TextOK /\ span \in Spans0 /\ items \in Seq(Spans0) /\ Len(d) \in Nat \ {0} /\ NotFound = -1
  <2>1. TextOK /\ Len(d) \in Nat \ {0} /\ NotFound = -1
    BY <1>1, SpanAssumption, LenProperties, EmptySeq DEF SpanInv, NotFound
  <2>2. CASE asked.op = "none"
    <3>1. span = Whole /\ items = <<>> /\ Inside(Whole)
      BY <2>1, <2>2, WholeIsInside DEF SpanInv
    <3>2. Whole \in [at : Nat, size : Nat]
      BY <2>1, SizesAre DEF Whole
    <3> QED BY <2>1, <3>1, <3>2, EmptySeq DEF Spans0
  <2>3. CASE asked.op = "iterate"
    BY <2>1, <2>3 DEF SpanInv, Iterating
  <2> QED BY <1>1, <2>2, <2>3
<1>3. Inside(span) /\ n \in Nat /\ DOMAIN items = 1 .. n /\ Len(text) \in Nat
  BY <1>2, LenProperties, SizesAre DEF Spans0
<1>4. \/ h = NotFound /\ \A g \in 0 .. span.size - Len(d) : ~Matches(span, g, d)
      \/ /\ h \in 0 .. span.size - Len(d) /\ Matches(span, h, d)
         /\ \A g \in 0 .. h - 1 : ~Matches(span, g, d)
  BY <1>2, <1>3, FindOK
<1>5. /\ asked' = [op |-> "iterate", delimiter |-> d, start |-> 0, answer |-> h, of |-> span]
      /\ items' = Append(items, item)
      /\ span' = IF h = NotFound THEN Empty ELSE SliceToEnd(span, h + Len(d))
  BY <1>1 DEF Ask
(* The items so far end where the span begins.                             *)
<1>6. PICK place \in [1 .. n -> 0 .. Len(text)] :
        /\ Follow(d, place)
        /\ n = 0 => span.at = 0 /\ span.size = Len(text)
        /\ n # 0 => LET end == place[n] + items[n].size IN
                    /\ span.at = end + Len(d) /\ span.at + span.size = Len(text)
                    /\ Bytes([at |-> end, size |-> Len(d)]) = d
  <2>1. CASE asked.op = "none"
    <3>1. span = Whole /\ items = <<>> /\ n = 0
      BY <2>1, EmptySeq DEF SpanInv
    <3> DEFINE place == [ix \in 1 .. n |-> 0]
    <3>2. place \in [1 .. n -> 0 .. Len(text)] /\ Follow(d, place)
      BY <1>3, <3>1 DEF Follow
    <3> HIDE DEF place, n
    <3> QED BY <3>1, <3>2 DEF Whole
  <2>2. CASE asked.op = "iterate"
    <3>1. asked.delimiter = d /\ items # <<>> /\ n # 0
      BY <1>1, <1>2, <2>2, EmptySeq DEF SpanInv, Iterating
    <3>2. PICK place \in [DOMAIN items -> 0 .. Len(text)] : Cut(d, place)
      BY <2>2, <3>1 DEF SpanInv, Iterating
    <3>3. span.size # 0
      BY <1>1
    <3> QED BY <1>3, <3>1, <3>2, <3>3 DEF Cut
  <2> QED BY <1>1, <2>1, <2>2
<1>7. span.at + span.size = Len(text) /\ span.at \in Nat /\ span.size \in Nat
  BY <1>3, <1>6 DEF Inside
(* The item.                                                               *)
<1>8. /\ size \in Nat /\ size <= span.size /\ item \in Spans0 /\ item.size = size
      /\ Bytes(item) = Piece(text, span.at, size)
      /\ size # 0 => item.at = span.at
  <2>1. CASE h = NotFound
    <3>1. item = span /\ size = span.size
      BY <2>1
    <3>2. Bytes(span) = Piece(text, span.at, span.size)
      BY DEF Bytes, Piece
    <3> HIDE DEF item, size
    <3> QED BY <1>2, <1>7, <3>1, <3>2
  <2>2. CASE h # NotFound
    <3>1. h \in Nat /\ h <= span.size /\ 0 + h <= span.size /\ 0 \in Nat
      BY <1>2, <1>4, <1>7, <2>2
    <3>2. span.at + 0 = span.at
      BY <1>7
    <3>3. /\ Slice(span, 0, h) = IF h = 0 THEN Empty ELSE [at |-> span.at + 0, size |-> h]
          /\ Inside(Slice(span, 0, h)) /\ Slice(span, 0, h).size = h
          /\ Bytes(Slice(span, 0, h)) = Piece(text, span.at + 0, h)
      BY <1>2, <1>3, <3>1, SliceOK
    <3>4. Slice(span, 0, h) \in Spans0
      BY <1>7, <3>1, <3>3 DEF Spans0, Empty
    <3>5. item = Slice(span, 0, h) /\ size = h
      BY <2>2
    <3> HIDE DEF h, item, size
    <3>6. h # 0 => Slice(span, 0, h).at = span.at
      BY <3>2, <3>3
    <3> QED BY <3>1, <3>2, <3>3, <3>4, <3>5, <3>6
  <2> HIDE DEF h, item, size
  <2> QED BY <2>1, <2>2
<1>9. \A g \in 0 .. size - Len(d) : ~Matches(item, g, d)
  <2> SUFFICES ASSUME NEW g \in 0 .. size - Len(d) PROVE ~Matches(item, g, d)
    OBVIOUS
  <2>1. g \in Nat /\ g + Len(d) <= size /\ g + Len(d) <= span.size /\ size # 0
    BY <1>2, <1>7, <1>8
  <2>2. ~Matches(span, g, d)
    BY <1>2, <1>4, <1>7, <2>1
  <2>3. Matches(span, g, d) <=> Piece(text, span.at + g, Len(d)) = d
    BY <1>2, <1>3, <2>1, MatchesOK
  <2>4. Inside(item) /\ item.at = span.at /\ item.size = size
    BY <1>8, <2>1 DEF Spans0
  <2> HIDE DEF item, size
  <2>5. Matches(item, g, d) <=> Piece(text, item.at + g, Len(d)) = d
    BY <1>2, <2>1, <2>4, MatchesOK
  <2> QED BY <2>2, <2>3, <2>4, <2>5
(* What is left.                                                           *)
<1> DEFINE end == span.at + size
<1>10. /\ span' \in Spans0
       /\ IF span'.size = 0 THEN end = Len(text) \/ (end + Len(d) = Len(text) /\ Piece(text, end, Len(d)) = d)
          ELSE span'.at = end + Len(d) /\ span'.at + span'.size = Len(text) /\ Piece(text, end, Len(d)) = d
  <2>1. CASE h = NotFound
    <3>1. span' = Empty /\ Inside(Empty) /\ Empty \in Spans0 /\ Empty.size = 0
      BY <1>2, <1>5, <2>1, SizesAre DEF Empty, Inside, Spans0
    <3> QED BY <1>7, <2>1, <3>1
  <2>2. CASE h # NotFound
    <3> DEFINE start == h + Len(d)
               rest == span.size - start
    <3>1. h \in Nat /\ h + Len(d) <= span.size /\ size = h /\ Matches(span, h, d)
      BY <1>2, <1>4, <1>7, <2>2
    <3>2. start \in Nat /\ start <= span.size /\ rest \in Nat /\ start + rest <= span.size
      BY <1>2, <1>7, <3>1
    <3>3. Piece(text, end, Len(d)) = d
      BY <1>2, <1>3, <3>1, MatchesOK
    <3>4. span' = SliceToEnd(span, start)
      BY <1>5, <2>2
    <3>5. end + Len(d) = span.at + start /\ span.at + start + rest = Len(text)
      BY <1>2, <1>7, <3>1
    <3> HIDE DEF start, end, rest
    <3>6. SliceToEnd(span, start) = Slice(span, start, rest)
      BY <1>2, <1>3, <3>2, SliceToEndOK DEF rest
    <3>7. /\ Slice(span, start, rest) = IF rest = 0 THEN Empty ELSE [at |-> span.at + start, size |-> rest]
          /\ Inside(Slice(span, start, rest)) /\ Slice(span, start, rest).size = rest
      BY <1>2, <1>3, <3>2, SliceOK
    <3>8. Slice(span, start, rest) \in Spans0
      BY <1>7, <3>2, <3>7 DEF Spans0, Empty
    <3>9. CASE rest = 0
      <4>1. span'.size = 0 /\ end + Len(d) = Len(text)
        BY <1>7, <3>2, <3>4, <3>5, <3>6, <3>7, <3>9
      <4> QED BY <3>3, <3>4, <3>6, <3>8, <4>1
    <3>10. CASE rest # 0
      <4>1. span'.size # 0 /\ span'.at = span.at + start /\ span'.size = rest
        BY <3>4, <3>6, <3>7, <3>10
      <4> QED BY <3>3, <3>4, <3>5, <3>6, <3>8, <4>1
    <3> QED BY <3>9, <3>10
  <2> QED BY <2>1, <2>2
<1> DEFINE place2 == [ix \in 1 .. n + 1 |-> IF ix = n + 1 THEN span.at ELSE place[ix]]
<1>11. /\ items' \in Seq(Spans0) /\ Len(items') = n + 1 /\ items' # <<>> /\ DOMAIN items' = 1 .. n + 1
       /\ items'[n + 1] = item /\ \A ix \in 1 .. n : items'[ix] = items[ix]
  <2> HIDE DEF item
  <2>1. item \in Spans0
    BY <1>8
  <2> QED BY <1>2, <1>3, <1>5, <2>1, AppendProperties, LenProperties
<1>12. place2 \in [1 .. n + 1 -> 0 .. Len(text)]
  <2>1. span.at \in 0 .. Len(text)
    BY <1>3, <1>7
  <2> QED BY <1>3, <2>1
<1>13. place2[n + 1] = span.at /\ \A ix \in 1 .. n : place2[ix] = place[ix]
  BY <1>3
<1> HIDE DEF h, size, item, place2, n, end
<1>14. /\ \A s : Bytes(s)' = Bytes(s)
       /\ \A s, g, t : Matches(s, g, t)' <=> Matches(s, g, t)
  BY <1>1 DEF Matches, Bytes
<1>15. PICK q : q = place2
  OBVIOUS
<1>16. q \in [1 .. n + 1 -> 0 .. Len(text)] /\ q[n + 1] = span.at /\ \A ix \in 1 .. n : q[ix] = place[ix]
  BY <1>12, <1>13, <1>15
<1>17. \A a : Bytes([at |-> a, size |-> Len(d)]) = Piece(text, a, Len(d))
  BY DEF Bytes, Piece
<1>18. Follow(d, q)'
  <2> SUFFICES ASSUME NEW ix \in 1 .. n + 1
               PROVE  /\ Bytes(items'[ix]) = SubSeq(text, q[ix] + 1, q[ix] + items'[ix].size)
                      /\ q[ix] = IF ix = 1 THEN 0 ELSE q[ix - 1] + items'[ix - 1].size + Len(d)
                      /\ ix # n + 1 => Bytes([at |-> q[ix] + items'[ix].size, size |-> Len(d)]) = d
                      /\ \A g \in 0 .. items'[ix].size - Len(d) : ~Matches(items'[ix], g, d)
    <3>1. text' = text
      BY <1>1
    <3> QED BY <1>11, <1>14, <3>1 DEF Follow
  <2>1. CASE ix \in 1 .. n
    <3>1. items'[ix] = items[ix] /\ q[ix] = place[ix] /\ ix # 1 => ix - 1 \in 1 .. n
      BY <1>3, <1>11, <1>16, <2>1
    <3>2. ix # 1 => items'[ix - 1] = items[ix - 1] /\ q[ix - 1] = place[ix - 1]
      BY <1>3, <1>11, <1>16, <2>1
    <3>3. /\ Bytes(items[ix]) = SubSeq(text, place[ix] + 1, place[ix] + items[ix].size)
          /\ place[ix] = IF ix = 1 THEN 0 ELSE place[ix - 1] + items[ix - 1].size + Len(d)
          /\ ix # n => Bytes([at |-> place[ix] + items[ix].size, size |-> Len(d)]) = d
          /\ \A g \in 0 .. items[ix].size - Len(d) : ~Matches(items[ix], g, d)
      BY <1>3, <1>6, <2>1 DEF Follow, n
    <3>4. ix = n => Bytes([at |-> place[n] + items[n].size, size |-> Len(d)]) = d
      BY <1>6, <2>1
    <3>5. items'[ix] = items[ix] /\ q[ix] = place[ix]
      BY <1>11, <1>16, <2>1
    <3> QED BY <3>2, <3>3, <3>4, <3>5
  <2>2. CASE ix = n + 1
    <3>1. items'[ix] = item /\ item.size = size /\ q[ix] = span.at
      BY <1>8, <1>11, <1>16, <2>2
    <3>2. Bytes(item) = SubSeq(text, span.at + 1, span.at + size)
      BY <1>8 DEF Piece
    <3>3. q[ix] = IF ix = 1 THEN 0 ELSE q[ix - 1] + items'[ix - 1].size + Len(d)
      <4>1. CASE n = 0
        BY <1>6, <2>2, <3>1, <4>1
      <4>2. CASE n # 0
        <5>1. ix # 1 /\ ix - 1 = n /\ n \in 1 .. n
          BY <1>3, <2>2, <4>2
        <5>2. items'[n] = items[n] /\ q[n] = place[n]
          BY <1>11, <1>16, <5>1
        <5>3. span.at = place[n] + items[n].size + Len(d)
          BY <1>6, <4>2
        <5> QED BY <3>1, <5>1, <5>2, <5>3
      <4> QED BY <4>1, <4>2
    <3> QED BY <1>9, <2>2, <3>1, <3>2, <3>3
  <2> QED BY <1>3, <2>1, <2>2
<1>19. Cut(d, q)'
  <2>1. Len(items') = n + 1 /\ q[n + 1] + items'[n + 1].size = end /\ text' = text
    BY <1>1, <1>8, <1>11, <1>16 DEF end
  <2>2. /\ Bytes([at |-> end, size |-> Len(d)])' = Bytes([at |-> end, size |-> Len(d)])'
        /\ \A a : Bytes([at |-> a, size |-> Len(d)])' = Piece(text, a, Len(d))
    BY <1>14, <1>17
  <2>3. span'.size = 0 => (EndsAt(d, q[Len(items)] + items[Len(items)].size))'
    BY <1>10, <2>1, <2>2 DEF EndsAt
  <2>4. span'.size # 0 => /\ span'.at = end + Len(d) /\ span'.at + span'.size = Len(text)
                          /\ Piece(text, end, Len(d)) = d
    BY <1>10
  <2> QED BY <1>18, <2>1, <2>2, <2>3, <2>4 DEF Cut
<1>20. Spans0' = Spans0 /\ TextOK'
  BY <1>1, <1>2 DEF Spans0, Inside, TextOK
<1>21. Iterating'
  <2>1. q \in [DOMAIN items' -> 0 .. Len(text')]
    BY <1>1, <1>11, <1>16
  <2> QED BY <1>5, <1>10, <1>11, <1>19, <1>20, <2>1 DEF Iterating
<1>22. asked'.op = "iterate"
  BY <1>5
<1> QED BY <1>20, <1>21, <1>22 DEF SpanInv, SearchesFindNearest

LEMMA SpanInvHolds == SpanSpec => []SpanInv
<1>1. SpanInv /\ [SpanNext]_spanVars => SpanInv'
  <2> SUFFICES ASSUME SpanInv, [SpanNext]_spanVars PROVE SpanInv'
    OBVIOUS
  <2>1. CASE SpanNext
    BY <2>1, GetTextKeeps, ConvertsKeeps, SliceOutKeeps, ReverseKeeps, SplitKeeps, IterateKeeps DEF SpanNext
  <2>2. CASE UNCHANGED spanVars
    <3>1. text' = text /\ span' = span /\ items' = items /\ asked' = asked
      BY <2>2 DEF spanVars
    <3>2. (TextOK' <=> TextOK) /\ Whole' = Whole /\ Spans0' = Spans0 /\ \A s : Inside(s)' <=> Inside(s)
      BY <3>1 DEF TextOK, Whole, Inside, Spans0
    <3>3. (\A s : Bytes(s)' = Bytes(s)) /\ \A s, g, t : Matches(s, g, t)' <=> Matches(s, g, t)
      BY <3>1 DEF Bytes, Matches
    <3>4. \A d, place : Cut(d, place)' <=> Cut(d, place)
      <4>1. \A d, place : Follow(d, place)' <=> Follow(d, place)
        BY <3>1, <3>3, ZenonT(30) DEF Follow
      <4>2. \A d, end : EndsAt(d, end)' <=> EndsAt(d, end)
        BY <3>1, <3>3 DEF EndsAt
      <4>3. \A s : Bytes(s)' = Bytes(s)
        BY <3>3
      <4> SUFFICES ASSUME NEW d, NEW place PROVE Cut(d, place)' <=> Cut(d, place)
        OBVIOUS
      <4>4. Follow(d, place)' <=> Follow(d, place)
        BY <4>1
      <4> DEFINE end == place[Len(items)] + items[Len(items)].size
      <4>5. PICK e : e = end
        OBVIOUS
      <4>6. EndsAt(d, e)' <=> EndsAt(d, e)
        BY <4>2
      <4>7. Bytes([at |-> e, size |-> Len(d)])' = Bytes([at |-> e, size |-> Len(d)])
        BY <4>3
      <4>8. Cut(d, place) <=>
              /\ Follow(d, place)
              /\ IF span.size = 0 THEN EndsAt(d, e)
                 ELSE /\ span.at = e + Len(d) /\ span.at + span.size = Len(text)
                      /\ Bytes([at |-> e, size |-> Len(d)]) = d
        BY <4>5 DEF Cut
      <4>9. Cut(d, place)' <=>
              /\ Follow(d, place)'
              /\ IF span'.size = 0 THEN EndsAt(d, e)'
                 ELSE /\ span'.at = e + Len(d) /\ span'.at + span'.size = Len(text')
                      /\ Bytes([at |-> e, size |-> Len(d)])' = d
        BY <3>1, <4>5 DEF Cut
      <4> QED BY <3>1, <4>4, <4>6, <4>7, <4>8, <4>9
    <3>5. Iterating'
      BY <3>1, <3>2, <3>4 DEF SpanInv, Iterating
    <3>6. SearchesFindNearest'
      BY <3>1, <3>3 DEF SpanInv, SearchesFindNearest, Occurs
    <3> QED BY <3>1, <3>2, <3>5, <3>6 DEF SpanInv
  <2> QED BY <2>1, <2>2
<1> QED BY <1>1, SpanInvInit, PTL DEF SpanSpec

(* Every span a call hands out lies in the text it was cut from, an        *)
(* iteration loses nothing of it, and a search answers with the nearest    *)
(* match: for every text, delimiter and start, and every width of a size.  *)
THEOREM SpansLieInText == SpanSpec => []SpansAreExact
<1>1. SpanInv => SpansAreExact
  BY SpanInvImplies
<1> QED BY <1>1, SpanInvHolds, PTL

-----------------------------------------------------------------------------
(***************************************************************************)
(* Lists.  The rings of list.c and circular_list.c hold sequences.         *)
(***************************************************************************)

RingType == [root : Nodes \cup {Nil}, live : SUBSET Nodes,
             next : [Nodes -> Nodes \cup {Nil}], previous : [Nodes -> Nodes \cup {Nil}]]

(* A ring that holds a sequence of all its nodes.                          *)
Rep(l, c) == l \in RingType /\ c \in Seq(Nodes) /\ Range(c) = l.live /\ Holds(l, c)

LEMMA RepParts ==
  ASSUME NEW l, NEW c, Rep(l, c)
  PROVE  /\ l \in RingType /\ c \in Seq(Nodes) /\ Len(c) \in Nat /\ DOMAIN c = 1 .. Len(c)
         /\ (c = <<>> <=> Len(c) = 0) /\ (c = <<>> <=> l.root = Nil) /\ (Len(c) # 0 => l.root = c[1])
         /\ \A ix \in 1 .. Len(c) : c[ix] \in l.live /\ c[ix] \in Nodes
         /\ \A x \in l.live : \E ix \in 1 .. Len(c) : x = c[ix]
         /\ \A ix, j \in 1 .. Len(c) : c[ix] = c[j] => ix = j
         /\ \A ix \in 1 .. Len(c) : l.next[c[ix]] = Follows(c, ix) /\ l.previous[Follows(c, ix)] = c[ix]
<1>1. c \in Seq(Nodes) /\ Len(c) \in Nat /\ DOMAIN c = 1 .. Len(c) /\ (c = <<>> <=> Len(c) = 0)
  BY LenProperties, EmptySeq DEF Rep
<1>2. \A ix \in 1 .. Len(c) : c[ix] \in l.live /\ c[ix] \in Nodes
  BY <1>1, ElementOfSeq DEF Rep, Range
<1>3. \A x \in l.live : \E ix \in 1 .. Len(c) : x = c[ix]
  BY <1>1 DEF Rep, Range
<1> QED BY <1>1, <1>2, <1>3 DEF Rep, Holds, IsInjective

(* What comes next in a sequence that is closed to a ring.                 *)
LEMMA FollowsOK ==
  ASSUME NEW c, Len(c) \in Nat, NEW ix \in 1 .. Len(c)
  PROVE  /\ Follows(c, ix) = IF ix = Len(c) THEN c[1] ELSE c[ix + 1]
         /\ (ix % Len(c)) + 1 = IF ix = Len(c) THEN 1 ELSE ix + 1
         /\ 1 \in 1 .. Len(c) /\ (ix # Len(c) => ix + 1 \in 1 .. Len(c))
<1> DEFINE n == Len(c)
<1>1. n \in Nat \ {0} /\ ix \in 1 .. n
  OBVIOUS
<1> HIDE DEF n
<1>2. ix % n = IF ix = n THEN 0 ELSE ix
  BY <1>1
<1>3. (ix % n) + 1 = IF ix = n THEN 1 ELSE ix + 1
  BY <1>1, <1>2
<1> QED BY <1>1, <1>3 DEF Follows, n

LEMMA FollowsAll ==
  ASSUME NEW c, NEW n \in Nat, Len(c) = n
  PROVE  \A ix \in 1 .. n : Follows(c, ix) = IF ix = n THEN c[1] ELSE c[ix + 1]
BY FollowsOK

(* A ring holds one sequence only.                                         *)
LEMMA HoldsOne ==
  ASSUME NEW l, NEW n \in Nat, NEW c \in [1 .. n -> l.live], NEW d \in [1 .. n -> l.live],
         Len(c) = n, Len(d) = n, Holds(l, c), Holds(l, d)
  PROVE  c = d
<1> SUFFICES ASSUME c # d PROVE FALSE
  OBVIOUS
<1> DEFINE S == {ix \in 1 .. n : c[ix] # d[ix]}
<1>1. S \in SUBSET Nat /\ S # {}
  OBVIOUS
<1> HIDE DEF S
<1>2. PICK ix \in S : \A j \in S : ix <= j
  BY <1>1, LeastOK
<1>3. ix \in 1 .. n /\ c[ix] # d[ix]
  BY <1>2 DEF S
<1>4. CASE ix = 1
  <2>1. c # <<>> /\ d # <<>>
    BY <1>3
  <2> QED BY <1>3, <1>4, <2>1 DEF Holds
<1>5. CASE ix # 1
  <2> DEFINE j == ix - 1
  <2>1. j \in 1 .. n /\ j # n /\ j + 1 = ix /\ ~(ix <= j)
    BY <1>3, <1>5
  <2>2. c[j] = d[j]
    BY <1>2, <2>1 DEF S
  <2>3. Follows(c, j) = c[ix] /\ Follows(d, j) = d[ix]
    <3>1. Len(c) \in Nat /\ j \in 1 .. Len(c) /\ j # Len(c) /\ Len(d) \in Nat /\ j \in 1 .. Len(d) /\ j # Len(d)
      BY <2>1
    <3> HIDE DEF j
    <3>2. Follows(c, j) = c[j + 1]
      BY <3>1, FollowsOK
    <3>3. Follows(d, j) = d[j + 1]
      BY <3>1, FollowsOK
    <3> QED BY <2>1, <3>2, <3>3
  <2>4. l.next[c[j]] = Follows(c, j) /\ l.next[d[j]] = Follows(d, j)
    BY <2>1 DEF Holds
  <2> QED BY <1>3, <2>2, <2>3, <2>4
<1> QED BY <1>4, <1>5

LEMMA ChainOK ==
  ASSUME NEW l, NEW c, Rep(l, c)
  PROVE  Chain(l) = c /\ Cardinality(l.live) = Len(c)
<1> DEFINE n == Len(c)
<1>1. /\ n \in Nat /\ DOMAIN c = 1 .. n /\ c \in Seq(Nodes)
      /\ \A ix \in 1 .. n : c[ix] \in l.live
      /\ \A x \in l.live : \E ix \in 1 .. n : x = c[ix]
      /\ \A ix, j \in 1 .. n : c[ix] = c[j] => ix = j
  BY RepParts
<1>2. c \in [1 .. n -> l.live]
  BY <1>1, LenProperties
<1>3. Cardinality(l.live) = n
  <2>1. c \in Bijection(1 .. n, l.live)
    BY <1>1, <1>2 DEF Bijection, Injection, Surjection, IsInjective
  <2>2. IsFiniteSet(1 .. n) /\ Cardinality(1 .. n) = n
    <3>1. n \in Int /\ 1 \in Int /\ (IF 1 > n THEN 0 ELSE n - 1 + 1) = n
      BY <1>1
    <3> HIDE DEF n
    <3>2. IsFiniteSet(1 .. n) /\ Cardinality(1 .. n) = IF 1 > n THEN 0 ELSE n - 1 + 1
      BY <3>1, FS_Interval
    <3> QED BY <3>1, <3>2
  <2>3. ExistsBijection(1 .. n, l.live)
    BY <2>1 DEF ExistsBijection
  <2> QED BY <2>2, <2>3, FS_Bijection
<1> DEFINE chains == {d \in [1 .. n -> l.live] : Holds(l, d)}
<1>4. c \in chains
  BY <1>2 DEF Rep
<1>5. ASSUME NEW d \in chains PROVE d = c
  <2>1. d \in [1 .. n -> l.live] /\ Holds(l, d) /\ Len(d) = n
    BY <1>1
  <2> QED BY <1>1, <1>2, <2>1, HoldsOne DEF Rep
<1>6. Chain(l) = IF chains = {} THEN <<>> ELSE CHOOSE d \in chains : TRUE
  BY <1>3 DEF Chain
<1> HIDE DEF chains
<1> QED BY <1>3, <1>4, <1>5, <1>6

LEMMA NewRingHolds == Rep(EmptyRing, <<>>) /\ Chain(EmptyRing) = <<>>
<1>1. Holds(EmptyRing, <<>>)
  BY DEF Holds, EmptyRing, IsInjective
<1>2. Range(<<>>) = {} /\ <<>> \in Seq(Nodes)
  BY EmptySeq DEF Range
<1>3. Rep(EmptyRing, <<>>)
  BY <1>1, <1>2 DEF Rep, EmptyRing, RingType
<1> QED BY <1>3, ChainOK

(* What has to be shown of a ring that holds a sequence.                   *)
LEMMA RepFrom ==
  ASSUME NEW l, NEW c, NEW n, l \in RingType, c \in Seq(Nodes), Len(c) = n,
         \A ix \in 1 .. n : c[ix] \in l.live,
         \A x \in l.live : \E ix \in 1 .. n : x = c[ix],
         \A ix, j \in 1 .. n : c[ix] = c[j] => ix = j,
         c = <<>> <=> l.root = Nil, c # <<>> => l.root = c[1],
         \A ix \in 1 .. n : l.next[c[ix]] = Follows(c, ix) /\ l.previous[Follows(c, ix)] = c[ix]
  PROVE  Rep(l, c)
<1>1. DOMAIN c = 1 .. n
  BY LenProperties
<1>2. Range(c) = l.live
  BY <1>1 DEF Range
<1> QED BY <1>1, <1>2 DEF Rep, Holds, IsInjective

(* A new node comes in at the end.                                         *)
LEMMA LinkedHolds ==
  ASSUME NEW l, NEW c, Rep(l, c), NEW x \in Nodes \ l.live
  PROVE  Rep(Linked(l, x), Append(c, x)) /\ x \notin Range(c)
<1> DEFINE m == Linked(l, x)
           d == Append(c, x)
           n == Len(c)
<1>1. /\ l \in RingType /\ c \in Seq(Nodes) /\ n \in Nat /\ DOMAIN c = 1 .. n
      /\ (c = <<>> <=> n = 0) /\ (c = <<>> <=> l.root = Nil) /\ (n # 0 => l.root = c[1])
      /\ \A ix \in 1 .. n : c[ix] \in l.live /\ c[ix] \in Nodes
      /\ \A y \in l.live : \E ix \in 1 .. n : y = c[ix]
      /\ \A ix, j \in 1 .. n : c[ix] = c[j] => ix = j
      /\ \A ix \in 1 .. n : l.next[c[ix]] = Follows(c, ix) /\ l.previous[Follows(c, ix)] = c[ix]
  BY RepParts
<1>2. x \in Nodes /\ x \notin l.live /\ \A ix \in 1 .. n : c[ix] # x
  BY <1>1
<1>3. /\ d \in Seq(Nodes) /\ d # <<>> /\ Len(d) = n + 1 /\ d[n + 1] = x
      /\ \A ix \in 1 .. n : d[ix] = c[ix]
  BY <1>1, <1>2, AppendProperties
<1> HIDE DEF d, n
<1>4. \A ix \in 1 .. n + 1 : ix \in 1 .. n \/ ix = n + 1
  BY <1>1
<1>5. \A ix, j \in 1 .. n + 1 : d[ix] = d[j] => ix = j
  BY <1>1, <1>2, <1>3, <1>4
<1>6. l.live \cup {x} \in SUBSET Nodes /\ x \notin Range(c)
  BY <1>1, <1>2 DEF RingType, Range
<1>7. \A ix \in 1 .. n + 1 : d[ix] \in l.live \cup {x}
  BY <1>1, <1>3, <1>4
<1>8. \A y \in l.live \cup {x} : \E ix \in 1 .. n + 1 : y = d[ix]
  <2>1. n + 1 \in 1 .. n + 1 /\ \A ix \in 1 .. n : ix \in 1 .. n + 1
    BY <1>1
  <2> QED BY <1>1, <1>3, <2>1
<1>9. \A ix \in 1 .. n + 1 : Follows(d, ix) = IF ix = n + 1 THEN d[1] ELSE d[ix + 1]
  <2>1. n + 1 \in Nat
    BY <1>1
  <2> QED BY <1>3, <2>1, FollowsAll
<1>10. Nil \notin Nodes
  BY RingAssumption
<1>11. CASE l.root = Nil
  <2>1. n = 0 /\ l.live = {}
    BY <1>1, <1>11
  <2>2. m = [root |-> x, live |-> l.live \cup {x},
             next |-> [l.next EXCEPT ![x] = x], previous |-> [l.previous EXCEPT ![x] = x]]
    BY <1>11 DEF Linked
  <2>3. m \in RingType /\ m.root = x /\ m.live = l.live \cup {x} /\ m.next[x] = x /\ m.previous[x] = x
    BY <1>1, <1>2, <1>6, <2>2 DEF RingType
  <2>4. d[1] = x /\ \A ix \in 1 .. n + 1 : ix = 1 /\ ix = n + 1
    BY <1>3, <2>1
  <2> HIDE DEF m
  <2>5. \A ix \in 1 .. n + 1 : m.next[d[ix]] = Follows(d, ix) /\ m.previous[Follows(d, ix)] = d[ix]
    BY <1>9, <2>3, <2>4
  <2>6. x # Nil
    BY <1>2, <1>10
  <2>7. Rep(m, d)
    <3>1. \A ix \in 1 .. n + 1 : d[ix] \in m.live
      BY <1>7, <2>3
    <3>2. \A y \in m.live : \E ix \in 1 .. n + 1 : y = d[ix]
      BY <1>8, <2>3
    <3>3. (d = <<>> <=> m.root = Nil) /\ (d # <<>> => m.root = d[1])
      BY <1>3, <2>3, <2>4, <2>6
    <3> QED BY <1>3, <1>5, <2>3, <2>5, <3>1, <3>2, <3>3, RepFrom
  <2> QED BY <1>6, <2>7 DEF m, d
<1>12. CASE l.root # Nil
  <2> DEFINE last == c[n]
             first == c[1]
  <2>1. n # 0 /\ n \in 1 .. n /\ 1 \in 1 .. n /\ l.root = first /\ first \in Nodes /\ last \in Nodes
    BY <1>1, <1>12
  <2>2. Follows(c, n) = first
    BY <1>1, <2>1, FollowsOK DEF n
  <2>3. l.previous[first] = last
    BY <1>1, <2>1, <2>2
  <2> HIDE DEF first, last
  <2>4. m = [root |-> first, live |-> l.live \cup {x},
             next |-> [l.next EXCEPT ![x] = first, ![last] = x],
             previous |-> [l.previous EXCEPT ![x] = last, ![first] = x]]
    BY <1>12, <2>1, <2>3 DEF Linked
  <2>5. last # x /\ first # x
    BY <1>2, <2>1 DEF first, last
  <2>6. /\ m \in RingType /\ m.root = first /\ m.live = l.live \cup {x}
        /\ \A y \in Nodes : m.next[y] = IF y = last THEN x ELSE IF y = x THEN first ELSE l.next[y]
        /\ \A y \in Nodes : m.previous[y] = IF y = first THEN x ELSE IF y = x THEN last ELSE l.previous[y]
    BY <1>1, <1>2, <1>6, <2>1, <2>4 DEF RingType
  <2> HIDE DEF m
  <2>7. d[1] = first
    BY <1>3, <2>1 DEF first
  <2>8. ASSUME NEW ix \in 1 .. n + 1
        PROVE  m.next[d[ix]] = Follows(d, ix) /\ m.previous[Follows(d, ix)] = d[ix]
    <3>1. CASE ix = n + 1
      BY <1>2, <1>3, <1>9, <2>1, <2>5, <2>6, <2>7, <3>1
    <3>2. CASE ix = n
      <4>1. d[n] = last /\ Follows(d, n) = x /\ ix # n + 1
        BY <1>1, <1>3, <1>9, <2>1, <3>2 DEF last
      <4> QED BY <1>2, <2>1, <2>5, <2>6, <3>2, <4>1
    <3>3. CASE ix \in 1 .. n /\ ix # n
      <4>1. ix + 1 \in 1 .. n /\ ix # n + 1 /\ ix + 1 # 1
        BY <1>1, <3>3
      <4>2. d[ix] = c[ix] /\ Follows(d, ix) = c[ix + 1] /\ Follows(c, ix) = c[ix + 1]
        BY <1>1, <1>3, <1>9, <3>3, <4>1, FollowsOK DEF n
      <4>3. c[ix] # last /\ c[ix] # x /\ c[ix + 1] # first /\ c[ix + 1] # x
        BY <1>1, <1>2, <2>1, <3>3, <4>1 DEF first, last
      <4> QED BY <1>1, <2>6, <3>3, <4>1, <4>2, <4>3
    <3> QED BY <1>4, <3>1, <3>2, <3>3
  <2>9. first # Nil
    BY <1>10, <2>1
  <2>10. Rep(m, d)
    <3>1. \A ix \in 1 .. n + 1 : d[ix] \in m.live
      BY <1>7, <2>6
    <3>2. \A y \in m.live : \E ix \in 1 .. n + 1 : y = d[ix]
      BY <1>8, <2>6
    <3>3. (d = <<>> <=> m.root = Nil) /\ (d # <<>> => m.root = d[1])
      BY <1>3, <2>6, <2>7, <2>9
    <3>4. \A ix \in 1 .. n + 1 : m.next[d[ix]] = Follows(d, ix) /\ m.previous[Follows(d, ix)] = d[ix]
      BY <2>8
    <3> QED BY <1>3, <1>5, <2>6, <3>1, <3>2, <3>3, <3>4, RepFrom
  <2> QED BY <1>6, <2>10 DEF m, d
<1> QED BY <1>11, <1>12

LEMMA RemoveAtOK ==
  ASSUME NEW S, NEW c \in Seq(S), NEW k \in 1 .. Len(c)
  PROVE  /\ RemoveAt(c, k) \in Seq(S) /\ Len(RemoveAt(c, k)) = Len(c) - 1
         /\ \A ix \in 1 .. Len(c) - 1 : RemoveAt(c, k)[ix] = IF ix < k THEN c[ix] ELSE c[ix + 1]
<1> DEFINE n == Len(c)
           a == SubSeq(c, 1, k - 1)
           b == SubSeq(c, k + 1, n)
<1>1. n \in Nat /\ k \in 1 .. n /\ \A ix \in 1 .. n : c[ix] \in S
  BY LenProperties, ElementOfSeq
<1>2. a \in Seq(S) /\ Len(a) = k - 1 /\ \A ix \in 1 .. k - 1 : a[ix] = c[ix]
  <2>1. 1 \in Int /\ k - 1 \in Int /\ \A ix \in 1 .. k - 1 : c[ix] \in S
    BY <1>1
  <2>2. a \in Seq(S) /\ Len(a) = IF 1 <= k - 1 THEN k - 1 - 1 + 1 ELSE 0
    BY <1>1, <2>1, SubSeqProperties
  <2>3. \A ix \in 1 .. k - 1 : a[ix] = c[1 + ix - 1]
    BY <1>1, <2>1, SubSeqProperties
  <2> QED BY <1>1, <2>2, <2>3
<1>3. b \in Seq(S) /\ Len(b) = n - k /\ \A ix \in 1 .. n - k : b[ix] = c[k + ix]
  <2>1. k + 1 \in Int /\ n \in Int /\ \A ix \in k + 1 .. n : c[ix] \in S
    BY <1>1
  <2>2. b \in Seq(S) /\ Len(b) = IF k + 1 <= n THEN n - (k + 1) + 1 ELSE 0
    BY <1>1, <2>1, SubSeqProperties
  <2>3. \A ix \in 1 .. n - (k + 1) + 1 : b[ix] = c[k + 1 + ix - 1]
    BY <1>1, <2>1, SubSeqProperties
  <2> QED BY <1>1, <2>2, <2>3
<1> HIDE DEF n, a, b
<1>4. /\ a \o b \in Seq(S) /\ Len(a \o b) = Len(a) + Len(b)
      /\ \A ix \in 1 .. Len(a) + Len(b) : (a \o b)[ix] = IF ix <= Len(a) THEN a[ix] ELSE b[ix - Len(a)]
  BY <1>2, <1>3, ConcatProperties
<1>5. RemoveAt(c, k) = a \o b
  BY DEF RemoveAt, a, b, n
<1>6. Len(a \o b) = n - 1
  BY <1>1, <1>2, <1>3, <1>4
<1>7. ASSUME NEW ix \in 1 .. n - 1 PROVE (a \o b)[ix] = IF ix < k THEN c[ix] ELSE c[ix + 1]
  <2>1. ix \in 1 .. Len(a) + Len(b) /\ (ix <= Len(a) <=> ix < k)
    BY <1>1, <1>2, <1>3
  <2>2. CASE ix < k
    BY <1>1, <1>2, <1>4, <2>1, <2>2
  <2>3. CASE ~(ix < k)
    <3>1. ix - Len(a) \in 1 .. n - k /\ k + (ix - Len(a)) = ix + 1
      BY <1>1, <1>2, <2>3
    <3> QED BY <1>3, <1>4, <2>1, <2>3, <3>1
  <2> QED BY <2>2, <2>3
<1> QED BY <1>4, <1>5, <1>6, <1>7 DEF n

(* What taking a node out of a ring of more than one writes.               *)
LEMMA BypassedIs ==
  ASSUME NEW l \in RingType, NEW x \in Nodes, NEW p \in Nodes, NEW q \in Nodes,
         l.next[x] = q, l.previous[x] = p, p # x, q # x
  PROVE  /\ Bypassed(l, x) \in RingType
         /\ Bypassed(l, x).root = IF l.root = x THEN q ELSE l.root
         /\ Bypassed(l, x).live = l.live \ {x}
         /\ \A y \in Nodes : Bypassed(l, x).next[y] = IF y = x THEN Nil ELSE IF y = p THEN q ELSE l.next[y]
         /\ \A y \in Nodes : Bypassed(l, x).previous[y] =
                               IF y = x THEN Nil ELSE IF y = q THEN p ELSE l.previous[y]
<1> DEFINE m == [root |-> IF l.root = x THEN q ELSE l.root, live |-> l.live,
                 next |-> [l.next EXCEPT ![p] = q], previous |-> [l.previous EXCEPT ![q] = p]]
<1>1. Bypassed(l, x) = Freed(m, x)
  BY DEF Bypassed
<1>2. m \in RingType
  BY DEF RingType
<1>3. /\ m.root = (IF l.root = x THEN q ELSE l.root) /\ m.live = l.live
      /\ \A y \in Nodes : m.next[y] = IF y = p THEN q ELSE l.next[y]
      /\ \A y \in Nodes : m.previous[y] = IF y = q THEN p ELSE l.previous[y]
  BY DEF RingType
<1> HIDE DEF m
<1>4. Freed(m, x) = [root |-> m.root, live |-> m.live \ {x},
                     next |-> [m.next EXCEPT ![x] = Nil], previous |-> [m.previous EXCEPT ![x] = Nil]]
  BY DEF Freed
<1> QED BY <1>1, <1>2, <1>3, <1>4 DEF RingType

(* The node before the k-th of a ring of n.                                *)
Before(k, n) == IF k = 1 THEN n ELSE k - 1

(* What the sequence is without its k-th item, index by index: the item    *)
(* before it is followed by the one behind it, and nothing else changes.   *)
SkipsOne(c, d, n, k, ix) ==
  \E s \in 1 .. n : /\ s # k /\ d[ix] = c[s] /\ s = (IF ix < k THEN ix ELSE ix + 1)
                    /\ Follows(d, ix) = IF s = Before(k, n) THEN Follows(c, k) ELSE Follows(c, s)
LEMMA FollowsWithout ==
  ASSUME NEW c, NEW d, NEW n \in Nat, NEW k \in 1 .. n, n # 1, Len(c) = n, Len(d) = n - 1,
         \A ix \in 1 .. n - 1 : d[ix] = IF ix < k THEN c[ix] ELSE c[ix + 1],
         NEW ix \in 1 .. n - 1
  PROVE  SkipsOne(c, d, n, k, ix)
<1>1. n - 1 \in Nat /\ 1 \in 1 .. n - 1 /\ n - 1 # 0
  OBVIOUS
<1>2. Follows(d, ix) = IF ix = n - 1 THEN d[1] ELSE d[ix + 1]
  BY <1>1, FollowsAll
<1>3. \A j \in 1 .. n : Follows(c, j) = IF j = n THEN c[1] ELSE c[j + 1]
  BY FollowsAll
<1>4. d[1] = IF k = 1 THEN c[2] ELSE c[1]
  BY <1>1
<1> DEFINE s == IF ix < k THEN ix ELSE ix + 1
<1>5. s \in 1 .. n /\ s # k /\ d[ix] = c[s]
  OBVIOUS
<1>6. Follows(d, ix) = IF s = Before(k, n) THEN Follows(c, k) ELSE Follows(c, s)
  <2>1. CASE ix = n - 1
    <3>1. CASE k = 1
      <4>1. s = n /\ Before(k, n) = n
        BY <2>1, <3>1 DEF Before
      <4> QED BY <1>2, <1>3, <1>4, <2>1, <3>1, <4>1
    <3>2. CASE k = n
      <4>1. s = n - 1 /\ Before(k, n) = n - 1
        BY <2>1, <3>2 DEF Before
      <4> QED BY <1>2, <1>3, <1>4, <2>1, <3>2, <4>1
    <3>3. CASE k # 1 /\ k # n
      <4>1. s = n /\ Before(k, n) # n
        BY <2>1, <3>3 DEF Before
      <4> QED BY <1>2, <1>3, <1>4, <2>1, <3>3, <4>1
    <3> QED BY <3>1, <3>2, <3>3
  <2>2. CASE ix # n - 1
    <3>1. ix + 1 \in 1 .. n - 1 /\ d[ix + 1] = IF ix + 1 < k THEN c[ix + 1] ELSE c[ix + 1 + 1]
      BY <2>2
    <3>2. CASE s = Before(k, n)
      <4>1. ix = k - 1 /\ k # n /\ k # 1
        BY <2>2, <3>2 DEF Before
      <4> QED BY <1>2, <1>3, <2>2, <3>1, <3>2, <4>1
    <3>3. CASE s # Before(k, n)
      <4>1. ix # k - 1
        BY <3>3 DEF Before
      <4> QED BY <1>2, <1>3, <2>2, <3>1, <3>3, <4>1
    <3> QED BY <3>2, <3>3
  <2> QED BY <2>1, <2>2
<1> HIDE DEF s
<1> QED BY <1>5, <1>6 DEF s, SkipsOne

(* A node is taken out, and the others keep their order.                   *)
LEMMA RemovedHolds ==
  ASSUME NEW l, NEW c, Rep(l, c), NEW k \in 1 .. Len(c)
  PROVE  Rep(Removed(l, c[k]), RemoveAt(c, k)) /\ (l.next[c[k]] = c[k] <=> Len(c) = 1)
<1> DEFINE n == Len(c)
           x == c[k]
           q == Follows(c, k)
           b == Before(k, n)
           p == c[b]
           d == RemoveAt(c, k)
           m == Removed(l, x)
<1>1. /\ l \in RingType /\ c \in Seq(Nodes) /\ n \in Nat /\ DOMAIN c = 1 .. n
      /\ (c = <<>> <=> n = 0) /\ (c = <<>> <=> l.root = Nil) /\ (n # 0 => l.root = c[1])
      /\ \A ix \in 1 .. n : c[ix] \in l.live /\ c[ix] \in Nodes
      /\ \A y \in l.live : \E ix \in 1 .. n : y = c[ix]
      /\ \A ix, j \in 1 .. n : c[ix] = c[j] => ix = j
      /\ \A ix \in 1 .. n : l.next[c[ix]] = Follows(c, ix) /\ l.previous[Follows(c, ix)] = c[ix]
  BY RepParts
<1> HIDE DEF n, d, b, p, q, x, m
<1>0. Len(c) = n /\ k \in 1 .. Len(c)
  BY DEF n
<1>2. \A ix \in 1 .. n : Follows(c, ix) = IF ix = n THEN c[1] ELSE c[ix + 1]
  BY <1>0, <1>1, FollowsAll
<1>3. d \in Seq(Nodes) /\ Len(d) = n - 1 /\ \A ix \in 1 .. n - 1 : d[ix] = IF ix < k THEN c[ix] ELSE c[ix + 1]
  <2>1. /\ RemoveAt(c, k) \in Seq(Nodes) /\ Len(RemoveAt(c, k)) = Len(c) - 1
        /\ \A ix \in 1 .. Len(c) - 1 : RemoveAt(c, k)[ix] = IF ix < k THEN c[ix] ELSE c[ix + 1]
    <3>1. c \in Seq(Nodes)
      BY <1>1
    <3> QED BY <1>0, <3>1, RemoveAtOK, Zenon
  <2> QED BY <1>0, <2>1 DEF d
<1> USE DEF b, p, q, x, m
<1>4. k \in 1 .. n /\ n # 0 /\ 1 \in 1 .. n
  BY <1>1 DEF n
<1>5. b \in 1 .. n /\ Follows(c, b) = x /\ p \in Nodes /\ l.previous[x] = p /\ l.next[p] = x
  <2>1. b \in 1 .. n /\ (IF b = n THEN 1 ELSE b + 1) = k
    BY <1>1, <1>4 DEF Before
  <2> QED BY <1>1, <1>2, <2>1
<1>6. q \in Nodes /\ l.next[x] = q /\ x \in Nodes /\ x \in l.live /\ l.previous[q] = x
  BY <1>1, <1>2, <1>4
<1>7. q = x <=> n = 1
  BY <1>1, <1>2, <1>4
<1>8. p = x <=> n = 1
  BY <1>1, <1>4, <1>5 DEF Before
<1>9. Nil \notin Nodes
  BY RingAssumption
<1> HIDE DEF b, p, q, x
<1>10. CASE n = 1
  <2>1. l.next[x] = x /\ k = 1 /\ \A y \in l.live : y = x
    BY <1>1, <1>4, <1>6, <1>7, <1>10 DEF x
  <2>2. m = [root |-> Nil, live |-> l.live \ {x},
             next |-> [l.next EXCEPT ![x] = Nil], previous |-> [l.previous EXCEPT ![x] = Nil]]
    BY <1>1, <2>1 DEF Removed, Freed, RingType
  <2>3. m \in RingType /\ m.root = Nil /\ m.live = {}
    BY <1>1, <2>1, <2>2 DEF RingType
  <2> HIDE DEF m
  <2>4. d = <<>> /\ Len(d) = 0
    BY <1>3, <1>10, EmptySeq
  <2>5. Rep(m, d)
    <3>1. /\ \A ix \in 1 .. 0 : d[ix] \in m.live
          /\ \A y \in m.live : \E ix \in 1 .. 0 : y = d[ix]
          /\ \A ix, j \in 1 .. 0 : d[ix] = d[j] => ix = j
          /\ \A ix \in 1 .. 0 : m.next[d[ix]] = Follows(d, ix) /\ m.previous[Follows(d, ix)] = d[ix]
      BY <2>3
    <3> QED BY <1>3, <2>3, <2>4, <3>1, RepFrom
  <2> QED BY <1>6, <1>7, <1>10, <2>5 DEF m, d, x, n
<1>11. CASE n # 1
  <2>1. m = Bypassed(l, x) /\ p # x /\ q # x
    BY <1>6, <1>7, <1>8, <1>11 DEF Removed
  <2> HIDE DEF m
  <2>2. /\ m \in RingType /\ m.root = (IF l.root = x THEN q ELSE l.root) /\ m.live = l.live \ {x}
        /\ \A y \in Nodes : m.next[y] = IF y = x THEN Nil ELSE IF y = p THEN q ELSE l.next[y]
        /\ \A y \in Nodes : m.previous[y] = IF y = x THEN Nil ELSE IF y = q THEN p ELSE l.previous[y]
    BY <1>1, <1>5, <1>6, <2>1, BypassedIs
  <2>3. ASSUME NEW ix \in 1 .. n - 1
        PROVE  \E s \in 1 .. n : /\ s # k /\ d[ix] = c[s] /\ s = (IF ix < k THEN ix ELSE ix + 1)
                                 /\ Follows(d, ix) = IF s = b THEN q ELSE Follows(c, s)
    <3>1. SkipsOne(c, d, n, k, ix)
      <4>1. n \in Nat /\ k \in 1 .. n /\ n # 1 /\ Len(c) = n /\ Len(d) = n - 1
        BY <1>0, <1>1, <1>3, <1>4, <1>11
      <4>2. \A j \in 1 .. n - 1 : d[j] = IF j < k THEN c[j] ELSE c[j + 1]
        BY <1>3
      <4> HIDE DEF b, p, q, x, m
      <4> QED BY <4>1, <4>2, FollowsWithout
    <3> QED BY <3>1 DEF b, q, SkipsOne
  <2>4. \A ix \in 1 .. n - 1 : d[ix] \in m.live
    <3> SUFFICES ASSUME NEW ix \in 1 .. n - 1 PROVE d[ix] \in m.live
      OBVIOUS
    <3>1. PICK s \in 1 .. n : s # k /\ d[ix] = c[s]
      BY <2>3
    <3> QED BY <1>1, <1>4, <2>2, <3>1 DEF x
  <2>5. \A y \in m.live : \E ix \in 1 .. n - 1 : y = d[ix]
    <3> SUFFICES ASSUME NEW y \in m.live PROVE \E ix \in 1 .. n - 1 : y = d[ix]
      OBVIOUS
    <3>1. PICK j \in 1 .. n : y = c[j] /\ j # k
      BY <1>1, <2>2 DEF x
    <3>2. CASE j < k
      <4>1. j \in 1 .. n - 1
        BY <1>1, <1>4, <3>2
      <4> QED BY <1>3, <3>1, <3>2, <4>1
    <3>3. CASE ~(j < k)
      <4>1. j - 1 \in 1 .. n - 1 /\ ~(j - 1 < k) /\ j - 1 + 1 = j
        BY <1>1, <1>4, <3>1, <3>3
      <4> QED BY <1>3, <3>1, <4>1
    <3> QED BY <3>2, <3>3
  <2>6. \A ix, j \in 1 .. n - 1 : d[ix] = d[j] => ix = j
    <3> SUFFICES ASSUME NEW ix \in 1 .. n - 1, NEW j \in 1 .. n - 1, d[ix] = d[j] PROVE ix = j
      OBVIOUS
    <3>1. PICK s \in 1 .. n : s # k /\ d[ix] = c[s] /\ s = (IF ix < k THEN ix ELSE ix + 1)
      BY <2>3
    <3>2. PICK t \in 1 .. n : t # k /\ d[j] = c[t] /\ t = (IF j < k THEN j ELSE j + 1)
      BY <2>3
    <3>3. c[s] = c[t]
      BY <3>1, <3>2
    <3>4. s = t
      BY <1>1, <3>3
    <3> QED BY <1>1, <1>4, <3>1, <3>2, <3>4
  <2>7. d # <<>> /\ d[1] = (IF k = 1 THEN c[2] ELSE c[1]) /\ m.root = d[1] /\ m.root # Nil
    <3>1. d # <<>> /\ d[1] = (IF k = 1 THEN c[2] ELSE c[1])
      BY <1>1, <1>3, <1>4, <1>11, EmptySeq
    <3>2. CASE k = 1
      <4>1. l.root = x /\ q = c[2]
        BY <1>1, <1>2, <1>4, <1>11, <3>2 DEF x, q
      <4> QED BY <1>6, <1>9, <2>2, <3>1, <3>2, <4>1
    <3>3. CASE k # 1
      <4>1. l.root # x /\ l.root = c[1] /\ c[1] \in Nodes
        BY <1>1, <1>4, <3>3 DEF x
      <4> QED BY <1>9, <2>2, <3>1, <3>3, <4>1
    <3> QED BY <3>2, <3>3
  <2>8. ASSUME NEW ix \in 1 .. n - 1
        PROVE  m.next[d[ix]] = Follows(d, ix) /\ m.previous[Follows(d, ix)] = d[ix]
    <3>1. PICK s \in 1 .. n : s # k /\ d[ix] = c[s] /\ Follows(d, ix) = IF s = b THEN q ELSE Follows(c, s)
      BY <2>3
    <3>2. c[s] # x /\ c[s] \in Nodes
      BY <1>1, <1>4, <3>1 DEF x
    <3>3. CASE s = b
      BY <1>6, <2>1, <2>2, <3>1, <3>2, <3>3 DEF p
    <3>4. CASE s # b
      <4> DEFINE f == Follows(c, s)
      <4>1. f \in Nodes /\ l.next[c[s]] = f /\ l.previous[f] = c[s]
        BY <1>1, <1>2
      <4>2. c[s] # p /\ f # q
        BY <1>1, <1>5, <1>6, <3>2, <3>4, <4>1 DEF p
      <4>3. f # x
        BY <1>1, <1>5, <3>4, <4>1, <4>2
      <4> HIDE DEF f
      <4>4. Follows(d, ix) = f
        BY <3>1, <3>4 DEF f
      <4> QED BY <2>2, <3>1, <3>2, <4>1, <4>2, <4>3, <4>4
    <3> QED BY <3>3, <3>4
  <2>9. Rep(m, d)
    <3>1. (d = <<>> <=> m.root = Nil) /\ (d # <<>> => m.root = d[1])
      BY <2>7
    <3>2. \A ix \in 1 .. n - 1 : m.next[d[ix]] = Follows(d, ix) /\ m.previous[Follows(d, ix)] = d[ix]
      BY <2>8
    <3>3. d \in Seq(Nodes) /\ Len(d) = n - 1 /\ m \in RingType
      BY <1>3, <2>2
    <3> HIDE DEF b, p, q, x
    <3> QED BY <2>4, <2>5, <2>6, <3>1, <3>2, <3>3, RepFrom
  <2> QED BY <1>6, <1>7, <1>11, <2>9 DEF m, d, x, n
<1> QED BY <1>10, <1>11

(* The same, of the chain of a ring.                                       *)
Intact(l) == Rep(l, Chain(l))

LEMMA LinkedStep ==
  ASSUME NEW l, Intact(l), NEW x \in Nodes \ l.live
  PROVE  /\ Intact(Linked(l, x)) /\ Chain(Linked(l, x)) = Append(Chain(l), x)
         /\ x \in Nodes \ Range(Chain(l))
<1> DEFINE c == Chain(l)
           m == Linked(l, x)
<1>1. Rep(l, c)
  BY DEF Intact
<1> HIDE DEF c, m
<1>2. Rep(m, Append(c, x)) /\ x \notin Range(c)
  BY <1>1, LinkedHolds DEF m
<1>3. Chain(m) = Append(c, x)
  BY <1>2, ChainOK
<1> QED BY <1>2, <1>3 DEF Intact, c, m

LEMMA RemovedLive ==
  ASSUME NEW l, NEW x
  PROVE  Removed(l, x).live = l.live \ {x}
BY DEF Removed, Freed, Bypassed

(* Of a node of a ring: where it is in the chain, where the links around   *)
(* it lead, and what the ring is without it.                               *)
NodeAt(l, x, k) ==
  /\ k \in DOMAIN Chain(l) /\ DOMAIN Chain(l) = 1 .. Len(Chain(l)) /\ Len(Chain(l)) \in Nat
  /\ x = Chain(l)[k] /\ x \in Nodes /\ Chain(l) # <<>> /\ l.root = Chain(l)[1]
  /\ \A ix \in 1 .. Len(Chain(l)) : Chain(l)[ix] \in l.live /\ Chain(l)[ix] \in Nodes
  /\ \A ix, j \in 1 .. Len(Chain(l)) : Chain(l)[ix] = Chain(l)[j] => ix = j
  /\ l.next[x] = IF k = Len(Chain(l)) THEN Chain(l)[1] ELSE Chain(l)[k + 1]
  /\ l.previous[x] = Chain(l)[Before(k, Len(Chain(l)))]
  /\ Intact(Removed(l, x)) /\ Chain(Removed(l, x)) = RemoveAt(Chain(l), k)
  /\ Removed(l, x).root = IF Len(Chain(l)) = 1 THEN Nil ELSE IF k = 1 THEN Chain(l)[2] ELSE Chain(l)[1]

LEMMA NodeOK ==
  ASSUME NEW l, Intact(l), NEW x \in l.live
  PROVE  \E k \in 1 .. Len(Chain(l)) : NodeAt(l, x, k)
<1> DEFINE c == Chain(l)
           m == Removed(l, x)
<1>1. Rep(l, c)
  BY DEF Intact
<1> HIDE DEF c, m
<1>2. /\ l \in RingType /\ c \in Seq(Nodes) /\ Len(c) \in Nat /\ DOMAIN c = 1 .. Len(c)
      /\ (c = <<>> <=> Len(c) = 0) /\ (c = <<>> <=> l.root = Nil) /\ (Len(c) # 0 => l.root = c[1])
      /\ \A ix \in 1 .. Len(c) : c[ix] \in l.live /\ c[ix] \in Nodes
      /\ \A y \in l.live : \E ix \in 1 .. Len(c) : y = c[ix]
      /\ \A ix, j \in 1 .. Len(c) : c[ix] = c[j] => ix = j
      /\ \A ix \in 1 .. Len(c) : l.next[c[ix]] = Follows(c, ix) /\ l.previous[Follows(c, ix)] = c[ix]
  BY <1>1, RepParts
<1>3. PICK k \in 1 .. Len(c) : x = c[k]
  BY <1>2
<1>4. Len(c) # 0 /\ c # <<>>
  BY <1>2, <1>3
<1>5. \A ix \in 1 .. Len(c) : Follows(c, ix) = IF ix = Len(c) THEN c[1] ELSE c[ix + 1]
  BY <1>2, FollowsOK
<1>6. l.previous[x] = c[Before(k, Len(c))]
  <2>1. /\ Before(k, Len(c)) \in 1 .. Len(c)
        /\ (IF Before(k, Len(c)) = Len(c) THEN 1 ELSE Before(k, Len(c)) + 1) = k
    BY <1>2, <1>3 DEF Before
  <2>2. Follows(c, Before(k, Len(c))) = c[k]
    BY <1>5, <2>1
  <2> QED BY <1>2, <1>3, <2>1, <2>2
<1>7. Rep(m, RemoveAt(c, k))
  BY <1>1, <1>3, RemovedHolds DEF m
<1>8. Chain(m) = RemoveAt(c, k)
  BY <1>7, ChainOK
<1>9. /\ RemoveAt(c, k) \in Seq(Nodes) /\ Len(RemoveAt(c, k)) = Len(c) - 1
      /\ \A ix \in 1 .. Len(c) - 1 : RemoveAt(c, k)[ix] = IF ix < k THEN c[ix] ELSE c[ix + 1]
  <2>1. c \in Seq(Nodes) /\ k \in 1 .. Len(c)
    BY <1>2, <1>3
  <2> QED BY <2>1, RemoveAtOK, Zenon
<1>10. m.root = IF Len(c) = 1 THEN Nil ELSE IF k = 1 THEN c[2] ELSE c[1]
  <2> DEFINE d == RemoveAt(c, k)
  <2>1. (d = <<>> <=> Len(d) = 0) /\ (d = <<>> <=> m.root = Nil) /\ (Len(d) # 0 => m.root = d[1])
    BY <1>7, RepParts
  <2>2. Len(c) = 1 => Len(d) = 0
    BY <1>9
  <2>3. Len(c) # 1 => Len(d) # 0 /\ d[1] = IF k = 1 THEN c[2] ELSE c[1]
    <3>1. Len(c) # 1 => 1 \in 1 .. Len(c) - 1 /\ (1 < k <=> k # 1)
      BY <1>2, <1>3, <1>4
    <3> QED BY <1>2, <1>9, <3>1
  <2> QED BY <2>1, <2>2, <2>3
<1>11. x \in Nodes /\ l.next[x] = IF k = Len(c) THEN c[1] ELSE c[k + 1]
  BY <1>2, <1>3, <1>5
<1>12. Intact(m)
  BY <1>7, <1>8 DEF Intact
<1> QED BY <1>2, <1>3, <1>4, <1>6, <1>8, <1>10, <1>11, <1>12 DEF NodeAt, c, m

(* Only of two nodes does circular_list_remove make another ring.          *)
LEMMA CircularRemovedIs ==
  ASSUME NEW l, Intact(l), Cardinality(l.live) # 2, NEW x \in l.live
  PROVE  CircularRemoved(l, x) = Removed(l, x)
<1> DEFINE c == Chain(l)
           n == Len(c)
<1>1. PICK k \in 1 .. n : NodeAt(l, x, k)
  BY NodeOK
<1>2. n \in Nat /\ n # 2
  BY <1>1, ChainOK DEF Intact, NodeAt
<1>3. /\ x = c[k] /\ \A ix, j \in 1 .. n : c[ix] = c[j] => ix = j
      /\ l.next[x] = IF k = n THEN c[1] ELSE c[k + 1]
      /\ l.previous[x] = c[Before(k, n)]
  BY <1>1 DEF NodeAt
<1> HIDE DEF n, c
<1>4. l.next[x] = l.previous[x] <=> n = 1
  BY <1>2, <1>3 DEF Before
<1>5. l.next[x] = x <=> n = 1
  BY <1>2, <1>3
<1> QED BY <1>4, <1>5 DEF Removed, CircularRemoved

LEMMA EmptiedStep ==
  ASSUME NEW l, Intact(l)
  PROVE  Intact(Emptied(l)) /\ Chain(Emptied(l)) = <<>> /\ Emptied(l).root = Nil
<1>1. l \in RingType /\ Range(Chain(l)) = l.live
  BY DEF Intact, Rep
<1>2. Emptied(l) \in RingType /\ Emptied(l).live = {} /\ Emptied(l).root = Nil
  BY <1>1 DEF Emptied, RingType
<1>3. Holds(Emptied(l), <<>>)
  BY <1>2 DEF Holds, IsInjective
<1>4. Range(<<>>) = {} /\ <<>> \in Seq(Nodes)
  BY EmptySeq DEF Range
<1>5. Rep(Emptied(l), <<>>)
  BY <1>2, <1>3, <1>4 DEF Rep
<1>6. Chain(Emptied(l)) = <<>>
  BY <1>5, ChainOK
<1> QED BY <1>2, <1>5, <1>6 DEF Intact
-----------------------------------------------------------------------------
(* The inductive invariant: each ring holds the sequence of its nodes, and *)
(* a loop that is running is at one of them.                               *)
Runs == [op : {"none", "foreach", "remove_if"}, node : Nodes \cup {Nil}, goes_on : BOOLEAN]
LoopAt(run, l) ==
  /\ run \in Runs
  /\ run.node \in l.live \cup {Nil} /\ (run.op = "none" <=> run.node = Nil)
Holding(l, run) == Intact(l) /\ LoopAt(run, l)
ListsInv == Holding(list, loop.list) /\ Holding(ring, loop.ring) /\ loop \in [{"list", "ring"} -> Runs]

LEMMA InvMeans == ListsInv => ListsTypeOK /\ RingIsWhole
<1> SUFFICES ASSUME ListsInv PROVE ListsTypeOK /\ RingIsWhole
  OBVIOUS
<1>1. loop \in [{"list", "ring"} -> [op : {"none", "foreach", "remove_if"},
                                     node : Nodes \cup {Nil}, goes_on : BOOLEAN]]
  BY DEF ListsInv, Runs
<1>2. ASSUME NEW l, NEW run, Holding(l, run)
      PROVE  /\ HeldWhole(l, run)
             /\ l.root \in l.live \cup {Nil} /\ l.live \subseteq Nodes
             /\ l.next \in [Nodes -> Nodes \cup {Nil}] /\ l.previous \in [Nodes -> Nodes \cup {Nil}]
  <2> DEFINE c == Chain(l)
  <2>1. Rep(l, c)
    BY <1>2 DEF Holding, Intact
  <2> HIDE DEF c
  <2>2. /\ l \in RingType /\ c \in Seq(Nodes) /\ Len(c) \in Nat /\ DOMAIN c = 1 .. Len(c)
        /\ (c = <<>> <=> Len(c) = 0) /\ (c = <<>> <=> l.root = Nil) /\ (Len(c) # 0 => l.root = c[1])
        /\ \A ix \in 1 .. Len(c) : c[ix] \in l.live /\ c[ix] \in Nodes
        /\ \A y \in l.live : \E ix \in 1 .. Len(c) : y = c[ix]
        /\ \A ix \in 1 .. Len(c) : l.next[c[ix]] = Follows(c, ix) /\ l.previous[Follows(c, ix)] = c[ix]
    BY <2>1, RepParts
  <2>3. Range(Chain(l)) = l.live
    BY <2>1 DEF Rep, c
  <2>4. ASSUME NEW n \in l.live PROVE l.next[n] \in l.live /\ l.previous[l.next[n]] = n
    <3>1. PICK ix \in 1 .. Len(c) : n = c[ix]
      BY <2>2
    <3>2. Follows(c, ix) = IF ix = Len(c) THEN c[1] ELSE c[ix + 1]
      BY <2>2, FollowsOK
    <3>3. Follows(c, ix) \in l.live
      <4>1. 1 \in 1 .. Len(c) /\ (ix # Len(c) => ix + 1 \in 1 .. Len(c))
        BY <2>2, FollowsOK
      <4> QED BY <2>2, <3>2, <4>1
    <3> QED BY <2>2, <3>1, <3>3
  <2>5. run.op # "none" => run.node \in l.live
    BY <1>2 DEF Holding, LoopAt
  <2>6. l.root \in l.live \cup {Nil}
    <3>1. Len(c) # 0 => 1 \in 1 .. Len(c)
      BY <2>2
    <3> QED BY <2>2, <3>1
  <2> QED BY <2>2, <2>3, <2>4, <2>5, <2>6 DEF HeldWhole, RingType
<1>3. HeldWhole(list, loop.list) /\ HeldWhole(ring, loop.ring)
  BY <1>2 DEF ListsInv
<1> QED BY <1>1, <1>2, <1>3 DEF ListsInv, ListsTypeOK, RingIsWhole

(* A loop goes on to a node of the ring or comes to rest.                  *)
LEMMA GoToOK ==
  ASSUME NEW run, NEW l, LoopAt(run, l), run.op # "none", NEW m, NEW node \in m.live \cup {Nil},
         m.live \subseteq Nodes, NEW goes_on \in BOOLEAN
  PROVE  LoopAt([op |-> IF node = Nil THEN "none" ELSE run.op, node |-> node, goes_on |-> goes_on], m)
BY RingAssumption DEF LoopAt, Runs

(* Where foreach and the remove_if of the list go from the k-th node.      *)
LEMMA AfterOK ==
  ASSUME NEW l, NEW x, NEW k, NodeAt(l, x, k), NEW goes_on \in BOOLEAN
  PROVE  /\ After(l, x, goes_on) = IF goes_on /\ k < Len(Chain(l)) THEN Chain(l)[k + 1] ELSE Nil
         /\ After(l, x, goes_on) \in (l.live \ {x}) \cup {Nil}
<1> DEFINE c == Chain(l)
           n == Len(c)
<1>1. /\ n \in Nat /\ k \in 1 .. n /\ x = c[k] /\ l.root = c[1]
      /\ \A ix \in 1 .. n : c[ix] \in l.live
      /\ \A ix, j \in 1 .. n : c[ix] = c[j] => ix = j
      /\ l.next[x] = IF k = n THEN c[1] ELSE c[k + 1]
  BY DEF NodeAt
<1> HIDE DEF n, c
<1>2. k # n => k < n /\ c[k + 1] # c[1] /\ c[k + 1] \in l.live /\ c[k + 1] # x
  <2>1. k # n => k < n /\ k + 1 \in 1 .. n /\ 1 \in 1 .. n /\ k + 1 # 1 /\ k + 1 # k
    BY <1>1
  <2> QED BY <1>1, <2>1
<1>3. k = n => ~(k < n)
  BY <1>1
<1>4. After(l, x, goes_on) = IF goes_on /\ k < n THEN c[k + 1] ELSE Nil
  BY <1>1, <1>2, <1>3 DEF After
<1> QED BY <1>2, <1>3, <1>4 DEF n, c

(* Where circular_list_remove_if goes.                                     *)
AfterRemoval(l, x, remove, goes_on) ==
  LET node == IF remove /\ l.next[x] = x THEN Nil ELSE l.next[x]
      m    == IF remove THEN Removed(l, x) ELSE l
  IN  IF goes_on /\ node # m.root THEN node ELSE Nil
LEMMA AfterRemovalOK ==
  ASSUME NEW l, NEW x, NEW k, NodeAt(l, x, k), NEW remove \in BOOLEAN, NEW goes_on \in BOOLEAN
  PROVE  /\ AfterRemoval(l, x, remove, goes_on) =
              IF goes_on /\ k < Len(Chain(l)) /\ ~(remove /\ k = 1) THEN Chain(l)[k + 1] ELSE Nil
         /\ AfterRemoval(l, x, remove, goes_on) \in (IF remove THEN l.live \ {x} ELSE l.live) \cup {Nil}
<1> DEFINE c == Chain(l)
           n == Len(c)
           r == Removed(l, x).root
<1>1. /\ n \in Nat /\ k \in 1 .. n /\ x = c[k] /\ l.root = c[1]
      /\ \A ix \in 1 .. n : c[ix] \in l.live
      /\ \A ix, j \in 1 .. n : c[ix] = c[j] => ix = j
      /\ l.next[x] = IF k = n THEN c[1] ELSE c[k + 1]
      /\ r = IF n = 1 THEN Nil ELSE IF k = 1 THEN c[2] ELSE c[1]
  BY DEF NodeAt
<1> HIDE DEF n, c, r
<1>2. k # n => k < n /\ c[k + 1] # c[1] /\ c[k + 1] \in l.live /\ c[k + 1] # x
  <2>1. k # n => k < n /\ k + 1 \in 1 .. n /\ 1 \in 1 .. n /\ k + 1 # 1 /\ k + 1 # k
    BY <1>1
  <2> QED BY <1>1, <2>1
<1>3. k = n => ~(k < n)
  BY <1>1
<1>4. AfterRemoval(l, x, remove, goes_on) = IF goes_on /\ k < n /\ ~(remove /\ k = 1) THEN c[k + 1] ELSE Nil
  <2>1. CASE ~remove
    BY <1>1, <1>2, <1>3, <2>1 DEF AfterRemoval
  <2>2. CASE remove
    <3>1. AfterRemoval(l, x, remove, goes_on) =
            IF goes_on /\ (IF l.next[x] = x THEN Nil ELSE l.next[x]) # r
            THEN IF l.next[x] = x THEN Nil ELSE l.next[x] ELSE Nil
      BY <2>2 DEF AfterRemoval, r
    <3>2. CASE n = 1
      BY <1>1, <3>1, <3>2
    <3>3. CASE n # 1 /\ k = 1
      <4>1. l.next[x] = c[2] /\ r = c[2]
        BY <1>1, <3>3
      <4>2. c[2] # x
        BY <1>1, <3>3
      <4>3. AfterRemoval(l, x, remove, goes_on) = Nil
        BY <3>1, <4>1, <4>2
      <4> QED BY <2>2, <3>3, <4>3
    <3>4. CASE n # 1 /\ k # 1
      <4>1. r = c[1] /\ c[1] # x
        BY <1>1, <3>4
      <4>2. l.next[x] # x
        BY <1>1, <1>2, <4>1
      <4> QED BY <1>1, <1>2, <1>3, <3>1, <3>4, <4>1, <4>2
    <3> QED BY <3>2, <3>3, <3>4
  <2> QED BY <2>1, <2>2
<1> QED BY <1>2, <1>3, <1>4 DEF n, c

LEMMA RootOK ==
  ASSUME NEW l, Intact(l)
  PROVE  /\ l.live \subseteq Nodes /\ l.root \in l.live \cup {Nil}
         /\ l.root # Nil => Chain(l) # <<>> /\ l.root = Chain(l)[1] /\ l.root \in l.live
<1> DEFINE c == Chain(l)
<1>1. Rep(l, c)
  BY DEF Intact
<1> HIDE DEF c
<1>2. /\ l \in RingType /\ Len(c) \in Nat
      /\ (c = <<>> <=> Len(c) = 0) /\ (c = <<>> <=> l.root = Nil) /\ (Len(c) # 0 => l.root = c[1])
      /\ \A ix \in 1 .. Len(c) : c[ix] \in l.live /\ c[ix] \in Nodes
  BY <1>1, RepParts
<1>3. Len(c) # 0 => 1 \in 1 .. Len(c)
  BY <1>2
<1> QED BY <1>2, <1>3 DEF c, RingType

(* A loop that is at rest may be followed by any change of the list.       *)
LEMMA RestingOK ==
  ASSUME NEW run, NEW l, LoopAt(run, l), run.op = "none", NEW m
  PROVE  LoopAt(run, m) /\ run.node = Nil
BY DEF LoopAt

LEMMA BeginOK ==
  ASSUME NEW l, Intact(l), l.root # Nil, NEW op \in {"foreach", "remove_if"}
  PROVE  LoopAt([op |-> op, node |-> l.root, goes_on |-> TRUE], l)
BY RootOK, RingAssumption DEF LoopAt, Runs

LEMMA SameOperators ==
  /\ \A c : L!Range(c) = Range(c) /\ R!Range(c) = Range(c)
  /\ \A c, k : L!RemoveAt(c, k) = RemoveAt(c, k) /\ R!RemoveAt(c, k) = RemoveAt(c, k)
BY DEF Range, L!Range, R!Range, RemoveAt, L!RemoveAt, R!RemoveAt

(* Every step of a client of the list is one of the sequence.              *)
LEMMA ListStep ==
  ASSUME ListsInv, ListNext
  PROVE  Holding(list', loop'.list) /\ L!Next /\ ring' = ring /\ loop' = [loop EXCEPT !.list = loop'.list]
<1>1. Intact(list) /\ LoopAt(loop.list, list) /\ loop \in [{"list", "ring"} -> Runs]
  BY DEF ListsInv, Holding
<1>2. ASSUME NEW n \in Nodes \ list.live, Idle("list"), list' = Linked(list, n), UNCHANGED <<ring, loop>>
      PROVE  Holding(list', loop'.list) /\ L!Next
  <2>1. /\ Intact(list') /\ Chain(list') = Append(Chain(list), n)
        /\ n \in Nodes \ Range(Chain(list)) /\ LoopAt(loop'.list, list') /\ loop.list.node = Nil
    BY <1>1, <1>2, LinkedStep, RestingOK DEF Idle
  <2> QED BY <1>2, <2>1, SameOperators DEF Holding, L!Next, L!Add
<1>3. ASSUME NEW n \in list.live, Idle("list"), list' = Removed(list, n), UNCHANGED <<ring, loop>>
      PROVE  Holding(list', loop'.list) /\ L!Next
  <2>1. PICK k \in 1 .. Len(Chain(list)) : NodeAt(list, n, k)
    BY <1>1, NodeOK
  <2>2. /\ Intact(list') /\ Chain(list') = RemoveAt(Chain(list), k) /\ k \in DOMAIN Chain(list)
        /\ LoopAt(loop'.list, list') /\ loop.list.node = Nil
    BY <1>1, <1>3, <2>1, RestingOK DEF Idle, NodeAt
  <2> QED BY <1>3, <2>2, SameOperators DEF Holding, L!Next, L!Take
<1>4. ASSUME Begin("list", list)
      PROVE  Holding(list', loop'.list) /\ L!Next /\ ring' = ring /\ loop' = [loop EXCEPT !.list = loop'.list]
  <2>1. PICK op \in {"foreach", "remove_if"} :
           /\ Idle("list") /\ list.root # Nil /\ UNCHANGED <<list, ring>>
           /\ loop' = [loop EXCEPT !.list = [op |-> op, node |-> list.root, goes_on |-> TRUE]]
    BY <1>4 DEF Begin
  <2>2. loop'.list = [op |-> op, node |-> list.root, goes_on |-> TRUE]
    BY <1>1, <2>1
  <2>3. LoopAt(loop'.list, list) /\ Chain(list) # <<>> /\ list.root = Chain(list)[1] /\ loop.list.node = Nil
    BY <1>1, <2>1, <2>2, BeginOK, RootOK, RestingOK DEF Idle
  <2>4. L!Next
    BY <2>1, <2>2, <2>3 DEF L!Next, L!Begin
  <2> QED BY <1>1, <2>1, <2>2, <2>3, <2>4 DEF Holding
<1>5. ASSUME NEW remove \in BOOLEAN, NEW goes_on \in BOOLEAN, loop.list.op # "none", UNCHANGED ring,
             list' = (IF remove THEN Removed(list, loop.list.node) ELSE list),
             GoTo("list", After(list, loop.list.node, goes_on), goes_on)
      PROVE  Holding(list', loop'.list) /\ L!Next /\ loop' = [loop EXCEPT !.list = loop'.list]
  <2> DEFINE n == loop.list.node
             after == After(list, n, goes_on)
  <2>1. n \in list.live
    BY <1>1, <1>5 DEF LoopAt
  <2>2. PICK k \in 1 .. Len(Chain(list)) : NodeAt(list, n, k)
    BY <1>1, <2>1, NodeOK
  <2>3. /\ after = IF goes_on /\ k < Len(Chain(list)) THEN Chain(list)[k + 1] ELSE Nil
        /\ after \in (list.live \ {n}) \cup {Nil}
    BY <2>2, AfterOK
  <2>4. Intact(list') /\ Chain(list') = IF remove THEN RemoveAt(Chain(list), k) ELSE Chain(list)
    BY <1>1, <1>5, <2>2 DEF NodeAt
  <2>5. after \in list'.live \cup {Nil} /\ list'.live \subseteq Nodes
    BY <1>5, <2>3, <2>4, RemovedLive, RootOK
  <2>6. loop'.list = [op |-> IF after = Nil THEN "none" ELSE loop.list.op, node |-> after, goes_on |-> goes_on]
    BY <1>1, <1>5 DEF GoTo
  <2>7. loop' = [loop EXCEPT !.list = loop'.list]
    BY <1>1, <1>5 DEF GoTo
  <2>8. k \in DOMAIN Chain(list) /\ n = Chain(list)[k]
    BY <2>2 DEF NodeAt
  <2> HIDE DEF after
  <2>9. LoopAt(loop'.list, list')
    <3>1. loop.list.op # "none" /\ LoopAt(loop.list, list) /\ goes_on \in BOOLEAN
      BY <1>1, <1>5
    <3> HIDE DEF n
    <3> QED BY <2>5, <2>6, <3>1, GoToOK
  <2>10. L!Ask
    <3>1. loop.list.node = Chain(list)[k] /\ Chain(list)' = IF remove THEN RemoveAt(Chain(list), k) ELSE Chain(list)
      BY <2>4, <2>8
    <3>2. loop'.list.goes_on \in BOOLEAN
      BY <2>6
    <3>3. loop'.list.node = IF loop'.list.goes_on /\ k < Len(Chain(list)) THEN Chain(list)[k + 1] ELSE Nil
      BY <2>3, <2>6
    <3>4. k \in DOMAIN Chain(list) /\ remove \in BOOLEAN
      BY <2>8
    <3> QED BY <3>1, <3>2, <3>3, <3>4, SameOperators DEF L!Ask
  <2> QED BY <2>4, <2>7, <2>9, <2>10 DEF Holding, L!Next
<1>6. ASSUME Idle("list"), list' = Emptied(list), UNCHANGED <<ring, loop>>
      PROVE  Holding(list', loop'.list) /\ L!Next
  <2>1. Intact(list') /\ Chain(list') = <<>> /\ LoopAt(loop'.list, list') /\ loop.list.node = Nil
    BY <1>1, <1>6, EmptiedStep, RestingOK DEF Idle
  <2> QED BY <1>6, <2>1 DEF Holding, L!Next, L!Clear
<1>7. loop' = loop => loop' = [loop EXCEPT !.list = loop'.list]
  BY <1>1
<1>8. ASSUME Foreach("list", list)
      PROVE  Holding(list', loop'.list) /\ L!Next /\ ring' = ring /\ loop' = [loop EXCEPT !.list = loop'.list]
  <2>1. PICK goes_on \in BOOLEAN :
           /\ loop.list.op = "foreach" /\ GoTo("list", After(list, loop.list.node, goes_on), goes_on)
           /\ UNCHANGED <<list, ring>>
    BY <1>8 DEF Foreach
  <2> QED BY <1>5, <2>1
<1>9. ASSUME ListRemoveIf
      PROVE  Holding(list', loop'.list) /\ L!Next /\ ring' = ring /\ loop' = [loop EXCEPT !.list = loop'.list]
  <2>1. PICK remove \in BOOLEAN, goes_on \in BOOLEAN :
           /\ loop.list.op = "remove_if" /\ UNCHANGED ring
           /\ list' = (IF remove THEN Removed(list, loop.list.node) ELSE list)
           /\ GoTo("list", After(list, loop.list.node, goes_on), goes_on)
    BY <1>9 DEF ListRemoveIf
  <2> QED BY <1>5, <2>1
<1> QED BY <1>2, <1>3, <1>4, <1>6, <1>7, <1>8, <1>9 DEF ListNext, ListAdd, ListRemove, ListDeinit

(* And every step of a client of the circular list, if it never removes    *)
(* one of two nodes.                                                       *)
LEMMA CircularStep ==
  ASSUME ListsInv, CircularNext, ~PairRemovals
  PROVE  Holding(ring', loop'.ring) /\ R!Next /\ list' = list /\ loop' = [loop EXCEPT !.ring = loop'.ring]
<1>1. Intact(ring) /\ LoopAt(loop.ring, ring) /\ loop \in [{"list", "ring"} -> Runs]
  BY DEF ListsInv, Holding
<1>2. ASSUME NEW n \in Nodes \ ring.live, Idle("ring"), ring' = Linked(ring, n), UNCHANGED <<list, loop>>
      PROVE  Holding(ring', loop'.ring) /\ R!Next
  <2>1. /\ Intact(ring') /\ Chain(ring') = Append(Chain(ring), n)
        /\ n \in Nodes \ Range(Chain(ring)) /\ LoopAt(loop'.ring, ring') /\ loop.ring.node = Nil
    BY <1>1, <1>2, LinkedStep, RestingOK DEF Idle
  <2> QED BY <1>2, <2>1, SameOperators DEF Holding, R!Next, R!Add
<1>3. ASSUME NEW n \in ring.live, Idle("ring"), Cardinality(ring.live) # 2,
             ring' = CircularRemoved(ring, n), UNCHANGED <<list, loop>>
      PROVE  Holding(ring', loop'.ring) /\ R!Next
  <2>1. PICK k \in 1 .. Len(Chain(ring)) : NodeAt(ring, n, k)
    BY <1>1, NodeOK
  <2>2. ring' = Removed(ring, n)
    BY <1>1, <1>3, CircularRemovedIs
  <2>3. /\ Intact(ring') /\ Chain(ring') = RemoveAt(Chain(ring), k) /\ k \in DOMAIN Chain(ring)
        /\ LoopAt(loop'.ring, ring') /\ loop.ring.node = Nil
    BY <1>1, <1>3, <2>1, <2>2, RestingOK DEF Idle, NodeAt
  <2> QED BY <1>3, <2>3, SameOperators DEF Holding, R!Next, R!Take
<1>4. ASSUME Begin("ring", ring)
      PROVE  Holding(ring', loop'.ring) /\ R!Next /\ list' = list /\ loop' = [loop EXCEPT !.ring = loop'.ring]
  <2>1. PICK op \in {"foreach", "remove_if"} :
           /\ Idle("ring") /\ ring.root # Nil /\ UNCHANGED <<list, ring>>
           /\ loop' = [loop EXCEPT !.ring = [op |-> op, node |-> ring.root, goes_on |-> TRUE]]
    BY <1>4 DEF Begin
  <2>2. loop'.ring = [op |-> op, node |-> ring.root, goes_on |-> TRUE]
    BY <1>1, <2>1
  <2>3. LoopAt(loop'.ring, ring) /\ Chain(ring) # <<>> /\ ring.root = Chain(ring)[1] /\ loop.ring.node = Nil
    BY <1>1, <2>1, <2>2, BeginOK, RootOK, RestingOK DEF Idle
  <2>4. R!Next
    BY <2>1, <2>2, <2>3 DEF R!Next, R!Begin
  <2> QED BY <1>1, <2>1, <2>2, <2>3, <2>4 DEF Holding
<1>5. ASSUME NEW remove \in BOOLEAN, NEW goes_on \in BOOLEAN, loop.ring.op # "none",
             ring' = (IF remove THEN Removed(ring, loop.ring.node) ELSE ring), NEW node,
             NEW k \in 1 .. Len(Chain(ring)), NodeAt(ring, loop.ring.node, k),
             node = (IF goes_on /\ k < Len(Chain(ring)) /\ ~(remove /\ k = 1) THEN Chain(ring)[k + 1] ELSE Nil),
             node \in (IF remove THEN ring.live \ {loop.ring.node} ELSE ring.live) \cup {Nil},
             GoTo("ring", node, goes_on)
      PROVE  Holding(ring', loop'.ring) /\ R!Next /\ loop' = [loop EXCEPT !.ring = loop'.ring]
  <2>1. Intact(ring') /\ Chain(ring') = IF remove THEN RemoveAt(Chain(ring), k) ELSE Chain(ring)
    BY <1>1, <1>5 DEF NodeAt
  <2>2. node \in ring'.live \cup {Nil} /\ ring'.live \subseteq Nodes
    BY <1>5, <2>1, RemovedLive, RootOK
  <2>3. loop'.ring = [op |-> IF node = Nil THEN "none" ELSE loop.ring.op, node |-> node, goes_on |-> goes_on]
    BY <1>1, <1>5 DEF GoTo
  <2>4. loop' = [loop EXCEPT !.ring = loop'.ring]
    BY <1>1, <1>5 DEF GoTo
  <2>5. LoopAt(loop'.ring, ring')
    <3>1. loop.ring.op # "none" /\ LoopAt(loop.ring, ring) /\ goes_on \in BOOLEAN
      BY <1>1, <1>5
    <3> QED BY <2>2, <2>3, <3>1, GoToOK
  <2>6. R!Ask
    <3>1. /\ loop.ring.node = Chain(ring)[k] /\ k \in DOMAIN Chain(ring) /\ remove \in BOOLEAN
          /\ Chain(ring)' = IF remove THEN RemoveAt(Chain(ring), k) ELSE Chain(ring)
      BY <1>5, <2>1 DEF NodeAt
    <3>2. loop'.ring.goes_on \in BOOLEAN
      BY <2>3
    <3>3. loop'.ring.node = IF loop'.ring.goes_on /\ k < Len(Chain(ring)) /\ ~(TRUE /\ remove /\ k = 1)
                            THEN Chain(ring)[k + 1] ELSE Nil
      BY <1>5, <2>3
    <3> QED BY <3>1, <3>2, <3>3, SameOperators DEF R!Ask
  <2> QED BY <2>1, <2>4, <2>5, <2>6 DEF Holding, R!Next
<1>6. ASSUME Idle("ring"), ring' = Emptied(ring), UNCHANGED <<list, loop>>
      PROVE  Holding(ring', loop'.ring) /\ R!Next
  <2>1. Intact(ring') /\ Chain(ring') = <<>> /\ LoopAt(loop'.ring, ring') /\ loop.ring.node = Nil
    BY <1>1, <1>6, EmptiedStep, RestingOK DEF Idle
  <2> QED BY <1>6, <2>1 DEF Holding, R!Next, R!Clear
<1>7. loop' = loop => loop' = [loop EXCEPT !.ring = loop'.ring]
  BY <1>1
<1>8. ASSUME Foreach("ring", ring)
      PROVE  Holding(ring', loop'.ring) /\ R!Next /\ list' = list /\ loop' = [loop EXCEPT !.ring = loop'.ring]
  <2>1. PICK goes_on \in BOOLEAN :
           /\ loop.ring.op = "foreach" /\ GoTo("ring", After(ring, loop.ring.node, goes_on), goes_on)
           /\ UNCHANGED <<list, ring>>
    BY <1>8 DEF Foreach
  <2>2. loop.ring.node \in ring.live /\ loop.ring.op # "none"
    BY <1>1, <2>1 DEF LoopAt
  <2>3. PICK k \in 1 .. Len(Chain(ring)) : NodeAt(ring, loop.ring.node, k)
    BY <1>1, <2>2, NodeOK
  <2>4. PICK node : node = After(ring, loop.ring.node, goes_on)
    OBVIOUS
  <2>5. /\ node = IF goes_on /\ k < Len(Chain(ring)) THEN Chain(ring)[k + 1] ELSE Nil
        /\ node \in (ring.live \ {loop.ring.node}) \cup {Nil}
    BY <2>3, <2>4, AfterOK
  <2>6. /\ node = (IF goes_on /\ k < Len(Chain(ring)) /\ ~(FALSE /\ k = 1) THEN Chain(ring)[k + 1] ELSE Nil)
        /\ node \in (IF FALSE THEN ring.live \ {loop.ring.node} ELSE ring.live) \cup {Nil}
        /\ ring' = (IF FALSE THEN Removed(ring, loop.ring.node) ELSE ring) /\ FALSE \in BOOLEAN
    BY <2>1, <2>5
  <2>7. GoTo("ring", node, goes_on)
    BY <2>1, <2>4
  <2> QED BY <1>5, <2>1, <2>2, <2>3, <2>6, <2>7
<1>9. ASSUME CircularListRemoveIf
      PROVE  Holding(ring', loop'.ring) /\ R!Next /\ list' = list /\ loop' = [loop EXCEPT !.ring = loop'.ring]
  <2>1. PICK remove \in BOOLEAN, goes_on \in BOOLEAN :
           /\ loop.ring.op = "remove_if" /\ UNCHANGED list
           /\ ring' = (IF remove THEN Removed(ring, loop.ring.node) ELSE ring)
           /\ GoTo("ring", AfterRemoval(ring, loop.ring.node, remove, goes_on), goes_on)
    BY <1>9 DEF CircularListRemoveIf, AfterRemoval
  <2>2. loop.ring.node \in ring.live /\ loop.ring.op # "none"
    BY <1>1, <2>1 DEF LoopAt
  <2>3. PICK k \in 1 .. Len(Chain(ring)) : NodeAt(ring, loop.ring.node, k)
    BY <1>1, <2>2, NodeOK
  <2>4. PICK node : node = AfterRemoval(ring, loop.ring.node, remove, goes_on)
    OBVIOUS
  <2>5. /\ node = (IF goes_on /\ k < Len(Chain(ring)) /\ ~(remove /\ k = 1) THEN Chain(ring)[k + 1] ELSE Nil)
        /\ node \in (IF remove THEN ring.live \ {loop.ring.node} ELSE ring.live) \cup {Nil}
    BY <2>3, <2>4, AfterRemovalOK
  <2>6. GoTo("ring", node, goes_on)
    BY <2>1, <2>4
  <2> QED BY <1>5, <2>1, <2>2, <2>3, <2>5, <2>6
<1> QED BY <1>2, <1>3, <1>4, <1>6, <1>7, <1>8, <1>9 DEF CircularNext, CircularAdd, CircularRemove, CircularDestroy

LEMMA ListsInvStep ==
  ASSUME ListsInv, [ListNext \/ CircularNext]_listVars, ~PairRemovals
  PROVE  /\ ListsInv'
         /\ L!Next \/ UNCHANGED <<Chain(list), loop.list.node, loop.list.goes_on>>
         /\ R!Next \/ UNCHANGED <<Chain(ring), loop.ring.node, loop.ring.goes_on>>
<1>1. loop \in [{"list", "ring"} -> Runs] /\ Holding(list, loop.list) /\ Holding(ring, loop.ring)
  BY DEF ListsInv
<1>2. CASE ListNext
  <2>1. Holding(list', loop'.list) /\ L!Next /\ ring' = ring /\ loop' = [loop EXCEPT !.list = loop'.list]
    BY <1>2, ListStep
  <2>2. loop'.ring = loop.ring /\ loop'.list \in Runs
    BY <1>1, <2>1 DEF Holding, LoopAt
  <2>3. loop' \in [{"list", "ring"} -> Runs]
    BY <1>1, <2>1, <2>2
  <2> QED BY <1>1, <2>1, <2>2, <2>3 DEF ListsInv
<1>3. CASE CircularNext
  <2>1. Holding(ring', loop'.ring) /\ R!Next /\ list' = list /\ loop' = [loop EXCEPT !.ring = loop'.ring]
    BY <1>3, CircularStep
  <2>2. loop'.list = loop.list /\ loop'.ring \in Runs
    BY <1>1, <2>1 DEF Holding, LoopAt
  <2>3. loop' \in [{"list", "ring"} -> Runs]
    BY <1>1, <2>1, <2>2
  <2> QED BY <1>1, <2>1, <2>2, <2>3 DEF ListsInv
<1>4. CASE UNCHANGED listVars
  BY <1>1, <1>4 DEF listVars, ListsInv
<1> QED BY <1>2, <1>3, <1>4

LEMMA ListsInvInit == ListsInit => ListsInv /\ L!Init /\ R!Init
<1> SUFFICES ASSUME ListsInit PROVE ListsInv /\ L!Init /\ R!Init
  OBVIOUS
<1>1. Intact(EmptyRing) /\ Chain(EmptyRing) = <<>>
  BY NewRingHolds DEF Intact
<1>2. /\ list = EmptyRing /\ ring = EmptyRing /\ loop = [of \in {"list", "ring"} |-> Resting]
      /\ loop.list = Resting /\ loop.ring = Resting
  BY DEF ListsInit
<1>3. LoopAt(Resting, EmptyRing) /\ Resting \in Runs
  BY DEF LoopAt, Resting, Runs, EmptyRing
<1>4. Resting.node = Nil /\ Resting.goes_on = TRUE
  BY DEF Resting
<1>5. ListsInv
  BY <1>1, <1>2, <1>3 DEF ListsInv, Holding
<1> QED BY <1>1, <1>2, <1>4, <1>5 DEF L!Init, R!Init

(* list.c and circular_list.c are sequences, of any number of nodes: no    *)
(* node is lost, no link dangles, the order is kept, and a loop asks about *)
(* every node once whatever it removes.  circular_list_remove takes one of *)
(* two nodes for the only one (circular_list.c:100) and leaves the other   *)
(* out of the list: the theorem is about clients that never do that.       *)
THEOREM ListsHoldSequences ==
  ASSUME ~PairRemovals
  PROVE  ListsSpec => ListsAreSequences
<1>1. ListsInv /\ [ListNext \/ CircularNext]_listVars => ListsInv'
  BY ListsInvStep
<1>2. ListsInv /\ [ListNext \/ CircularNext]_listVars
        => [L!Next]_<<Chain(list), loop.list.node, loop.list.goes_on>>
  BY ListsInvStep
<1>3. ListsInv /\ [ListNext \/ CircularNext]_listVars
        => [R!Next]_<<Chain(ring), loop.ring.node, loop.ring.goes_on>>
  BY ListsInvStep
<1>4. ListsInv => ListsTypeOK /\ RingIsWhole
  BY InvMeans
<1> QED BY <1>1, <1>2, <1>3, <1>4, ListsInvInit, PTL DEF ListsSpec, L!Spec, R!Spec, ListsAreSequences

-----------------------------------------------------------------------------
(***************************************************************************)
(* The search tree.  Adding keeps it searchable, and the traversals visit  *)
(* its nodes in their orders, however many there are.                      *)
(***************************************************************************)

NodeType == [value : Keys, parent : Nat, left : Nat, right : Nat]

(* A node's children have it as their parent, and come later; the root     *)
(* alone has none, the other nodes are a child of theirs.                  *)
TreeLinked(t) ==
  /\ t \in Seq(NodeType)
  /\ \A n \in DOMAIN t :
       /\ t[n].parent \in 0 .. n - 1 /\ (t[n].parent = None <=> n = 1)
       /\ n # 1 => n \in {t[t[n].parent].left, t[t[n].parent].right}
       /\ \A c \in {t[n].left, t[n].right} \ {None} : c \in DOMAIN t /\ t[c].parent = n
       /\ t[n].left = t[n].right => t[n].left = None

LEMMA LinkedParts ==
  ASSUME NEW t, TreeLinked(t)
  PROVE  /\ DOMAIN t = 1 .. Len(t) /\ Len(t) \in Nat
         /\ \A n \in DOMAIN t :
              /\ n \in Nat /\ n # None /\ t[n] \in NodeType
              /\ t[n].parent \in 0 .. n - 1 /\ (t[n].parent = None <=> n = 1)
              /\ n # 1 => t[n].parent \in DOMAIN t
<1>1. DOMAIN t = 1 .. Len(t) /\ Len(t) \in Nat
  BY LenProperties DEF TreeLinked
<1>2. ASSUME NEW n \in DOMAIN t
      PROVE /\ n \in Nat /\ n # None /\ t[n] \in NodeType
            /\ t[n].parent \in 0 .. n - 1 /\ (t[n].parent = None <=> n = 1)
            /\ n # 1 => t[n].parent \in DOMAIN t
  <2>1. n \in Nat /\ n # None
    BY <1>1 DEF None
  <2>2. t[n] \in NodeType
    BY <1>1, ElementOfSeq DEF TreeLinked
  <2>3. t[n].parent \in 0 .. n - 1 /\ (t[n].parent = None <=> n = 1)
    BY DEF TreeLinked
  <2>4. n # 1 => t[n].parent \in DOMAIN t
    BY <1>1, <2>1, <2>3 DEF None
  <2> QED BY <2>1, <2>2, <2>3, <2>4
<1> QED BY <1>1, <1>2

(* Above is the function its recursion says.                               *)
LEMMA AboveOK ==
  ASSUME NEW t, TreeLinked(t)
  PROVE  /\ \A n \in DOMAIN t :
              Above(t)[n] = {n} \cup (IF t[n].parent = None THEN {} ELSE Above(t)[t[n].parent])
<1> DEFINE D == DOMAIN t
           Of(f, n) == {n} \cup (IF t[n].parent = None THEN {} ELSE f[t[n].parent])
           Upto(f, k) == f = [n \in 1 .. k |-> Of(f, n)]
<1>1. /\ D = 1 .. Len(t) /\ Len(t) \in Nat
      /\ \A n \in D : n \in Nat /\ t[n].parent \in 0 .. n - 1 /\ (t[n].parent = None <=> n = 1)
  BY LinkedParts
<1> HIDE DEF D
<1>2. \A k \in 0 .. Len(t) : \E f : Upto(f, k)
  <2> DEFINE T == {k \in 0 .. Len(t) : ~ \E f : Upto(f, k)}
  <2> SUFFICES ASSUME T # {} PROVE FALSE
    OBVIOUS
  <2>1. T \in SUBSET Nat
    BY <1>1
  <2> HIDE DEF T
  <2>2. PICK m \in T : \A g \in T : m <= g
    BY <2>1, LeastOK
  <2>3. m \in 0 .. Len(t) /\ ~ \E f : Upto(f, m)
    <3> HIDE DEF Upto
    <3> QED BY DEF T
  <2>4. CASE m = 0
    <3>1. Upto([n \in 1 .. 0 |-> {}], 0)
      OBVIOUS
    <3> QED BY <2>3, <2>4, <3>1
  <2>5. CASE m # 0
    <3>1. m - 1 \in 0 .. Len(t) /\ m - 1 \notin T /\ m \in Nat /\ m - 1 \in Nat
      BY <1>1, <2>2, <2>3, <2>5
    <3>2. PICK g : Upto(g, m - 1)
      <4> HIDE DEF Upto
      <4> QED BY <3>1 DEF T
    <3> DEFINE f == [n \in 1 .. m |-> IF n < m THEN g[n] ELSE Of(g, n)]
    <3>3. ASSUME NEW n \in 1 .. m PROVE f[n] = Of(f, n)
      <4>1. n \in D /\ n \in Nat /\ t[n].parent \in 0 .. n - 1 /\ (t[n].parent = None <=> n = 1)
        BY <1>1, <2>3
      <4>2. t[n].parent # None => t[n].parent \in 1 .. m - 1 /\ f[t[n].parent] = g[t[n].parent]
        BY <4>1, <3>1 DEF None
      <4>3. Of(f, n) = Of(g, n)
        BY <4>2
      <4>4. CASE n < m
        <5>1. n \in 1 .. m - 1
          BY <4>4, <3>1
        <5>2. g[n] = Of(g, n)
          <6> HIDE DEF f
          <6> QED BY <5>1, <3>2
        <5> QED BY <4>3, <4>4, <5>2
      <4>5. CASE n = m
        BY <4>3, <4>5
      <4> QED BY <4>4, <4>5, <3>1
    <3>4. Upto(f, m)
      <4> HIDE DEF Of
      <4> QED BY <3>3
    <3> QED BY <2>3, <3>4
  <2> QED BY <2>4, <2>5
<1>3. PICK f : Upto(f, Len(t))
  <2> HIDE DEF Upto
  <2> QED BY <1>1, <1>2
<1>4. Above(t) = CHOOSE f1 : f1 = [n \in D |-> Of(f1, n)]
  BY DEF Above, D
<1>5. Above(t) = [n \in D |-> Of(Above(t), n)]
  <2>1. f = [n \in D |-> Of(f, n)]
    BY <1>1, <1>3
  <2> HIDE DEF Of
  <2> QED BY <1>4, <2>1
<1>6. \A n \in D : Above(t)[n] = Of(Above(t), n)
  <2> HIDE DEF Of
  <2> QED BY <1>5
<1> QED BY <1>6 DEF D

(* What holds of the root, and of a node when it holds of its parent,      *)
(* holds of every node.                                                    *)
LEMMA FromParents ==
  ASSUME NEW t, TreeLinked(t), NEW S,
         \A n \in DOMAIN t : n = 1 \/ t[n].parent \in S => n \in S
  PROVE  \A n \in DOMAIN t : n \in S
<1> DEFINE T == {n \in DOMAIN t : n \notin S}
<1> SUFFICES ASSUME T # {} PROVE FALSE
  OBVIOUS
<1>1. /\ \A n \in DOMAIN t : n \in Nat /\ t[n].parent \in 0 .. n - 1
      /\ \A n \in DOMAIN t : n # 1 => t[n].parent \in DOMAIN t
  BY LinkedParts
<1>2. T \in SUBSET Nat
  BY <1>1
<1> HIDE DEF T
<1>3. PICK m \in T : \A g \in T : m <= g
  BY <1>2, LeastOK
<1>4. m \in DOMAIN t /\ m \notin S
  BY DEF T
<1>5. m # 1 /\ t[m].parent \in DOMAIN t /\ t[m].parent \in 0 .. m - 1 /\ m \in Nat
  BY <1>1, <1>4
<1>6. t[m].parent \notin T
  BY <1>3, <1>5
<1>7. t[m].parent \in S
  BY <1>5, <1>6 DEF T
<1> QED BY <1>4, <1>7

LEMMA AboveIs ==
  ASSUME NEW t, TreeLinked(t)
  PROVE  \A n \in DOMAIN t :
           /\ n \in Above(t)[n] /\ Above(t)[n] \subseteq DOMAIN t /\ (\A a \in Above(t)[n] : a <= n)
           /\ n = 1 => Above(t)[n] = {n}
           /\ n # 1 => t[n].parent \in DOMAIN t /\ t[n].parent < n
                       /\ Above(t)[n] = {n} \cup Above(t)[t[n].parent]
           /\ \A c \in {t[n].left, t[n].right} \ {None} :
                c \in DOMAIN t /\ c # 1 /\ t[c].parent = n /\ n < c
                /\ Above(t)[c] = {c} \cup Above(t)[n]
<1> DEFINE A == Above(t)
           S == {n \in DOMAIN t : A[n] \subseteq DOMAIN t /\ \A a \in A[n] : a <= n}
<1>1. \A n \in DOMAIN t : /\ n \in Nat /\ t[n].parent \in 0 .. n - 1 /\ (t[n].parent = None <=> n = 1)
                          /\ n # 1 => t[n].parent \in DOMAIN t
  BY LinkedParts
<1>2. \A n \in DOMAIN t : A[n] = {n} \cup (IF t[n].parent = None THEN {} ELSE A[t[n].parent])
  BY AboveOK
<1> HIDE DEF A
<1>3. \A n \in DOMAIN t : /\ n = 1 => A[n] = {n}
                          /\ n # 1 => A[n] = {n} \cup A[t[n].parent]
  BY <1>1, <1>2
<1>4. \A n \in DOMAIN t : n \in S
  <2>1. ASSUME NEW n \in DOMAIN t, n = 1 \/ t[n].parent \in S PROVE n \in S
    <3>1. CASE n = 1
      BY <1>1, <1>3, <3>1
    <3>2. CASE n # 1
      <4>1. t[n].parent \in DOMAIN t /\ t[n].parent \in 0 .. n - 1 /\ t[n].parent \in S /\ n \in Nat
        BY <1>1, <2>1, <3>2
      <4>2. A[n] \subseteq DOMAIN t
        BY <1>3, <3>2, <4>1
      <4>3. ASSUME NEW a \in A[n] PROVE a <= n
        <5>1. a = n \/ a \in A[t[n].parent]
          BY <1>3, <3>2
        <5>2. a \in A[t[n].parent] => a <= t[n].parent /\ a \in Nat
          BY <4>1, <1>1
        <5> QED BY <4>1, <5>1, <5>2
      <4> QED BY <4>2, <4>3
    <3> QED BY <3>1, <3>2
  <2> HIDE DEF S
  <2> QED BY <2>1, FromParents
<1>5. ASSUME NEW n \in DOMAIN t, NEW c \in {t[n].left, t[n].right} \ {None}
      PROVE  c \in DOMAIN t /\ c # 1 /\ t[c].parent = n /\ n < c /\ A[c] = {c} \cup A[n]
  <2>1. c \in DOMAIN t /\ t[c].parent = n
    BY DEF TreeLinked
  <2>2. n \in Nat /\ n # None /\ c \in Nat /\ n \in 0 .. c - 1 /\ c # 1
    BY <1>1, <2>1, LinkedParts
  <2> QED BY <1>3, <2>1, <2>2
<1>6. \A n \in DOMAIN t : n # 1 => t[n].parent < n
  BY <1>1
<1>7. \A n \in DOMAIN t : n \in A[n]
  BY <1>3
<1> QED BY <1>1, <1>3, <1>4, <1>5, <1>6, <1>7 DEF A

(* The nodes above one are a chain.                                        *)
LEMMA AboveIsChain ==
  ASSUME NEW t, TreeLinked(t)
  PROVE  \A n \in DOMAIN t :
           /\ \A a \in Above(t)[n] : Above(t)[a] \subseteq Above(t)[n]
           /\ \A a, b \in Above(t)[n] : a \in Above(t)[b] \/ b \in Above(t)[a]
<1> DEFINE A == Above(t)
           S == {n \in DOMAIN t : /\ \A a \in A[n] : A[a] \subseteq A[n]
                                  /\ \A a, b \in A[n] : a \in A[b] \/ b \in A[a]}
<1>1. \A n \in DOMAIN t : /\ n \in A[n]
                          /\ n = 1 => A[n] = {n}
                          /\ n # 1 => t[n].parent \in DOMAIN t /\ A[n] = {n} \cup A[t[n].parent]
  BY AboveIs
<1> HIDE DEF A
<1>2. ASSUME NEW n \in DOMAIN t, n = 1 \/ t[n].parent \in S PROVE n \in S
  <2>1. CASE n = 1
    BY <1>1, <2>1
  <2>2. CASE n # 1
    <3> DEFINE p == t[n].parent
    <3>1. /\ p \in DOMAIN t /\ A[n] = {n} \cup A[p] /\ n \in A[n]
          /\ \A a \in A[p] : A[a] \subseteq A[p]
          /\ \A a, b \in A[p] : a \in A[b] \/ b \in A[a]
      BY <1>1, <1>2, <2>2
    <3> HIDE DEF p
    <3>2. \A a \in A[n] : A[a] \subseteq A[n]
      BY <3>1
    <3>3. \A a, b \in A[n] : a \in A[b] \/ b \in A[a]
      BY <3>1
    <3> QED BY <3>2, <3>3
  <2> QED BY <2>1, <2>2
<1>3. \A n \in DOMAIN t : n \in S
  <2> HIDE DEF S
  <2> QED BY <1>2, FromParents
<1> QED BY <1>3 DEF A

-----------------------------------------------------------------------------
(* The sides.                                                              *)
LEMMA SidesOK ==
  ASSUME TreeLinked(tree)
  PROVE  \A a, n \in DOMAIN tree :
           /\ OnLeft(a, n) \/ OnRight(a, n) => a \in Above(tree)[n] /\ a # n
           /\ a \in Above(tree)[n] /\ a # n => OnLeft(a, n) \/ OnRight(a, n)
           /\ ~(OnLeft(a, n) /\ OnRight(a, n))
           /\ \A m \in DOMAIN tree : n \in Above(tree)[m] =>
                /\ OnLeft(a, n) => OnLeft(a, m)
                /\ OnRight(a, n) => OnRight(a, m)
<1> DEFINE A == Above(tree)
           D == DOMAIN tree
<1>1. \A n \in D : /\ n \in A[n] /\ A[n] \subseteq D /\ n \in Nat
                   /\ \A a \in A[n] : a <= n
                   /\ n = 1 => A[n] = {n}
                   /\ n # 1 => tree[n].parent \in D /\ tree[n].parent < n /\ A[n] = {n} \cup A[tree[n].parent]
  BY AboveIs, LinkedParts
<1>2. \A n \in D : \A c \in {tree[n].left, tree[n].right} \ {None} :
        c \in D /\ c # 1 /\ tree[c].parent = n /\ n < c /\ A[c] = {c} \cup A[n]
  BY AboveIs
<1>3. \A n \in D : /\ \A a \in A[n] : A[a] \subseteq A[n]
                   /\ \A a, b \in A[n] : a \in A[b] \/ b \in A[a]
  BY AboveIsChain
<1>4. \A a, n \in D : /\ OnLeft(a, n) <=> tree[a].left # None /\ tree[a].left \in A[n]
                      /\ OnRight(a, n) <=> tree[a].right # None /\ tree[a].right \in A[n]
  BY DEF OnLeft, OnRight
<1>5. \A n \in D : n # 1 => n \in {tree[tree[n].parent].left, tree[tree[n].parent].right} /\ n # None
  BY LinkedParts DEF TreeLinked
<1>6. \A n \in D : tree[n].left = tree[n].right => tree[n].left = None
  BY DEF TreeLinked
<1> HIDE DEF A, D
<1>7. ASSUME NEW a \in D, NEW n \in D, NEW c \in {tree[a].left, tree[a].right} \ {None}, c \in A[n]
      PROVE  a \in A[n] /\ a # n
  <2>1. c \in D /\ a < c /\ A[c] = {c} \cup A[a] /\ a \in A[a] /\ A[c] \subseteq A[n] /\ c <= n
    BY <1>1, <1>2, <1>3, <1>7
  <2>2. a \in Nat /\ n \in Nat /\ c \in Nat
    BY <1>1, <2>1
  <2> QED BY <2>1, <2>2
<1>8. \A n \in D : \A a \in A[n] : a # n => OnLeft(a, n) \/ OnRight(a, n)
  <2> DEFINE S == {n \in D : \A a \in A[n] : a # n => OnLeft(a, n) \/ OnRight(a, n)}
  <2>1. ASSUME NEW n \in D, n = 1 \/ tree[n].parent \in S PROVE n \in S
    <3> SUFFICES ASSUME NEW a \in A[n], a # n PROVE OnLeft(a, n) \/ OnRight(a, n)
      OBVIOUS
    <3>1. n # 1
      BY <1>1
    <3> DEFINE p == tree[n].parent
    <3>2. p \in D /\ A[n] = {n} \cup A[p] /\ a \in A[p] /\ a \in D /\ n \in A[n] /\ n # None
      BY <1>1, <1>5, <3>1
    <3>3. CASE a = p
      BY <1>4, <1>5, <3>1, <3>2, <3>3
    <3>4. CASE a # p
      <4>1. OnLeft(a, p) \/ OnRight(a, p)
        BY <2>1, <3>1, <3>2, <3>4
      <4> QED BY <1>4, <3>2, <4>1
    <3> QED BY <3>3, <3>4
  <2>2. \A n \in D : n \in S
    <3> HIDE DEF S
    <3> QED BY <2>1, FromParents DEF D
  <2> QED BY <2>2
<1>9. ASSUME NEW a \in D, NEW n \in D, OnLeft(a, n), OnRight(a, n) PROVE FALSE
  <2> DEFINE l == tree[a].left
             r == tree[a].right
  <2>1. l # None /\ r # None /\ l # r /\ l \in A[n] /\ r \in A[n]
    BY <1>4, <1>6, <1>9
  <2>2. /\ l \in D /\ r \in D /\ a < l /\ a < r /\ A[l] = {l} \cup A[a] /\ A[r] = {r} \cup A[a]
    BY <1>2, <2>1
  <2>3. l \in A[r] \/ r \in A[l]
    BY <1>3, <2>1
  <2>4. l \in A[a] \/ r \in A[a]
    BY <2>1, <2>2, <2>3
  <2>5. l <= a \/ r <= a
    BY <1>1, <2>4
  <2>6. l \in Nat /\ r \in Nat /\ a \in Nat
    BY <1>1, <2>2
  <2> HIDE DEF l, r
  <2> QED BY <2>2, <2>5, <2>6
<1>10. ASSUME NEW a \in D, NEW n \in D, NEW m \in D, n \in A[m]
       PROVE  (OnLeft(a, n) => OnLeft(a, m)) /\ (OnRight(a, n) => OnRight(a, m))
  <2>1. A[n] \subseteq A[m]
    BY <1>3, <1>10
  <2> QED BY <1>4, <2>1
<1>11. \A a, n \in D : OnLeft(a, n) \/ OnRight(a, n) => a \in A[n] /\ a # n
  <2> SUFFICES ASSUME NEW a \in D, NEW n \in D, OnLeft(a, n) \/ OnRight(a, n) PROVE a \in A[n] /\ a # n
    OBVIOUS
  <2>1. \E c \in {tree[a].left, tree[a].right} \ {None} : c \in A[n]
    BY <1>4
  <2> QED BY <1>7, <2>1
<1> QED BY <1>8, <1>9, <1>10, <1>11 DEF A, D

(* Of two nodes one is above the other or to the left of it.               *)
LEMMA LeftOfOK ==
  ASSUME TreeLinked(tree)
  PROVE  \A m, n \in DOMAIN tree :
           /\ LeftOf(m, n) => ~LeftOf(n, m) /\ m \notin Above(tree)[n] /\ n \notin Above(tree)[m]
           /\ \/ m \in Above(tree)[n] \/ n \in Above(tree)[m] \/ LeftOf(m, n) \/ LeftOf(n, m)
           /\ \A x, y \in DOMAIN tree :
                m \in Above(tree)[x] /\ n \in Above(tree)[y] /\ LeftOf(m, n) => LeftOf(x, y)
<1> DEFINE A == Above(tree)
           D == DOMAIN tree
<1>1. \A n \in D : /\ n \in A[n] /\ A[n] \subseteq D /\ n \in Nat /\ n <= Len(tree)
                   /\ \A a \in A[n] : a <= n
                   /\ n = 1 => A[n] = {n}
                   /\ n # 1 => tree[n].parent \in D /\ tree[n].parent < n /\ A[n] = {n} \cup A[tree[n].parent]
  BY AboveIs, LinkedParts
<1>2. \A n \in D : \A c \in {tree[n].left, tree[n].right} \ {None} :
        c \in D /\ n < c
  BY AboveIs
<1>3. \A n \in D : /\ \A a \in A[n] : A[a] \subseteq A[n]
                   /\ \A a, b \in A[n] : a \in A[b] \/ b \in A[a]
  BY AboveIsChain
<1>4. \A a, n \in D : /\ OnLeft(a, n) <=> tree[a].left # None /\ tree[a].left \in A[n]
                      /\ OnRight(a, n) <=> tree[a].right # None /\ tree[a].right \in A[n]
  BY DEF OnLeft, OnRight
<1>5. \A a, n \in D :
           /\ OnLeft(a, n) \/ OnRight(a, n) => a \in A[n] /\ a # n
           /\ a \in A[n] /\ a # n => OnLeft(a, n) \/ OnRight(a, n)
           /\ ~(OnLeft(a, n) /\ OnRight(a, n))
           /\ \A m \in D : n \in A[m] => (OnLeft(a, n) => OnLeft(a, m)) /\ (OnRight(a, n) => OnRight(a, m))
  BY SidesOK
<1>6. \A m, n \in D : LeftOf(m, n) <=> \E a \in D : OnLeft(a, m) /\ OnRight(a, n)
  BY DEF LeftOf
<1>7. Len(tree) \in Nat
  BY LinkedParts
<1> HIDE DEF A, D
<1>8. ASSUME NEW m \in D, NEW n \in D, NEW x \in D, NEW y \in D,
             m \in A[x], n \in A[y], LeftOf(m, n)
      PROVE  LeftOf(x, y)
  BY <1>5, <1>6, <1>8
<1>9. ASSUME NEW m \in D, NEW n \in D, LeftOf(m, n)
      PROVE  ~LeftOf(n, m) /\ m \notin A[n] /\ n \notin A[m]
  <2>1. PICK a \in D : OnLeft(a, m) /\ OnRight(a, n)
    BY <1>6, <1>9
  <2>2. m \notin A[n] /\ n \notin A[m]
    BY <1>5, <2>1
  <2>3. ASSUME NEW b \in D, OnLeft(b, n), OnRight(b, m) PROVE FALSE
    <3>1. a \in A[m] /\ a \in A[n] /\ b \in A[m] /\ b \in A[n]
      BY <1>5, <2>1, <2>3
    <3>2. a # b
      BY <1>5, <2>1, <2>3
    <3>3. a \in A[b] \/ b \in A[a]
      BY <1>3, <3>1
    <3>4. CASE a \in A[b]
      <4>1. OnLeft(a, b) \/ OnRight(a, b)
        BY <1>5, <3>2, <3>4
      <4> QED BY <1>5, <2>1, <3>1, <4>1
    <3>5. CASE b \in A[a]
      <4>1. OnLeft(b, a) \/ OnRight(b, a)
        BY <1>5, <3>2, <3>5
      <4> QED BY <1>5, <2>3, <3>1, <4>1
    <3> QED BY <3>3, <3>4, <3>5
  <2> QED BY <1>6, <2>2, <2>3
<1>10. ASSUME NEW m \in D, NEW n \in D, m \notin A[n], n \notin A[m]
       PROVE  LeftOf(m, n) \/ LeftOf(n, m)
  <2>1. \A x \in D : x \in {y \in D : 1 \in A[y]}
    <3> DEFINE S == {y \in D : 1 \in A[y]}
    <3>1. \A y \in D : y = 1 \/ tree[y].parent \in S => y \in S
      BY <1>1
    <3>2. \A y \in D : y \in S
      <4> HIDE DEF S
      <4> QED BY <3>1, FromParents DEF D
    <3> QED BY <3>2
  <2> DEFINE T == A[m] \cap A[n]
  <2>2. T \subseteq 0 .. Len(tree) /\ T # {}
    BY <1>1, <2>1
  <2> HIDE DEF T
  <2>3. PICK a \in T : \A g \in T : a >= g
    BY <1>7, <2>2, GreatestOK
  <2>4. a \in A[m] /\ a \in A[n] /\ a \in D /\ a # m /\ a # n
    BY <1>1, <1>10, <2>3 DEF T
  <2>5. (OnLeft(a, m) \/ OnRight(a, m)) /\ (OnLeft(a, n) \/ OnRight(a, n))
    BY <1>5, <2>4
  <2>6. ASSUME NEW c \in {tree[a].left, tree[a].right} \ {None}, c \in A[m], c \in A[n] PROVE FALSE
    <3>1. c \in T /\ a < c /\ c \in Nat /\ a \in Nat
      BY <1>1, <1>2, <2>4, <2>6 DEF T
    <3> QED BY <2>3, <3>1
  <2>7. ~(OnLeft(a, m) /\ OnLeft(a, n)) /\ ~(OnRight(a, m) /\ OnRight(a, n))
    BY <1>4, <2>4, <2>6
  <2> QED BY <1>6, <2>4, <2>5, <2>7
<1> QED BY <1>8, <1>9, <1>10 DEF A, D

LEMMA DepthOK ==
  ASSUME TreeLinked(tree)
  PROVE  \A n \in DOMAIN tree :
           /\ Depth(n) \in Nat
           /\ \A a \in Above(tree)[n] : a # n => Depth(a) < Depth(n)
           /\ \A c \in {tree[n].left, tree[n].right} \ {None} : Depth(c) = Depth(n) + 1
<1> DEFINE A == Above(tree)
           D == DOMAIN tree
<1>1. \A n \in D : /\ n \in A[n] /\ A[n] \subseteq D /\ n \in Nat
                   /\ \A a \in A[n] : a <= n
  BY AboveIs, LinkedParts
<1>2. \A n \in D : \A c \in {tree[n].left, tree[n].right} \ {None} :
        c \in D /\ n < c /\ A[c] = {c} \cup A[n]
  BY AboveIs
<1>3. \A n \in D : \A a \in A[n] : A[a] \subseteq A[n]
  BY AboveIsChain
<1>4. D = 1 .. Len(tree) /\ Len(tree) \in Nat
  BY LinkedParts
<1>5. IsFiniteSet(D)
  BY <1>4, FS_Interval
<1>6. \A n \in D : Depth(n) = Cardinality(A[n])
  BY DEF Depth
<1> HIDE DEF A, D
<1>7. \A n \in D : IsFiniteSet(A[n]) /\ Depth(n) \in Nat
  BY <1>1, <1>5, <1>6, FS_Subset, FS_CardinalityType
<1>8. ASSUME NEW n \in D, NEW a \in A[n], a # n PROVE Depth(a) < Depth(n)
  <2>1. a \in D /\ A[a] \subseteq A[n] /\ n \in A[n]
    BY <1>1, <1>3
  <2>2. a <= n /\ a \in Nat /\ n \in Nat
    BY <1>1, <2>1
  <2>3. n \notin A[a]
    BY <1>1, <1>8, <2>1, <2>2
  <2>4. Cardinality(A[a]) <= Cardinality(A[n]) /\ (Cardinality(A[a]) = Cardinality(A[n]) => A[a] = A[n])
    BY <1>7, <2>1, FS_Subset
  <2>5. Cardinality(A[a]) # Cardinality(A[n])
    BY <2>1, <2>3, <2>4
  <2> QED BY <1>6, <1>7, <2>1, <2>4, <2>5
<1>9. ASSUME NEW n \in D, NEW c \in {tree[n].left, tree[n].right} \ {None} PROVE Depth(c) = Depth(n) + 1
  <2>1. c \in D /\ A[c] = A[n] \cup {c} /\ n < c
    BY <1>2
  <2>2. c \notin A[n]
    BY <1>1, <2>1
  <2>3. Cardinality(A[n] \cup {c}) = Cardinality(A[n]) + 1
    BY <1>7, <2>2, FS_AddElement
  <2> QED BY <1>6, <2>1, <2>3
<1> QED BY <1>7, <1>8, <1>9 DEF A, D

(* Each order is total.                                                    *)
LEMMA PrecedesOK ==
  ASSUME TreeLinked(tree), NEW order \in Orders
  PROVE  \A m, n \in DOMAIN tree :
           /\ Precedes(order, m, n) => ~Precedes(order, n, m)
           /\ m # n => Precedes(order, m, n) \/ Precedes(order, n, m)
<1> DEFINE A == Above(tree)
           D == DOMAIN tree
<1>1. \A m, n \in D : /\ LeftOf(m, n) => ~LeftOf(n, m) /\ m \notin A[n] /\ n \notin A[m]
                      /\ m \in A[n] \/ n \in A[m] \/ LeftOf(m, n) \/ LeftOf(n, m)
  BY LeftOfOK
<1>2. \A m, n \in D : m \in A[n] /\ n \in A[m] => m = n
  <2> SUFFICES ASSUME NEW m \in D, NEW n \in D, m \in A[n], n \in A[m] PROVE m = n
    OBVIOUS
  <2>1. m <= n /\ n <= m /\ m \in Nat /\ n \in Nat
    BY AboveIs, LinkedParts
  <2> QED BY <2>1
<1>3. \A a, n \in D :
        /\ OnLeft(a, n) \/ OnRight(a, n) => a \in A[n] /\ a # n
        /\ a \in A[n] /\ a # n => OnLeft(a, n) \/ OnRight(a, n)
        /\ ~(OnLeft(a, n) /\ OnRight(a, n))
  BY SidesOK
<1>4. \A n \in D : Depth(n) \in Nat /\ \A a \in A[n] : a # n => Depth(a) < Depth(n)
  BY DepthOK
<1> HIDE DEF A, D
<1>5. CASE order = "pre"
  <2>1. \A m, n \in D : Precedes(order, m, n) <=> (m # n /\ m \in A[n]) \/ LeftOf(m, n)
    BY <1>5 DEF Precedes, A
  <2> QED BY <1>1, <1>2, <2>1 DEF D
<1>6. CASE order = "in"
  <2>1. \A m, n \in D : Precedes(order, m, n) <=> OnLeft(n, m) \/ OnRight(m, n) \/ LeftOf(m, n)
    BY <1>6 DEF Precedes
  <2> QED BY <1>1, <1>2, <1>3, <2>1 DEF D
<1>7. CASE order = "post"
  <2>1. \A m, n \in D : Precedes(order, m, n) <=> (m # n /\ n \in A[m]) \/ LeftOf(m, n)
    BY <1>7 DEF Precedes, A
  <2> QED BY <1>1, <1>2, <2>1 DEF D
<1>8. CASE order = "bfs"
  <2>1. \A m, n \in D :
          Precedes(order, m, n) <=> Depth(m) < Depth(n) \/ (Depth(m) = Depth(n) /\ LeftOf(m, n))
    BY <1>8 DEF Precedes
  <2>2. ASSUME NEW m \in D, NEW n \in D, Precedes(order, m, n) PROVE ~Precedes(order, n, m)
    BY <1>1, <1>4, <2>1, <2>2
  <2>3. ASSUME NEW m \in D, NEW n \in D, m # n PROVE Precedes(order, m, n) \/ Precedes(order, n, m)
    <3>1. CASE Depth(m) = Depth(n)
      <4>1. ~(Depth(m) < Depth(n)) /\ ~(Depth(n) < Depth(m))
        BY <1>4, <3>1
      <4>2. m \notin A[n] /\ n \notin A[m]
        BY <1>4, <2>3, <4>1
      <4> QED BY <1>1, <2>1, <3>1, <4>2
    <3>2. CASE Depth(m) # Depth(n)
      <4>1. Depth(m) < Depth(n) \/ Depth(n) < Depth(m)
        BY <1>4, <3>2
      <4> QED BY <2>1, <4>1
    <3> QED BY <3>1, <3>2
  <2> QED BY <2>2, <2>3 DEF D
<1> QED BY <1>5, <1>6, <1>7, <1>8 DEF Orders

(* What was visited is the beginning of an order, and still is after a     *)
(* visit to the first of the others.                                       *)
Visited(order, seen) ==
  /\ seen \in Seq(DOMAIN tree)
  /\ \A k, l \in DOMAIN seen : k < l => Precedes(order, seen[k], seen[l])
  /\ \A m \in DOMAIN tree, n \in Range(seen) : Precedes(order, m, n) => m \in Range(seen)

LEMMA VisitOK ==
  ASSUME TreeLinked(tree), NEW order \in Orders, NEW seen, Visited(order, seen),
         NEW x \in DOMAIN tree, x \notin Range(seen),
         \A m \in DOMAIN tree \ Range(seen) : m # x => Precedes(order, x, m)
  PROVE  /\ Visited(order, Append(seen, x)) /\ Range(Append(seen, x)) = Range(seen) \cup {x}
         /\ Append(seen, x) # <<>> /\ Last(Append(seen, x)) = x
<1> DEFINE D == DOMAIN tree
           after == Append(seen, x)
<1>1. \A m, n \in D : /\ Precedes(order, m, n) => ~Precedes(order, n, m)
                      /\ m # n => Precedes(order, m, n) \/ Precedes(order, n, m)
  BY PrecedesOK
<1>2. /\ seen \in Seq(D) /\ Len(seen) \in Nat /\ DOMAIN seen = 1 .. Len(seen)
      /\ after \in Seq(D) /\ Len(after) = Len(seen) + 1 /\ DOMAIN after = 1 .. Len(seen) + 1
      /\ after[Len(seen) + 1] = x /\ \A k \in 1 .. Len(seen) : after[k] = seen[k]
      /\ \A k \in 1 .. Len(seen) : seen[k] \in D /\ seen[k] \in Range(seen)
  BY AppendProperties, ElementOfSeq, LenProperties DEF Visited, Range
<1>3. Range(after) = Range(seen) \cup {x}
  BY <1>2 DEF Range
<1> HIDE DEF D, after
<1>4. ASSUME NEW m \in D, NEW n \in Range(after), Precedes(order, m, n) PROVE m \in Range(after)
  <2>1. CASE n \in Range(seen)
    BY <1>3, <1>4, <2>1 DEF Visited, D
  <2>2. CASE n = x
    <3>1. ~Precedes(order, x, m)
      BY <1>1, <1>4, <2>2 DEF D
    <3> QED BY <1>3, <3>1 DEF D
  <2> QED BY <1>3, <2>1, <2>2
<1>5. ASSUME NEW k \in DOMAIN after, NEW l \in DOMAIN after, k < l
      PROVE  Precedes(order, after[k], after[l])
  <2>1. k \in 1 .. Len(seen) /\ (l \in 1 .. Len(seen) \/ l = Len(seen) + 1)
    BY <1>2, <1>5
  <2>2. CASE l \in 1 .. Len(seen)
    BY <1>2, <1>5, <2>1, <2>2 DEF Visited
  <2>3. CASE l = Len(seen) + 1
    <3>1. seen[k] \in D /\ seen[k] \in Range(seen) /\ after[k] = seen[k] /\ after[l] = x /\ x \in D
      BY <1>2, <2>1, <2>3 DEF D
    <3>2. ~Precedes(order, x, seen[k])
      BY <3>1 DEF Visited, D
    <3> QED BY <1>1, <3>1, <3>2
  <2> QED BY <2>1, <2>2, <2>3
<1>6. after # <<>> /\ Last(after) = x
  BY <1>2 DEF Last
<1>7. Visited(order, after)
  BY <1>2, <1>4, <1>5 DEF Visited, D
<1> QED BY <1>3, <1>6, <1>7 DEF after

-----------------------------------------------------------------------------
(* The inductive invariant.  A traversal under way has visited all but     *)
(* what its variables say: the nodes below the one it is at, and of those  *)
(* on its stack or in its queue each order its own.  Of what is left, the  *)
(* order has the next to be visited first.                                 *)
IsBelow(n, m) == n # None /\ n \in Above(tree)[m]

PreRuns(s) ==
  LET vs == s.stack.values IN
  /\ \A m \in DOMAIN tree :
       m \notin Range(s.seen) <=> IsBelow(s.node, m) \/ \E k \in DOMAIN vs : IsBelow(vs[k], m)
  /\ \A k, l \in DOMAIN vs : k < l => LeftOf(vs[l], vs[k])
  /\ s.node # None => \A k \in DOMAIN vs : LeftOf(s.node, vs[k])

InRuns(s) ==
  LET vs == s.stack.values IN
  /\ \A m \in DOMAIN tree :
       m \notin Range(s.seen)
         <=> IsBelow(s.node, m) \/ \E k \in DOMAIN vs : m = vs[k] \/ OnRight(vs[k], m)
  /\ \A k, l \in DOMAIN vs : k < l => OnLeft(vs[k], vs[l])
  /\ s.node # None => \A k \in DOMAIN vs : OnLeft(vs[k], s.node)

(* Where a traversal in post-order went from a node on its stack.          *)
Went(s, k) ==
  IF k < Len(s.stack.values) THEN s.stack.values[k + 1]
  ELSE IF s.node # None THEN s.node
  ELSE IF s.seen = <<>> THEN None ELSE Last(s.seen)
PostRuns(s) ==
  LET vs == s.stack.values IN
  /\ \A m \in DOMAIN tree :
       m \notin Range(s.seen)
         <=> \/ IsBelow(s.node, m)
             \/ \E k \in DOMAIN vs : m = vs[k] \/ (Went(s, k) # tree[vs[k]].right /\ OnRight(vs[k], m))
  /\ \A k, l \in DOMAIN vs : k < l =>
       vs[k + 1] \in {tree[vs[k]].left, tree[vs[k]].right} /\ IsBelow(vs[k + 1], vs[l])
  /\ s.node # None /\ vs # <<>> => s.node \in {tree[Last(vs)].left, tree[Last(vs)].right}

BfsRuns(s) ==
  LET q == s.stack.values IN
  /\ \A m \in DOMAIN tree : m \notin Range(s.seen) <=> \E k \in DOMAIN q : IsBelow(q[k], m)
  /\ \A k, l \in DOMAIN q : k < l => Precedes("bfs", q[k], q[l])
  /\ \A k \in DOMAIN q : /\ Depth(q[k]) <= Depth(q[1]) + 1
                         /\ q[k] # 1 => tree[q[k]].parent \in Range(s.seen)

WalkType ==
  [order : Orders, node : DOMAIN tree \cup {None}, seen : Seq(DOMAIN tree),
   stack : [values : Seq(DOMAIN tree), size : Nat], limit : Nat, ok : BOOLEAN, done : BOOLEAN]
WalkOK(s) ==
  /\ s \in WalkType /\ Visited(s.order, s.seen)
  /\ s.done /\ s.ok => Range(s.seen) = DOMAIN tree
  /\ ~s.done => /\ s.order = "pre" => PreRuns(s)
                /\ s.order = "in" => InRuns(s)
                /\ s.order = "post" => PostRuns(s)
                /\ s.order = "bfs" => BfsRuns(s)

TreeInv ==
  /\ Len(tree) <= MaxNodes /\ TreeLinked(tree) /\ TreeIsSearchable
  /\ walk = NoWalk \/ WalkOK(walk)

LEMMA BelowOK ==
  ASSUME TreeLinked(tree)
  PROVE  \A n, m \in DOMAIN tree :
           /\ n # None /\ tree[n].left \in DOMAIN tree \cup {None} /\ tree[n].right \in DOMAIN tree \cup {None}
           /\ IsBelow(n, m) <=> n \in Above(tree)[m]
           /\ IsBelow(n, m) <=> m = n \/ OnLeft(n, m) \/ OnRight(n, m)
           /\ OnLeft(n, m) <=> IsBelow(tree[n].left, m)
           /\ OnRight(n, m) <=> IsBelow(tree[n].right, m)
           /\ ~OnLeft(n, n) /\ ~OnRight(n, n) /\ ~(OnLeft(n, m) /\ OnRight(n, m))
           /\ \A a \in DOMAIN tree : IsBelow(a, n) /\ IsBelow(n, m) => IsBelow(a, m)
           /\ IsBelow(n, m) /\ IsBelow(m, n) => m = n
           /\ \A a \in DOMAIN tree : OnLeft(a, n) /\ IsBelow(n, m) => OnLeft(a, m)
           /\ \A a \in DOMAIN tree : OnLeft(a, n) /\ OnRight(a, m) => LeftOf(n, m)
<1> DEFINE A == Above(tree)
           D == DOMAIN tree
<1>1. \A n \in D : /\ n \in A[n] /\ n # None /\ n \in Nat /\ \A a \in A[n] : a <= n
                   /\ \A c \in {tree[n].left, tree[n].right} \ {None} : c \in D
  BY AboveIs, LinkedParts
<1>2. \A n \in D : \A a \in A[n] : A[a] \subseteq A[n]
  BY AboveIsChain
<1>3. \A a, n \in D :
        /\ OnLeft(a, n) \/ OnRight(a, n) => a \in A[n] /\ a # n
        /\ a \in A[n] /\ a # n => OnLeft(a, n) \/ OnRight(a, n)
        /\ ~(OnLeft(a, n) /\ OnRight(a, n))
        /\ \A m \in D : n \in A[m] => (OnLeft(a, n) => OnLeft(a, m))
  BY SidesOK
<1>4. \A n, m \in D : /\ OnLeft(n, m) <=> IsBelow(tree[n].left, m)
                      /\ OnRight(n, m) <=> IsBelow(tree[n].right, m)
  BY DEF OnLeft, OnRight, IsBelow
<1>5. \A n, m \in D : IsBelow(n, m) <=> n \in A[m]
  BY <1>1 DEF IsBelow
<1>6. \A n, m \in D : IsBelow(n, m) <=> m = n \/ OnLeft(n, m) \/ OnRight(n, m)
  BY <1>1, <1>3, <1>5
<1>7. \A a, n, m \in D : OnLeft(a, n) /\ OnRight(a, m) => LeftOf(n, m)
  BY DEF LeftOf
<1> HIDE DEF A, D
<1>8. \A n, m \in D : IsBelow(n, m) /\ IsBelow(m, n) => m = n
  <2> SUFFICES ASSUME NEW n \in D, NEW m \in D, IsBelow(n, m), IsBelow(m, n) PROVE m = n
    OBVIOUS
  <2>1. n <= m /\ m <= n /\ m \in Nat /\ n \in Nat
    BY <1>1, <1>5
  <2> QED BY <2>1
<1>9. \A a, n, m \in D : IsBelow(a, n) /\ IsBelow(n, m) => IsBelow(a, m)
  BY <1>2, <1>5
<1>10. \A a, n, m \in D : OnLeft(a, n) /\ IsBelow(n, m) => OnLeft(a, m)
  BY <1>3, <1>5
<1>11. \A n \in D : /\ tree[n].left \in D \cup {None} /\ tree[n].right \in D \cup {None}
                    /\ ~OnLeft(n, n) /\ ~OnRight(n, n)
  BY <1>1, <1>3
<1> QED BY <1>1, <1>3, <1>4, <1>5, <1>6, <1>7, <1>8, <1>9, <1>10, <1>11 DEF A, D

LEMMA LeftOfIs ==
  ASSUME TreeLinked(tree)
  PROVE  \A m, n \in DOMAIN tree :
           /\ LeftOf(m, n) => ~LeftOf(n, m) /\ ~IsBelow(m, n) /\ ~IsBelow(n, m)
           /\ \A x, y \in DOMAIN tree : IsBelow(m, x) /\ IsBelow(n, y) /\ LeftOf(m, n) => LeftOf(x, y)
BY LeftOfOK, BelowOK

(* Stacks.                                                                 *)
LEMMA FrontOK ==
  ASSUME NEW S, NEW vs \in Seq(S), vs # <<>>
  PROVE  /\ Front(vs) \in Seq(S) /\ Len(vs) \in Nat \ {0} /\ DOMAIN vs = 1 .. Len(vs)
         /\ Len(Front(vs)) = Len(vs) - 1 /\ DOMAIN Front(vs) = 1 .. Len(vs) - 1
         /\ \A k \in 1 .. Len(vs) - 1 : Front(vs)[k] = vs[k]
         /\ Last(vs) = vs[Len(vs)] /\ Last(vs) \in S
<1>1. Len(vs) \in Nat \ {0} /\ DOMAIN vs = 1 .. Len(vs)
  BY LenProperties, EmptySeq
<1>2. \A k \in 1 .. Len(vs) : vs[k] \in S
  BY ElementOfSeq
<1> DEFINE f == SubSeq(vs, 1, Len(vs) - 1)
<1>3. /\ f \in Seq(S) /\ Len(f) = (IF 1 <= Len(vs) - 1 THEN Len(vs) - 1 - 1 + 1 ELSE 0)
      /\ \A k \in 1 .. Len(vs) - 1 - 1 + 1 : f[k] = vs[1 + k - 1]
  BY <1>1, <1>2, SubSeqProperties
<1> HIDE DEF f
<1>4. Len(f) = Len(vs) - 1
  <2>1. ASSUME NEW n \in Nat \ {0} PROVE (IF 1 <= n - 1 THEN n - 1 - 1 + 1 ELSE 0) = n - 1
    OBVIOUS
  <2> QED BY <1>1, <1>3, <2>1
<1>5. DOMAIN f = 1 .. Len(vs) - 1
  BY <1>3, <1>4, LenProperties
<1>6. \A k \in 1 .. Len(vs) - 1 : f[k] = vs[k]
  <2> SUFFICES ASSUME NEW k \in 1 .. Len(vs) - 1 PROVE f[k] = vs[k]
    OBVIOUS
  <2>1. k \in 1 .. Len(vs) - 1 - 1 + 1 /\ 1 + k - 1 = k
    BY <1>1
  <2> QED BY <1>3, <2>1
<1> QED BY <1>1, <1>2, <1>3, <1>4, <1>5, <1>6 DEF f, Front, Last

LEMMA PushOK ==
  ASSUME NEW S, NEW vs \in Seq(S), NEW x \in S
  PROVE  /\ Append(vs, x) \in Seq(S) /\ Len(vs) \in Nat /\ DOMAIN vs = 1 .. Len(vs)
         /\ Len(Append(vs, x)) = Len(vs) + 1 /\ DOMAIN Append(vs, x) = 1 .. Len(vs) + 1
         /\ \A k \in 1 .. Len(vs) : Append(vs, x)[k] = vs[k] /\ vs[k] \in S
         /\ Append(vs, x)[Len(vs) + 1] = x /\ Last(Append(vs, x)) = x /\ Append(vs, x) # <<>>
<1>1. /\ Append(vs, x) \in Seq(S) /\ Len(Append(vs, x)) = Len(vs) + 1
      /\ \A k \in 1 .. Len(vs) : Append(vs, x)[k] = vs[k]
      /\ Append(vs, x)[Len(vs) + 1] = x
  BY AppendProperties
<1>2. Len(vs) \in Nat /\ DOMAIN vs = 1 .. Len(vs) /\ DOMAIN Append(vs, x) = 1 .. Len(vs) + 1
  BY <1>1, LenProperties
<1>3. \A k \in 1 .. Len(vs) : vs[k] \in S
  BY ElementOfSeq
<1> QED BY <1>1, <1>2, <1>3 DEF Last

-----------------------------------------------------------------------------
(* The passes.                                                             *)
LEMMA EndOK ==
  ASSUME NEW s \in WalkType, Visited(s.order, s.seen)
  PROVE  /\ WalkOK(Fail(s))
         /\ Range(s.seen) = DOMAIN tree => WalkOK(Done(s))
<1>1. /\ Fail(s) \in WalkType /\ Fail(s).done /\ ~Fail(s).ok
      /\ Fail(s).order = s.order /\ Fail(s).seen = s.seen
  BY DEF Fail, WalkType
<1>2. /\ Done(s) \in WalkType /\ Done(s).done
      /\ Done(s).order = s.order /\ Done(s).seen = s.seen
  BY DEF Done, WalkType
<1> QED BY <1>1, <1>2 DEF WalkOK

LEMMA PreKeeps ==
  ASSUME TreeLinked(tree), NEW s, WalkOK(s), s.order = "pre", ~s.done
  PROVE  WalkOK(PreOrder(s))
<1> DEFINE D == DOMAIN tree
           vs == s.stack.values
           n == s.node
           seen == s.seen
           new == PreOrder(s)
<1>1. s \in WalkType /\ Visited("pre", seen) /\ PreRuns(s)
  BY DEF WalkOK
<1>2. /\ vs \in Seq(D) /\ seen \in Seq(D) /\ n \in D \cup {None} /\ s.stack.size \in Nat
      /\ s.stack \in [values : Seq(D), size : Nat]
  BY <1>1 DEF WalkType
<1>3. /\ Len(vs) \in Nat /\ DOMAIN vs = 1 .. Len(vs) /\ (vs = <<>> <=> Len(vs) = 0)
      /\ \A k \in DOMAIN vs : vs[k] \in D
  BY <1>2, LenProperties, ElementOfSeq, EmptySeq
<1>4. /\ \A m \in D : m \notin Range(seen) <=> IsBelow(n, m) \/ \E k \in DOMAIN vs : IsBelow(vs[k], m)
      /\ \A k, l \in DOMAIN vs : k < l => LeftOf(vs[l], vs[k])
      /\ n # None => \A k \in DOMAIN vs : LeftOf(n, vs[k])
  BY <1>1 DEF PreRuns
<1>5. \A a, m \in D :
        /\ a # None /\ tree[a].left \in D \cup {None} /\ tree[a].right \in D \cup {None}
        /\ IsBelow(a, m) <=> a \in Above(tree)[m]
        /\ IsBelow(a, m) <=> m = a \/ IsBelow(tree[a].left, m) \/ IsBelow(tree[a].right, m)
        /\ ~IsBelow(tree[a].left, a) /\ ~IsBelow(tree[a].right, a)
  BY BelowOK
<1>6. \A a, m \in D :
        /\ LeftOf(a, m) => ~IsBelow(a, m) /\ ~IsBelow(m, a)
        /\ \A x, y \in D : IsBelow(a, x) /\ IsBelow(m, y) /\ LeftOf(a, m) => LeftOf(x, y)
  BY LeftOfIs
<1>7. \A m \in D : ~IsBelow(None, m)
  BY DEF IsBelow
<1> HIDE DEF D, vs, n, seen, new
<1>8. CASE n # None
  <2> DEFINE l == tree[n].left
             r == tree[n].right
             v == Append(seen, n)
  <2>1. n \in D /\ l \in D \cup {None} /\ r \in D \cup {None} /\ IsBelow(n, n) /\ n \notin Range(seen)
    BY <1>2, <1>4, <1>5, <1>8
  <2>2. ASSUME NEW m \in D, m \notin Range(seen), m # n PROVE Precedes("pre", n, m)
    <3>1. CASE IsBelow(n, m)
      BY <1>5, <2>1, <2>2, <3>1 DEF Precedes
    <3>2. CASE \E k \in DOMAIN vs : IsBelow(vs[k], m)
      <4>1. LeftOf(n, m)
        BY <1>3, <1>4, <1>6, <1>8, <2>1, <3>2
      <4> QED BY <4>1 DEF Precedes
    <3> QED BY <1>4, <2>2, <3>1, <3>2
  <2>3. Visited("pre", v) /\ Range(v) = Range(seen) \cup {n} /\ v \in Seq(D)
    <3>1. "pre" \in Orders
      BY DEF Orders
    <3>2. Visited("pre", v) /\ Range(v) = Range(seen) \cup {n}
      BY <1>1, <2>1, <2>2, <3>1, VisitOK DEF D
    <3> QED BY <3>2 DEF Visited, D
  <2>4. ASSUME NEW m \in D
        PROVE  m \notin Range(v) <=> IsBelow(l, m) \/ IsBelow(r, m) \/ \E k \in DOMAIN vs : IsBelow(vs[k], m)
    <3>1. \A k \in DOMAIN vs : ~IsBelow(vs[k], n)
      BY <1>3, <1>4, <1>6, <1>8, <2>1
    <3> QED BY <1>4, <1>5, <2>1, <2>3, <3>1
  <2>5. Visit(s, n) \in WalkType /\ Visit(s, n).order = "pre" /\ Visit(s, n).seen = v
    BY <1>1, <2>3 DEF Visit, WalkType, D, v, seen
  <2> HIDE DEF l, r, v
  <2>6. ASSUME NEW w, w \in WalkType, w.order = "pre", ~w.done, w.seen = v, w.node = l,
               IF r = None THEN w.stack.values = vs ELSE w.stack.values = Append(vs, r)
        PROVE  WalkOK(w)
    <3> DEFINE ws == w.stack.values
    <3>1. \A m \in D : (\E k \in DOMAIN ws : IsBelow(ws[k], m))
                         <=> IsBelow(r, m) \/ \E k \in DOMAIN vs : IsBelow(vs[k], m)
      <4>1. CASE r = None
        BY <1>7, <2>6, <4>1
      <4>2. CASE r # None
        <5>1. /\ DOMAIN ws = 1 .. Len(vs) + 1 /\ ws[Len(vs) + 1] = r
              /\ \A k \in 1 .. Len(vs) : ws[k] = vs[k]
          BY <1>2, <2>1, <2>6, <4>2, PushOK
        <5>2. \A k : k \in DOMAIN ws <=> k \in DOMAIN vs \/ k = Len(vs) + 1
          BY <1>3, <5>1
        <5> HIDE DEF ws
        <5> QED BY <1>3, <5>1, <5>2
      <4> QED BY <4>1, <4>2
    <3>2. \A m \in D : IsBelow(l, m) \/ IsBelow(r, m) => IsBelow(n, m)
      BY <1>5, <2>1 DEF l, r
    <3>3. l # None /\ r # None => LeftOf(l, r)
      <4>1. \A a \in D : IsBelow(a, a)
        BY <1>5
      <4>2. l # None /\ r # None => OnLeft(n, l) /\ OnRight(n, r)
        BY <2>1, <4>1, BelowOK DEF l, r, D
      <4> QED BY <2>1, <4>2 DEF LeftOf, D
    <3>4. \A k \in DOMAIN vs : /\ l # None => LeftOf(l, vs[k])
                               /\ r # None => LeftOf(r, vs[k])
      <4>1. \A a \in D : IsBelow(a, a)
        BY <1>5
      <4> QED BY <1>3, <1>4, <1>6, <1>8, <2>1, <3>2, <4>1
    <3>5. \A k, j \in DOMAIN ws : k < j => LeftOf(ws[j], ws[k])
      <4>1. CASE r = None
        BY <1>4, <2>6, <4>1
      <4>2. CASE r # None
        <5>1. /\ DOMAIN ws = 1 .. Len(vs) + 1 /\ ws[Len(vs) + 1] = r
              /\ \A k \in 1 .. Len(vs) : ws[k] = vs[k]
          BY <1>2, <2>1, <2>6, <4>2, PushOK
        <5> HIDE DEF ws
        <5> SUFFICES ASSUME NEW k \in DOMAIN ws, NEW j \in DOMAIN ws, k < j PROVE LeftOf(ws[j], ws[k])
          OBVIOUS
        <5>2. k \in DOMAIN vs /\ ws[k] = vs[k] /\ (j \in DOMAIN vs \/ j = Len(vs) + 1)
          BY <1>3, <5>1
        <5> QED BY <1>3, <1>4, <3>4, <4>2, <5>1, <5>2
      <4> QED BY <4>1, <4>2
    <3>6. l # None => \A k \in DOMAIN ws : LeftOf(l, ws[k])
      <4>1. CASE r = None
        BY <2>6, <3>4, <4>1
      <4>2. CASE r # None
        <5>1. /\ DOMAIN ws = 1 .. Len(vs) + 1 /\ ws[Len(vs) + 1] = r
              /\ \A k \in 1 .. Len(vs) : ws[k] = vs[k]
          BY <1>2, <2>1, <2>6, <4>2, PushOK
        <5>2. \A k : k \in DOMAIN ws <=> k \in DOMAIN vs \/ k = Len(vs) + 1
          BY <1>3, <5>1
        <5> HIDE DEF ws
        <5> QED BY <1>3, <3>3, <3>4, <4>2, <5>1, <5>2
      <4> QED BY <4>1, <4>2
    <3>7. PreRuns(w)
      BY <2>4, <2>6, <3>1, <3>5, <3>6 DEF PreRuns, D
    <3> QED BY <2>3, <2>6, <3>7 DEF WalkOK
  <2>7. CASE r = None
    <3>1. new = [Visit(s, n) EXCEPT !.node = l]
      BY <1>8, <2>7 DEF PreOrder, new, n, l, r
    <3>2. /\ new \in WalkType /\ new.order = "pre" /\ ~new.done /\ new.seen = v /\ new.node = l
          /\ new.stack.values = vs
      BY <1>1, <2>1, <2>3, <3>1 DEF Visit, WalkType, D, v, seen, vs
    <3> QED BY <2>6, <2>7, <3>2 DEF new
  <2>8. CASE r # None /\ CanPush(s.stack, s.limit)
    <3>1. new = [Visit(s, n) EXCEPT !.node = l, !.stack = Pushed(@, r)]
      BY <1>8, <2>8 DEF PreOrder, new, n, l, r
    <3>2. Pushed(s.stack, r) \in [values : Seq(D), size : Nat] /\ Pushed(s.stack, r).values = Append(vs, r)
      BY <1>2, <2>1, <2>8, PushOK DEF Pushed, vs
    <3>3. /\ new \in WalkType /\ new.order = "pre" /\ ~new.done /\ new.seen = v /\ new.node = l
          /\ new.stack = Pushed(s.stack, r)
      BY <1>1, <2>1, <2>3, <3>1, <3>2 DEF Visit, WalkType, D, v, seen
    <3> QED BY <2>6, <2>8, <3>2, <3>3 DEF new
  <2>9. CASE r # None /\ ~CanPush(s.stack, s.limit)
    <3>1. new = Fail(Visit(s, n))
      BY <1>8, <2>9 DEF PreOrder, new, n, l, r
    <3> QED BY <2>3, <2>5, <3>1, EndOK DEF new
  <2> QED BY <2>7, <2>8, <2>9
<1>9. CASE n = None /\ Len(vs) > 0
  <2> DEFINE f == Front(vs)
  <2>1. new = [s EXCEPT !.node = Top(s.stack), !.stack = Popped(@)]
    BY <1>3, <1>9 DEF PreOrder, new, n, Count, vs
  <2>2. /\ f \in Seq(D) /\ DOMAIN f = 1 .. Len(vs) - 1 /\ Last(vs) = vs[Len(vs)]
        /\ \A k \in 1 .. Len(vs) - 1 : f[k] = vs[k]
        /\ Len(vs) \in DOMAIN vs
    <3>1. vs # <<>> /\ Len(vs) \in DOMAIN vs
      BY <1>3, <1>9
    <3>2. vs \in Seq(D)
      BY <1>2
    <3> HIDE DEF f
    <3>3. /\ Front(vs) \in Seq(D) /\ DOMAIN Front(vs) = 1 .. Len(vs) - 1 /\ Last(vs) = vs[Len(vs)]
          /\ \A k \in 1 .. Len(vs) - 1 : Front(vs)[k] = vs[k]
      BY <3>1, <3>2, FrontOK
    <3> QED BY <3>1, <3>3 DEF f
  <2>3. Last(vs) \in D
    BY <1>3, <2>2
  <2> HIDE DEF f
  <2>4. Popped(s.stack) \in [values : Seq(D), size : Nat] /\ Popped(s.stack).values = f
    BY <1>2, <2>2 DEF Popped, f, vs
  <2>5. /\ new \in WalkType /\ new.order = "pre" /\ ~new.done /\ new.seen = seen
        /\ new.node = vs[Len(vs)] /\ new.stack.values = f
    BY <1>1, <2>1, <2>2, <2>3, <2>4 DEF WalkType, D, seen, Top, vs
  <2>6. \A m \in D : IsBelow(vs[Len(vs)], m) \/ (\E k \in DOMAIN f : IsBelow(f[k], m))
                       <=> \E k \in DOMAIN vs : IsBelow(vs[k], m)
    <3>1. \A k : k \in DOMAIN vs <=> k \in DOMAIN f \/ k = Len(vs)
      BY <1>3, <1>9, <2>2
    <3> QED BY <2>2, <3>1
  <2>7. \A k \in DOMAIN f : k \in DOMAIN vs /\ k < Len(vs) /\ f[k] = vs[k]
    BY <1>3, <2>2
  <2>8. PreRuns(new)
    <3>1. \A m \in D : m \notin Range(new.seen)
            <=> IsBelow(new.node, m) \/ \E k \in DOMAIN new.stack.values : IsBelow(new.stack.values[k], m)
      BY <1>4, <1>7, <1>9, <2>5, <2>6
    <3>2. \A k, l \in DOMAIN f : k < l => LeftOf(f[l], f[k])
      BY <1>4, <2>7
    <3>3. \A k \in DOMAIN f : LeftOf(vs[Len(vs)], f[k])
      BY <1>4, <2>2, <2>7
    <3> QED BY <2>5, <3>1, <3>2, <3>3 DEF PreRuns, D
  <2> QED BY <1>1, <2>5, <2>8 DEF WalkOK, new
<1>10. CASE n = None /\ Len(vs) = 0
  <2>1. new = Done(s)
    BY <1>10 DEF PreOrder, new, n, Count, vs
  <2>2. DOMAIN vs = {}
    BY <1>3, <1>10
  <2>3. \A m \in D : m \in Range(seen)
    BY <1>4, <1>7, <1>10, <2>2
  <2>4. Range(seen) = D
    BY <1>1, <2>3, RangeOfSeq DEF Visited, D
  <2> QED BY <1>1, <2>1, <2>4, EndOK DEF new, D, seen
<1> QED BY <1>3, <1>8, <1>9, <1>10

LEMMA InKeeps ==
  ASSUME TreeLinked(tree), NEW s, WalkOK(s), s.order = "in", ~s.done
  PROVE  WalkOK(InOrder(s))
<1> DEFINE D == DOMAIN tree
           vs == s.stack.values
           n == s.node
           seen == s.seen
           new == InOrder(s)
<1>1. s \in WalkType /\ Visited("in", seen) /\ InRuns(s)
  BY DEF WalkOK
<1>2. /\ vs \in Seq(D) /\ seen \in Seq(D) /\ n \in D \cup {None} /\ s.stack.size \in Nat
      /\ s.stack \in [values : Seq(D), size : Nat]
  BY <1>1 DEF WalkType
<1>3. /\ Len(vs) \in Nat /\ DOMAIN vs = 1 .. Len(vs) /\ (vs = <<>> <=> Len(vs) = 0)
      /\ \A k \in DOMAIN vs : vs[k] \in D
  BY <1>2, LenProperties, ElementOfSeq, EmptySeq
<1>4. /\ \A m \in D : m \notin Range(seen)
           <=> IsBelow(n, m) \/ \E k \in DOMAIN vs : m = vs[k] \/ OnRight(vs[k], m)
      /\ \A k, l \in DOMAIN vs : k < l => OnLeft(vs[k], vs[l])
      /\ n # None => \A k \in DOMAIN vs : OnLeft(vs[k], n)
  BY <1>1 DEF InRuns
<1>5. \A a, m \in D :
        /\ a # None /\ tree[a].left \in D \cup {None} /\ tree[a].right \in D \cup {None}
        /\ IsBelow(a, m) <=> m = a \/ OnLeft(a, m) \/ OnRight(a, m)
        /\ OnLeft(a, m) <=> IsBelow(tree[a].left, m)
        /\ OnRight(a, m) <=> IsBelow(tree[a].right, m)
        /\ ~OnLeft(a, a) /\ ~OnRight(a, a) /\ ~(OnLeft(a, m) /\ OnRight(a, m))
  BY BelowOK
<1>6. \A a, b, m \in D :
        /\ OnLeft(a, b) /\ IsBelow(b, m) => OnLeft(a, m)
        /\ OnLeft(a, b) /\ OnRight(a, m) => LeftOf(b, m)
  BY BelowOK
<1>7. \A m \in D : ~IsBelow(None, m)
  BY DEF IsBelow
<1> HIDE DEF D, vs, n, seen, new
<1>8. CASE n # None
  <2> DEFINE l == tree[n].left
             ws == Append(vs, n)
  <2>1. n \in D /\ l \in D \cup {None} /\ IsBelow(n, n) /\ (l # None => IsBelow(n, l) /\ OnLeft(n, l))
    <3>1. n \in D /\ l \in D \cup {None} /\ IsBelow(n, n)
      BY <1>2, <1>5, <1>8
    <3>2. l # None => IsBelow(l, l) /\ l \in D
      BY <1>5, <3>1
    <3> QED BY <1>5, <3>1, <3>2
  <2>2. /\ ws \in Seq(D) /\ DOMAIN ws = 1 .. Len(vs) + 1 /\ ws[Len(vs) + 1] = n
        /\ \A k \in 1 .. Len(vs) : ws[k] = vs[k]
    BY <1>2, <2>1, PushOK
  <2>3. \A k : k \in DOMAIN ws <=> k \in DOMAIN vs \/ k = Len(vs) + 1
    BY <1>3, <2>2
  <2> HIDE DEF l, ws
  <2>4. CASE CanPush(s.stack, s.limit)
    <3>1. new = [s EXCEPT !.node = l, !.stack = Pushed(@, n)]
      BY <1>8, <2>4 DEF InOrder, new, n, l
    <3>2. Pushed(s.stack, n) \in [values : Seq(D), size : Nat] /\ Pushed(s.stack, n).values = ws
      BY <1>2, <2>2 DEF Pushed, vs, ws
    <3>3. /\ new \in WalkType /\ new.order = "in" /\ ~new.done /\ new.seen = seen /\ new.node = l
          /\ new.stack.values = ws
      BY <1>1, <2>1, <3>1, <3>2 DEF WalkType, D, seen
    <3>4. ASSUME NEW m \in D
          PROVE  m \notin Range(seen) <=> IsBelow(l, m) \/ \E k \in DOMAIN ws : m = ws[k] \/ OnRight(ws[k], m)
      <4>1. IsBelow(n, m) <=> m = n \/ IsBelow(l, m) \/ OnRight(n, m)
        BY <1>5, <2>1 DEF l
      <4>2. (\E k \in DOMAIN ws : m = ws[k] \/ OnRight(ws[k], m))
              <=> m = n \/ OnRight(n, m) \/ \E k \in DOMAIN vs : m = vs[k] \/ OnRight(vs[k], m)
        BY <1>3, <2>2, <2>3
      <4> QED BY <1>4, <4>1, <4>2
    <3>5. ASSUME NEW k \in DOMAIN ws, NEW j \in DOMAIN ws, k < j PROVE OnLeft(ws[k], ws[j])
      <4>1. k \in DOMAIN vs /\ (j \in DOMAIN vs \/ j = Len(vs) + 1) /\ ws[k] = vs[k]
        BY <1>3, <2>2, <3>5
      <4> QED BY <1>3, <1>4, <1>8, <2>2, <3>5, <4>1
    <3>6. ASSUME l # None, NEW k \in DOMAIN ws PROVE OnLeft(ws[k], l)
      <4>1. CASE k \in DOMAIN vs
        BY <1>3, <1>4, <1>6, <1>8, <2>1, <2>2, <3>6, <4>1
      <4>2. CASE k = Len(vs) + 1
        BY <2>1, <2>2, <3>6, <4>2
      <4> QED BY <2>3, <4>1, <4>2
    <3>7. InRuns(new)
      BY <3>3, <3>4, <3>5, <3>6 DEF InRuns, D
    <3> QED BY <1>1, <3>3, <3>7 DEF WalkOK, new
  <2>5. CASE ~CanPush(s.stack, s.limit)
    <3>1. new = Fail(s)
      BY <1>8, <2>5 DEF InOrder, new, n
    <3> QED BY <1>1, <3>1, EndOK DEF new, seen
  <2> QED BY <2>4, <2>5
<1>9. CASE n = None /\ Len(vs) > 0
  <2> DEFINE f == Front(vs)
             t == vs[Len(vs)]
             r == tree[t].right
             v == Append(seen, t)
  <2>1. Len(vs) \in DOMAIN vs /\ vs # <<>> /\ t \in D /\ r \in D \cup {None}
    BY <1>3, <1>5, <1>9
  <2>2. /\ f \in Seq(D) /\ DOMAIN f = 1 .. Len(vs) - 1 /\ Last(vs) = t
        /\ \A k \in 1 .. Len(vs) - 1 : f[k] = vs[k]
    <3>1. vs \in Seq(D)
      BY <1>2
    <3> HIDE DEF f
    <3> QED BY <2>1, <3>1, FrontOK DEF f
  <2>3. new = [Visit(s, t) EXCEPT !.node = r, !.stack = Popped(@)]
    BY <1>3, <1>9, <2>2 DEF InOrder, new, n, Count, vs, Top
  <2> HIDE DEF f, t, r, v
  <2>4. \A k \in DOMAIN f : k \in DOMAIN vs /\ k < Len(vs) /\ f[k] = vs[k] /\ vs[k] \in D
    BY <1>3, <2>2
  <2>5. \A k : k \in DOMAIN vs <=> k \in DOMAIN f \/ k = Len(vs)
    BY <1>3, <1>9, <2>2
  <2>6. \A k \in DOMAIN f : OnLeft(f[k], t)
    BY <1>4, <2>1, <2>4 DEF t
  <2>7. ASSUME NEW m \in D
        PROVE  m \notin Range(seen)
                 <=> m = t \/ OnRight(t, m) \/ \E k \in DOMAIN f : m = f[k] \/ OnRight(f[k], m)
    <3>1. (\E k \in DOMAIN vs : m = vs[k] \/ OnRight(vs[k], m))
            <=> m = t \/ OnRight(t, m) \/ \E k \in DOMAIN f : m = f[k] \/ OnRight(f[k], m)
      BY <2>1, <2>4, <2>5 DEF t
    <3> QED BY <1>4, <1>7, <1>9, <3>1
  <2>8. ASSUME NEW m \in D, m \notin Range(seen), m # t PROVE Precedes("in", t, m)
    <3>1. CASE OnRight(t, m)
      BY <3>1 DEF Precedes
    <3>2. ASSUME NEW k \in DOMAIN f, m = f[k] PROVE Precedes("in", t, m)
      BY <2>6, <3>2 DEF Precedes
    <3>3. ASSUME NEW k \in DOMAIN f, OnRight(f[k], m) PROVE Precedes("in", t, m)
      <4>1. LeftOf(t, m)
        BY <1>6, <2>1, <2>4, <2>6, <3>3
      <4> QED BY <4>1 DEF Precedes
    <3> QED BY <2>7, <2>8, <3>1, <3>2, <3>3
  <2>9. Visited("in", v) /\ Range(v) = Range(seen) \cup {t} /\ v \in Seq(D)
    <3>1. "in" \in Orders /\ t \notin Range(seen)
      BY <2>1, <2>7 DEF Orders
    <3>2. Visited("in", v) /\ Range(v) = Range(seen) \cup {t}
      BY <1>1, <2>1, <2>8, <3>1, VisitOK DEF D, v
    <3> QED BY <3>2 DEF Visited, D
  <2>10. Popped(s.stack) \in [values : Seq(D), size : Nat] /\ Popped(s.stack).values = f
    BY <1>2, <2>2 DEF Popped, f, vs
  <2>11. /\ new \in WalkType /\ new.order = "in" /\ ~new.done /\ new.seen = v
         /\ new.node = r /\ new.stack.values = f
    BY <1>1, <2>1, <2>3, <2>9, <2>10 DEF WalkType, D, seen, Visit, v
  <2>12. ASSUME NEW m \in D
         PROVE  m \notin Range(v) <=> IsBelow(r, m) \/ \E k \in DOMAIN f : m = f[k] \/ OnRight(f[k], m)
    <3>1. IsBelow(r, m) <=> OnRight(t, m)
      BY <1>5, <2>1 DEF r
    <3>2. ~OnRight(t, t) /\ \A k \in DOMAIN f : t # f[k] /\ ~OnRight(f[k], t)
      BY <1>5, <2>1, <2>4, <2>6
    <3> QED BY <2>7, <2>9, <3>1, <3>2
  <2>13. ASSUME r # None, NEW k \in DOMAIN f PROVE OnLeft(f[k], r)
    <3>1. r \in D /\ IsBelow(r, r)
      BY <1>5, <2>1, <2>13
    <3>2. IsBelow(t, r)
      BY <1>5, <2>1, <3>1 DEF r
    <3> QED BY <1>6, <2>1, <2>4, <2>6, <3>1, <3>2
  <2>14. InRuns(new)
    <3>1. \A k, l \in DOMAIN f : k < l => OnLeft(f[k], f[l])
      BY <1>4, <2>4
    <3> QED BY <2>11, <2>12, <2>13, <3>1 DEF InRuns, D
  <2> QED BY <2>9, <2>11, <2>14 DEF WalkOK, new
<1>10. CASE n = None /\ Len(vs) = 0
  <2>1. new = Done(s)
    BY <1>10 DEF InOrder, new, n, Count, vs
  <2>2. DOMAIN vs = {}
    BY <1>3, <1>10
  <2>3. \A m \in D : m \in Range(seen)
    BY <1>4, <1>7, <1>10, <2>2
  <2>4. Range(seen) = D
    BY <1>1, <2>3, RangeOfSeq DEF Visited, D
  <2> QED BY <1>1, <2>1, <2>4, EndOK DEF new, D, seen
<1> QED BY <1>3, <1>8, <1>9, <1>10

LEMMA PostKeeps ==
  ASSUME TreeLinked(tree), NEW s, WalkOK(s), s.order = "post", ~s.done
  PROVE  WalkOK(PostOrder(s))
<1> DEFINE D == DOMAIN tree
           vs == s.stack.values
           n == s.node
           seen == s.seen
           new == PostOrder(s)
           Left(m) == tree[m].left
           Right(m) == tree[m].right
<1>1. s \in WalkType /\ Visited("post", seen) /\ PostRuns(s)
  BY DEF WalkOK
<1>2. /\ vs \in Seq(D) /\ seen \in Seq(D) /\ n \in D \cup {None} /\ s.stack.size \in Nat
      /\ s.stack \in [values : Seq(D), size : Nat]
  BY <1>1 DEF WalkType
<1>3. /\ Len(vs) \in Nat /\ DOMAIN vs = 1 .. Len(vs) /\ (vs = <<>> <=> Len(vs) = 0)
      /\ \A k \in DOMAIN vs : vs[k] \in D
  BY <1>2, LenProperties, ElementOfSeq, EmptySeq
<1>4. /\ \A m \in D : m \notin Range(seen)
           <=> \/ IsBelow(n, m)
               \/ \E k \in DOMAIN vs : m = vs[k] \/ (Went(s, k) # Right(vs[k]) /\ OnRight(vs[k], m))
      /\ \A k, l \in DOMAIN vs : k < l =>
           vs[k + 1] \in {Left(vs[k]), Right(vs[k])} /\ IsBelow(vs[k + 1], vs[l])
      /\ n # None /\ vs # <<>> => n \in {Left(vs[Len(vs)]), Right(vs[Len(vs)])}
  BY <1>1 DEF PostRuns, Last
<1>5. \A a, m \in D :
        /\ a # None /\ Left(a) \in D \cup {None} /\ Right(a) \in D \cup {None}
        /\ IsBelow(a, m) <=> m = a \/ OnLeft(a, m) \/ OnRight(a, m)
        /\ OnLeft(a, m) <=> IsBelow(Left(a), m)
        /\ OnRight(a, m) <=> IsBelow(Right(a), m)
        /\ ~OnLeft(a, a) /\ ~OnRight(a, a) /\ ~(OnLeft(a, m) /\ OnRight(a, m))
        /\ IsBelow(a, m) <=> a \in Above(tree)[m]
  BY BelowOK
<1>6. \A a, b, m \in D :
        /\ IsBelow(a, b) /\ IsBelow(b, m) => IsBelow(a, m)
        /\ OnLeft(a, b) /\ OnRight(a, m) => LeftOf(b, m)
  BY BelowOK
<1>7. \A m \in D : ~IsBelow(None, m)
  BY DEF IsBelow
<1>8. seen = <<>> \/ Last(seen) \in Range(seen)
  <2>1. seen # <<>> => Len(seen) \in DOMAIN seen
    BY <1>2, LenProperties, EmptySeq
  <2> QED BY <2>1 DEF Last, Range
<1>9. \A k \in DOMAIN vs : Went(s, k) = IF k < Len(vs) THEN vs[k + 1] ELSE IF n # None THEN n
                                        ELSE IF seen = <<>> THEN None ELSE Last(seen)
  BY DEF Went
<1>10. \A a \in D : /\ Left(a) = Right(a) => Left(a) = None
                    /\ \A c \in {Left(a), Right(a)} \ {None} : IsBelow(a, c) /\ c \in D
  <2>1. \A a \in D : Left(a) = Right(a) => Left(a) = None
    BY DEF TreeLinked, D
  <2>2. ASSUME NEW a \in D, NEW c \in {Left(a), Right(a)} \ {None} PROVE IsBelow(a, c) /\ c \in D
    <3>1. c \in D
      BY <1>5
    <3>2. IsBelow(c, c)
      BY <1>5, <3>1
    <3> QED BY <1>5, <3>1, <3>2
  <2> QED BY <2>1, <2>2
<1> HIDE DEF D, vs, n, seen, new, Left, Right
<1>11. CASE n # None
  <2> DEFINE l == Left(n)
             ws == Append(vs, n)
  <2>1. n \in D /\ l \in D \cup {None} /\ IsBelow(n, n)
    BY <1>2, <1>5, <1>11
  <2>2. /\ ws \in Seq(D) /\ DOMAIN ws = 1 .. Len(vs) + 1 /\ ws[Len(vs) + 1] = n /\ Len(ws) = Len(vs) + 1
        /\ \A k \in 1 .. Len(vs) : ws[k] = vs[k]
    BY <1>2, <2>1, PushOK
  <2>3. \A k : k \in DOMAIN ws <=> k \in DOMAIN vs \/ k = Len(vs) + 1
    BY <1>3, <2>2
  <2> HIDE DEF l, ws
  <2>4. CASE CanPush(s.stack, s.limit)
    <3>1. new = [s EXCEPT !.node = l, !.stack = Pushed(@, n)]
      BY <1>11, <2>4 DEF PostOrder, new, n, l, Left
    <3>2. Pushed(s.stack, n) \in [values : Seq(D), size : Nat] /\ Pushed(s.stack, n).values = ws
      BY <1>2, <2>2 DEF Pushed, vs, ws
    <3>3. /\ new \in WalkType /\ new.order = "post" /\ ~new.done /\ new.seen = seen /\ new.node = l
          /\ new.stack.values = ws
      BY <1>1, <2>1, <3>1, <3>2 DEF WalkType, D, seen
    <3>4. ASSUME NEW k \in DOMAIN vs PROVE Went(new, k) = Went(s, k)
      <4>1. k < Len(ws) /\ Went(new, k) = ws[k + 1] /\ (k < Len(vs) => k + 1 \in 1 .. Len(vs))
            /\ (k < Len(vs) \/ k = Len(vs))
        BY <1>3, <2>2, <3>3 DEF Went
      <4> QED BY <1>9, <1>11, <2>2, <4>1
    <3>5. ASSUME NEW m \in D, OnRight(n, m) PROVE Went(new, Len(vs) + 1) # Right(n)
      <4>1. Went(new, Len(vs) + 1) = IF l # None THEN l ELSE IF seen = <<>> THEN None ELSE Last(seen)
        BY <1>3, <2>2, <3>3 DEF Went
      <4>2. Right(n) # None
        BY <1>5, <1>7, <2>1, <3>5
      <4>3. Right(n) \in D /\ Right(n) \notin Range(seen)
        BY <1>4, <1>10, <2>1, <4>2
      <4>4. l # Right(n)
        BY <1>10, <2>1, <4>2 DEF l
      <4> QED BY <1>8, <4>1, <4>2, <4>3, <4>4
    <3>6. ASSUME NEW m \in D
          PROVE  m \notin Range(seen)
                   <=> \/ IsBelow(l, m)
                       \/ \E k \in DOMAIN ws : m = ws[k] \/ (Went(new, k) # Right(ws[k]) /\ OnRight(ws[k], m))
      <4>1. IsBelow(n, m) <=> m = n \/ IsBelow(l, m) \/ OnRight(n, m)
        BY <1>5, <2>1 DEF l
      <4>2. (\E k \in DOMAIN ws : m = ws[k] \/ (Went(new, k) # Right(ws[k]) /\ OnRight(ws[k], m)))
              <=> \/ m = n \/ OnRight(n, m)
                  \/ \E k \in DOMAIN vs : m = vs[k] \/ (Went(s, k) # Right(vs[k]) /\ OnRight(vs[k], m))
        BY <1>3, <2>2, <2>3, <3>4, <3>5
      <4> QED BY <1>4, <4>1, <4>2
    <3>7. ASSUME NEW k \in DOMAIN ws, NEW j \in DOMAIN ws, k < j
          PROVE  ws[k + 1] \in {Left(ws[k]), Right(ws[k])} /\ IsBelow(ws[k + 1], ws[j])
      <4>1. k \in DOMAIN vs /\ ws[k] = vs[k] /\ vs[k] \in D
        BY <1>3, <2>2, <2>3, <3>7
      <4>2. CASE k < Len(vs)
        <5>1. k + 1 \in DOMAIN vs /\ k < k + 1 /\ ws[k + 1] = vs[k + 1] /\ Len(vs) \in DOMAIN vs
          BY <1>3, <2>2, <4>1, <4>2
        <5>2. vs[k + 1] \in {Left(vs[k]), Right(vs[k])} /\ vs[k + 1] \in D /\ IsBelow(vs[k + 1], vs[Len(vs)])
          BY <1>3, <1>4, <4>1, <4>2, <5>1
        <5>3. CASE j \in DOMAIN vs
          <6>1. ws[j] = vs[j]
            BY <1>3, <2>2, <5>3
          <6> QED BY <1>4, <3>7, <4>1, <5>1, <5>3, <6>1
        <5>4. CASE j = Len(vs) + 1
          <6>1. ws[j] = n /\ vs # <<>> /\ vs[Len(vs)] \in D
            BY <1>3, <2>2, <5>1, <5>4
          <6>2. IsBelow(vs[Len(vs)], n)
            BY <1>4, <1>10, <1>11, <6>1
          <6> QED BY <1>6, <2>1, <4>1, <5>1, <5>2, <6>1, <6>2
        <5> QED BY <2>3, <5>3, <5>4
      <4>3. CASE k = Len(vs)
        <5>1. j = Len(vs) + 1 /\ vs # <<>> /\ ws[j] = n /\ ws[k + 1] = n
          BY <1>3, <2>2, <3>7, <4>1, <4>3
        <5> QED BY <1>4, <1>11, <2>1, <4>1, <4>3, <5>1
      <4> QED BY <1>3, <4>1, <4>2, <4>3
    <3>8. l # None => l \in {Left(Last(ws)), Right(Last(ws))}
      BY <2>2 DEF Last, l
    <3>9. PostRuns(new)
      BY <3>3, <3>6, <3>7, <3>8 DEF PostRuns, D, Left, Right
    <3> QED BY <1>1, <3>3, <3>9 DEF WalkOK, new
  <2>5. CASE ~CanPush(s.stack, s.limit)
    <3>1. new = Fail(s)
      BY <1>11, <2>5 DEF PostOrder, new, n
    <3> QED BY <1>1, <3>1, EndOK DEF new, seen
  <2> QED BY <2>4, <2>5
<1>12. CASE n = None /\ Len(vs) > 0
  <2> DEFINE t == vs[Len(vs)]
             r == Right(t)
             f == Front(vs)
             v == Append(seen, t)
             Descends == r # None /\ (seen = <<>> \/ r # Last(seen))
  <2>1. Len(vs) \in DOMAIN vs /\ vs # <<>> /\ t \in D /\ r \in D \cup {None}
    BY <1>3, <1>5, <1>12
  <2>2. /\ f \in Seq(D) /\ DOMAIN f = 1 .. Len(vs) - 1 /\ Len(f) = Len(vs) - 1 /\ Last(vs) = t
        /\ \A k \in 1 .. Len(vs) - 1 : f[k] = vs[k]
    <3>1. vs \in Seq(D)
      BY <1>2
    <3> HIDE DEF f
    <3> QED BY <2>1, <3>1, FrontOK DEF f
  <2>3. Went(s, Len(vs)) = IF seen = <<>> THEN None ELSE Last(seen)
    BY <1>9, <1>12, <2>1
  <2>4. new = IF Descends THEN [s EXCEPT !.node = r] ELSE [Visit(s, t) EXCEPT !.stack = Popped(@)]
    BY <1>3, <1>12, <2>2 DEF PostOrder, new, n, Count, vs, Top, Right, seen
  <2> HIDE DEF f, t, r, v
  <2>5. CASE Descends
    <3>1. /\ new \in WalkType /\ new.order = "post" /\ ~new.done /\ new.seen = seen /\ new.node = r
          /\ new.stack.values = vs
      BY <1>1, <2>1, <2>4, <2>5 DEF WalkType, D, seen, vs
    <3>2. Went(s, Len(vs)) # r /\ Went(new, Len(vs)) = r
      BY <1>3, <2>3, <2>5, <3>1 DEF Went
    <3>3. ASSUME NEW k \in DOMAIN vs, k # Len(vs) PROVE Went(new, k) = Went(s, k)
      <4>1. k < Len(vs)
        BY <1>3, <3>3
      <4> QED BY <3>1, <4>1 DEF Went, vs
    <3>4. ASSUME NEW m \in D
          PROVE  m \notin Range(seen)
                   <=> \/ IsBelow(r, m)
                       \/ \E k \in DOMAIN vs : m = vs[k] \/ (Went(new, k) # Right(vs[k]) /\ OnRight(vs[k], m))
      <4>1. IsBelow(r, m) <=> OnRight(t, m)
        BY <1>5, <2>1 DEF r
      <4>2. t = vs[Len(vs)] /\ r = Right(vs[Len(vs)])
        BY DEF t, r
      <4>3. ASSUME NEW k \in DOMAIN vs, m = vs[k] \/ (Went(new, k) # Right(vs[k]) /\ OnRight(vs[k], m))
            PROVE  \E j \in DOMAIN vs : m = vs[j] \/ (Went(s, j) # Right(vs[j]) /\ OnRight(vs[j], m))
        <5>1. CASE k # Len(vs)
          BY <3>3, <4>3, <5>1
        <5>2. CASE k = Len(vs)
          BY <2>1, <3>2, <4>2, <4>3, <5>2
        <5> QED BY <5>1, <5>2
      <4>4. ASSUME NEW k \in DOMAIN vs, m = vs[k] \/ (Went(s, k) # Right(vs[k]) /\ OnRight(vs[k], m))
            PROVE  \/ OnRight(t, m)
                   \/ \E j \in DOMAIN vs : m = vs[j] \/ (Went(new, j) # Right(vs[j]) /\ OnRight(vs[j], m))
        <5>1. CASE k # Len(vs)
          BY <3>3, <4>4, <5>1
        <5>2. CASE k = Len(vs)
          BY <4>2, <4>4, <5>2
        <5> QED BY <5>1, <5>2
      <4>5. OnRight(t, m) => m \notin Range(seen)
        BY <1>4, <2>1, <3>2, <4>2
      <4> QED BY <1>4, <1>7, <1>12, <4>1, <4>3, <4>4, <4>5
    <3>5. r \in {tree[Last(vs)].left, tree[Last(vs)].right}
      BY <2>2 DEF r, Right
    <3>6. PostRuns(new)
      BY <1>4, <3>1, <3>4, <3>5 DEF PostRuns, D, Left, Right
    <3> QED BY <1>1, <3>1, <3>6 DEF WalkOK, new
  <2>6. CASE ~Descends
    <3>1. \A k \in DOMAIN f : k \in DOMAIN vs /\ k < Len(vs) /\ k + 1 \in DOMAIN vs
                              /\ f[k] = vs[k] /\ vs[k] \in D /\ vs[k + 1] \in D
      BY <1>3, <2>2
    <3>2. \A k : k \in DOMAIN vs <=> k \in DOMAIN f \/ k = Len(vs)
      BY <1>3, <1>12, <2>2
    <3>3. ASSUME NEW k \in DOMAIN f
          PROVE  /\ vs[k + 1] \in {Left(vs[k]), Right(vs[k])} /\ IsBelow(vs[k + 1], t)
                 /\ IsBelow(vs[k], t) /\ vs[k] # t /\ vs[k] \in D
                 /\ vs[k + 1] # Right(vs[k]) => OnLeft(vs[k], t)
      <4>1. vs[k + 1] \in {Left(vs[k]), Right(vs[k])} /\ IsBelow(vs[k + 1], t)
        BY <1>4, <2>1, <3>1 DEF t
      <4>2. OnLeft(vs[k], t) \/ OnRight(vs[k], t)
        BY <1>5, <2>1, <3>1, <4>1
      <4> QED BY <1>5, <2>1, <3>1, <4>1, <4>2
    <3>4. \A m \in D : ~(Went(s, Len(vs)) # r /\ OnRight(t, m))
      BY <1>5, <1>7, <2>1, <2>3, <2>6 DEF r
    <3>5. \A k \in DOMAIN f : Went(s, k) = vs[k + 1]
      BY <1>9, <3>1
    <3>6. ASSUME NEW m \in D
          PROVE  m \notin Range(seen)
                   <=> m = t \/ \E k \in DOMAIN f : m = f[k] \/ (vs[k + 1] # Right(f[k]) /\ OnRight(f[k], m))
      <4>1. (\E k \in DOMAIN vs : m = vs[k] \/ (Went(s, k) # Right(vs[k]) /\ OnRight(vs[k], m)))
              <=> m = t \/ \E k \in DOMAIN f : m = f[k] \/ (vs[k + 1] # Right(f[k]) /\ OnRight(f[k], m))
        BY <2>1, <3>1, <3>2, <3>4, <3>5 DEF t, r
      <4> QED BY <1>4, <1>7, <1>12, <4>1
    <3>7. ASSUME NEW m \in D, m \notin Range(seen), m # t PROVE Precedes("post", t, m)
      <4>1. PICK k \in DOMAIN f : m = f[k] \/ (vs[k + 1] # Right(f[k]) /\ OnRight(f[k], m))
        BY <3>6, <3>7
      <4>2. CASE m = f[k]
        <5>1. m \in Above(tree)[t]
          BY <1>5, <2>1, <3>1, <3>3, <4>2
        <5> QED BY <3>7, <5>1 DEF Precedes
      <4>3. CASE vs[k + 1] # Right(f[k]) /\ OnRight(f[k], m)
        <5>1. LeftOf(t, m)
          BY <1>6, <2>1, <3>1, <3>3, <4>3
        <5> QED BY <5>1 DEF Precedes
      <4> QED BY <4>1, <4>2, <4>3
    <3>8. /\ Visited("post", v) /\ Range(v) = Range(seen) \cup {t} /\ v \in Seq(D)
          /\ v # <<>> /\ Last(v) = t
      <4>1. "post" \in Orders /\ t \notin Range(seen)
        BY <2>1, <3>6 DEF Orders
      <4>2. Visited("post", v) /\ Range(v) = Range(seen) \cup {t} /\ v # <<>> /\ Last(v) = t
        BY <1>1, <2>1, <3>7, <4>1, VisitOK DEF D, v
      <4> QED BY <4>2 DEF Visited, D
    <3>9. Popped(s.stack) \in [values : Seq(D), size : Nat] /\ Popped(s.stack).values = f
      BY <1>2, <2>2 DEF Popped, f, vs
    <3>10. /\ new \in WalkType /\ new.order = "post" /\ ~new.done /\ new.seen = v
           /\ new.node = None /\ new.stack.values = f
      BY <1>1, <1>12, <2>4, <2>6, <3>8, <3>9 DEF WalkType, D, seen, Visit, v, n
    <3>11. ASSUME NEW k \in DOMAIN f PROVE Went(new, k) = vs[k + 1]
      <4>1. CASE k < Len(f)
        <5>1. k + 1 \in DOMAIN f
          BY <2>2, <4>1
        <5> QED BY <3>1, <3>10, <4>1, <5>1 DEF Went
      <4>2. CASE k = Len(f)
        <5>1. k + 1 = Len(vs)
          BY <1>3, <2>2, <4>2
        <5> QED BY <3>8, <3>10, <4>2, <5>1 DEF Went, t
      <4> QED BY <1>3, <2>2, <4>1, <4>2
    <3>12. ASSUME NEW m \in D
           PROVE  m \notin Range(v)
                    <=> \E k \in DOMAIN f : m = f[k] \/ (Went(new, k) # Right(f[k]) /\ OnRight(f[k], m))
      <4>1. \A k \in DOMAIN f : t # f[k] /\ ~(vs[k + 1] # Right(f[k]) /\ OnRight(f[k], t))
        BY <1>5, <2>1, <3>1, <3>3
      <4> QED BY <3>6, <3>8, <3>11, <4>1
    <3>13. ASSUME NEW k \in DOMAIN f, NEW l \in DOMAIN f, k < l
           PROVE  f[k + 1] \in {Left(f[k]), Right(f[k])} /\ IsBelow(f[k + 1], f[l])
      <4>1. k + 1 \in DOMAIN f
        BY <1>3, <2>2, <3>13
      <4> QED BY <1>4, <3>1, <3>13, <4>1
    <3>14. PostRuns(new)
      BY <1>7, <3>10, <3>12, <3>13 DEF PostRuns, D, Left, Right
    <3> QED BY <3>8, <3>10, <3>14 DEF WalkOK, new
  <2> QED BY <2>5, <2>6
<1>13. CASE n = None /\ Len(vs) = 0
  <2>1. new = Done(s)
    BY <1>13 DEF PostOrder, new, n, Count, vs
  <2>2. DOMAIN vs = {}
    BY <1>3, <1>13
  <2>3. \A m \in D : m \in Range(seen)
    BY <1>4, <1>7, <1>13, <2>2
  <2>4. Range(seen) = D
    BY <1>1, <2>3, RangeOfSeq DEF Visited, D
  <2> QED BY <1>1, <2>1, <2>4, EndOK DEF new, D, seen
<1> QED BY <1>3, <1>11, <1>12, <1>13

LEMMA ChildrenOK ==
  ASSUME TreeLinked(tree), NEW n \in DOMAIN tree
  PROVE  LET cs == Children(n) IN
         /\ cs \in Seq(DOMAIN tree) /\ Len(cs) \in Nat
         /\ \A k \in 1 .. Len(cs) : cs[k] \in {tree[n].left, tree[n].right} \ {None}
         /\ \A c \in {tree[n].left, tree[n].right} \ {None} : \E k \in 1 .. Len(cs) : cs[k] = c
         /\ \A k, j \in 1 .. Len(cs) : k < j => cs[k] = tree[n].left /\ cs[j] = tree[n].right
<1> DEFINE l == tree[n].left
           r == tree[n].right
           D == DOMAIN tree
<1>1. l \in D \cup {None} /\ r \in D \cup {None}
  BY BelowOK
<1>2. Children(n) = (IF l = None THEN <<>> ELSE <<l>>) \o (IF r = None THEN <<>> ELSE <<r>>)
  BY DEF Children
<1> HIDE DEF l, r, D
<1>3. CASE l = None /\ r = None
  <2>1. Children(n) = <<>>
    BY <1>2, <1>3
  <2> QED BY <1>3, <2>1 DEF l, r, D
<1>4. CASE l # None /\ r = None
  <2>1. Children(n) = <<l>>
    BY <1>2, <1>4
  <2>2. l \in D
    BY <1>1, <1>4
  <2> QED BY <1>4, <2>1, <2>2 DEF l, r, D
<1>5. CASE l = None /\ r # None
  <2>1. Children(n) = <<r>>
    BY <1>2, <1>5
  <2>2. r \in D
    BY <1>1, <1>5
  <2> QED BY <1>5, <2>1, <2>2 DEF l, r, D
<1>6. CASE l # None /\ r # None
  <2>1. Children(n) = <<l, r>>
    <3>1. Children(n) = <<l>> \o <<r>>
      BY <1>2, <1>6
    <3>2. /\ <<l>> \in Seq({l, r}) /\ <<r>> \in Seq({l, r}) /\ <<l, r>> \in Seq({l, r})
          /\ Len(<<l>>) = 1 /\ Len(<<r>>) = 1 /\ Len(<<l, r>>) = 2
      OBVIOUS
    <3>3. /\ <<l>> \o <<r>> \in Seq({l, r}) /\ Len(<<l>> \o <<r>>) = 2
          /\ \A k \in 1 .. 2 : (<<l>> \o <<r>>)[k] = IF k <= 1 THEN <<l>>[k] ELSE <<r>>[k - 1]
      BY <3>2, ConcatProperties
    <3>4. \A k \in 1 .. 2 : (<<l>> \o <<r>>)[k] = <<l, r>>[k]
      BY <3>3
    <3>5. <<l>> \o <<r>> = <<l, r>>
      BY <3>2, <3>3, <3>4, SeqEqual
    <3> QED BY <3>1, <3>5
  <2>2. l \in D /\ r \in D
    BY <1>1, <1>6
  <2> QED BY <1>6, <2>1, <2>2 DEF l, r, D
<1> QED BY <1>3, <1>4, <1>5, <1>6

LEMMA BfsKeeps ==
  ASSUME TreeLinked(tree), NEW s, WalkOK(s), s.order = "bfs", ~s.done
  PROVE  WalkOK(BreadthFirst(s))
<1> DEFINE D == DOMAIN tree
           q == s.stack.values
           seen == s.seen
           new == BreadthFirst(s)
<1>1. s \in WalkType /\ Visited("bfs", seen) /\ BfsRuns(s)
  BY DEF WalkOK
<1>2. q \in Seq(D) /\ seen \in Seq(D) /\ s.stack \in [values : Seq(D), size : Nat]
  BY <1>1 DEF WalkType
<1>3. /\ Len(q) \in Nat /\ DOMAIN q = 1 .. Len(q) /\ (q = <<>> <=> Len(q) = 0)
      /\ \A k \in DOMAIN q : q[k] \in D
  BY <1>2, LenProperties, ElementOfSeq, EmptySeq
<1>4. /\ \A m \in D : m \notin Range(seen) <=> \E k \in DOMAIN q : IsBelow(q[k], m)
      /\ \A k, l \in DOMAIN q : k < l => Precedes("bfs", q[k], q[l])
      /\ \A k \in DOMAIN q : /\ Depth(q[k]) <= Depth(q[1]) + 1
                             /\ q[k] # 1 => tree[q[k]].parent \in Range(seen)
  BY <1>1 DEF BfsRuns
<1>5. \A m, n \in D : Precedes("bfs", m, n) <=> Depth(m) < Depth(n) \/ (Depth(m) = Depth(n) /\ LeftOf(m, n))
  BY DEF Precedes
<1>6. \A m \in D : Depth(m) \in Nat /\ \A a \in D : IsBelow(a, m) /\ a # m => Depth(a) < Depth(m)
  BY DepthOK, BelowOK
<1>7. "bfs" \in Orders
  BY DEF Orders
<1>8. \A m, n \in D : /\ Precedes("bfs", m, n) => ~Precedes("bfs", n, m)
                      /\ m # n => Precedes("bfs", m, n) \/ Precedes("bfs", n, m)
  BY <1>7, PrecedesOK
<1> HIDE DEF D, q, seen, new
<1>9. CASE q = <<>>
  <2>1. new = Done(s)
    BY <1>9 DEF BreadthFirst, new, q
  <2>2. Range(seen) = D
    <3>1. \A m \in D : m \in Range(seen)
      BY <1>3, <1>4, <1>9
    <3> QED BY <1>1, <3>1, RangeOfSeq DEF Visited, D
  <2> QED BY <1>1, <2>1, <2>2, EndOK DEF new, D, seen
<1>10. CASE q # <<>>
  <2> DEFINE n == q[1]
             l == tree[n].left
             r == tree[n].right
             cs == Children(n)
             N == Len(q)
             C == Len(cs)
             ts == Tail(q \o cs)
             v == Append(seen, n)
  <2>1. N \in Nat \ {0} /\ 1 \in DOMAIN q /\ n \in D /\ Head(q) = n
    BY <1>3, <1>10
  <2>2. /\ cs \in Seq(D) /\ C \in Nat
        /\ \A k \in 1 .. C : cs[k] \in {l, r} \ {None}
        /\ \A c \in {l, r} \ {None} : \E k \in 1 .. C : cs[k] = c
        /\ \A k, j \in 1 .. C : k < j => cs[k] = l /\ cs[j] = r
    BY <2>1, ChildrenOK DEF D
  <2>3. /\ \A m \in D : IsBelow(n, m) <=> m = n \/ IsBelow(l, m) \/ IsBelow(r, m)
        /\ ~IsBelow(l, n) /\ ~IsBelow(r, n) /\ IsBelow(n, n)
        /\ \A c \in {l, r} \ {None} : c \in D /\ c # 1 /\ tree[c].parent = n /\ Depth(c) = Depth(n) + 1
                                      /\ IsBelow(c, c) /\ IsBelow(n, c)
        /\ l # None /\ r # None => LeftOf(l, r)
    <3>1. \A a, m \in D : /\ IsBelow(a, m) <=> m = a \/ OnLeft(a, m) \/ OnRight(a, m)
                          /\ OnLeft(a, m) <=> IsBelow(tree[a].left, m)
                          /\ OnRight(a, m) <=> IsBelow(tree[a].right, m)
                          /\ ~OnLeft(a, a) /\ ~OnRight(a, a)
      BY BelowOK DEF D
    <3>2. \A c \in {l, r} \ {None} : c \in D /\ c # 1 /\ tree[c].parent = n /\ Depth(c) = Depth(n) + 1
      BY <2>1, AboveIs, DepthOK DEF D
    <3>3. \A m \in D : OnLeft(n, m) /\ OnRight(n, m) => FALSE
      BY <2>1, BelowOK DEF D
    <3>4. l # None /\ r # None => OnLeft(n, l) /\ OnRight(n, r) /\ l \in D /\ r \in D
      BY <2>1, <3>1, <3>2
    <3>5. l # None /\ r # None => LeftOf(l, r)
      BY <2>1, <3>4, BelowOK DEF D
    <3> HIDE DEF n
    <3>6. \A m \in D : IsBelow(n, m) <=> m = n \/ IsBelow(l, m) \/ IsBelow(r, m)
      BY <2>1, <3>1
    <3>7. ~IsBelow(l, n) /\ ~IsBelow(r, n) /\ IsBelow(n, n)
      BY <2>1, <3>1
    <3>8. \A c \in {l, r} \ {None} : IsBelow(c, c) /\ IsBelow(n, c)
      BY <3>1, <3>2, <3>6
    <3> HIDE DEF l, r
    <3> QED BY <3>2, <3>5, <3>6, <3>7, <3>8
  <2>4. /\ ts \in Seq(D) /\ Len(ts) = N - 1 + C /\ DOMAIN ts = 1 .. N - 1 + C
        /\ \A k \in 1 .. N - 1 : ts[k] = q[k + 1]
        /\ \A k \in 1 .. C : ts[N - 1 + k] = cs[k]
    <3> DEFINE w == q \o cs
    <3> HIDE DEF n, cs, N, C
    <3>1. /\ w \in Seq(D) /\ Len(w) = N + C
          /\ \A k \in 1 .. N + C : w[k] = IF k <= N THEN q[k] ELSE cs[k - N]
      BY <1>2, <2>2, ConcatProperties DEF N, C
    <3> HIDE DEF w
    <3>2. w # <<>>
      BY <2>1, <2>2, <3>1, EmptySeq
    <3>3. /\ Tail(w) \in Seq(D) /\ Len(Tail(w)) = N + C - 1
          /\ \A k \in 1 .. Len(Tail(w)) : Tail(w)[k] = w[k + 1]
      <4>1. w \in Seq(D)
        BY <3>1
      <4>2. /\ Tail(w) \in Seq(D) /\ Len(Tail(w)) = Len(w) - 1
            /\ \A k \in 1 .. Len(Tail(w)) : Tail(w)[k] = w[k + 1]
        BY <3>2, <4>1, HeadTailProperties
      <4>3. Len(Tail(w)) = N + C - 1
        BY <2>1, <2>2, <3>1, <4>2
      <4> QED BY <4>2, <4>3
    <3>4. \A k \in 1 .. N - 1 : Tail(w)[k] = q[k + 1]
      BY <2>1, <2>2, <3>1, <3>3
    <3>5. ASSUME NEW k \in 1 .. C PROVE Tail(w)[N - 1 + k] = cs[k]
      <4>1. PICK i0 \in 1 .. Len(Tail(w)) : i0 = N - 1 + k
        BY <2>1, <2>2, <3>3
      <4>2. PICK j \in 1 .. N + C : j = i0 + 1
        BY <2>1, <2>2, <3>3, <4>1
      <4>3. ~(j <= N) /\ j - N = k
        BY <2>1, <2>2, <4>1, <4>2
      <4>4. Tail(w)[i0] = w[j]
        BY <3>3, <4>2, Zenon
      <4>5. w[j] = cs[k]
        BY <3>1, <4>3, Zenon
      <4> QED BY <4>1, <4>4, <4>5, Zenon
    <3>6. Len(Tail(w)) = N - 1 + C /\ DOMAIN Tail(w) = 1 .. N - 1 + C
      BY <2>1, <2>2, <3>3, LenProperties
    <3> QED BY <3>3, <3>4, <3>5, <3>6 DEF w
  <2> HIDE DEF n, l, r, cs, C, ts, v
  <2>5. \A k \in DOMAIN ts : \/ k \in 1 .. N - 1
                             \/ \E j \in 1 .. C : k = N - 1 + j
    <3> SUFFICES ASSUME NEW k \in DOMAIN ts, k \notin 1 .. N - 1 PROVE \E j \in 1 .. C : k = N - 1 + j
      OBVIOUS
    <3>1. k - (N - 1) \in 1 .. C /\ k = N - 1 + (k - (N - 1))
      BY <2>1, <2>2, <2>4
    <3> QED BY <3>1
  <2>6. \A k \in 1 .. N - 1 : /\ k \in DOMAIN ts /\ k + 1 \in DOMAIN q /\ ts[k] = q[k + 1] /\ q[k + 1] \in D
                              /\ Precedes("bfs", n, q[k + 1])
    <3>1. \A k \in 1 .. N - 1 : k \in DOMAIN ts /\ k + 1 \in DOMAIN q /\ 1 < k + 1
      BY <1>3, <2>1, <2>2, <2>4
    <3> QED BY <1>3, <1>4, <2>1, <2>4, <3>1 DEF n
  <2>7. \A j \in 1 .. C : /\ N - 1 + j \in DOMAIN ts /\ ts[N - 1 + j] = cs[j] /\ cs[j] \in {l, r} \ {None}
    BY <2>1, <2>2, <2>4
  <2>8. n \notin Range(seen)
    BY <1>4, <2>1, <2>3 DEF n
  <2>9. \A k \in DOMAIN q : k = 1 \/ (k - 1 \in 1 .. N - 1 /\ k - 1 + 1 = k)
    BY <1>3, <2>1
  <2>10. ASSUME NEW m \in D
         PROVE  m \notin Range(seen) <=> IsBelow(n, m) \/ \E k \in 1 .. N - 1 : IsBelow(q[k + 1], m)
    <3>1. ASSUME NEW k \in DOMAIN q, IsBelow(q[k], m)
          PROVE  IsBelow(n, m) \/ \E j \in 1 .. N - 1 : IsBelow(q[j + 1], m)
      <4>1. CASE k = 1
        BY <3>1, <4>1 DEF n
      <4>2. CASE k # 1
        <5>1. k - 1 \in 1 .. N - 1 /\ k - 1 + 1 = k
          BY <2>9, <4>2
        <5>2. IsBelow(q[k - 1 + 1], m)
          BY <3>1, <5>1
        <5> QED BY <5>1, <5>2
      <4> QED BY <4>1, <4>2
    <3>2. IsBelow(n, m) => \E k \in DOMAIN q : IsBelow(q[k], m)
      BY <2>1 DEF n
    <3>3. \A k \in 1 .. N - 1 : IsBelow(q[k + 1], m) => \E j \in DOMAIN q : IsBelow(q[j], m)
      BY <2>6
    <3> QED BY <1>4, <3>1, <3>2, <3>3
  <2>11. ASSUME NEW m \in D, m \notin Range(seen), m # n PROVE Precedes("bfs", n, m)
    <3>1. CASE IsBelow(n, m)
      BY <1>5, <1>6, <2>1, <2>11, <3>1
    <3>2. ASSUME NEW k \in 1 .. N - 1, IsBelow(q[k + 1], m) PROVE Precedes("bfs", n, m)
      <4>1. CASE m = q[k + 1]
        BY <2>6, <4>1
      <4>2. CASE m # q[k + 1]
        <5>1. Depth(q[k + 1]) < Depth(m) /\ q[k + 1] \in D
          BY <1>6, <2>6, <3>2, <4>2
        <5>2. Depth(n) < Depth(q[k + 1]) \/ Depth(n) = Depth(q[k + 1])
          BY <1>5, <2>1, <2>6
        <5>3. Depth(n) < Depth(m)
          BY <1>6, <2>1, <5>1, <5>2
        <5> QED BY <1>5, <2>1, <5>3
      <4> QED BY <4>1, <4>2
    <3> QED BY <2>10, <2>11, <3>1, <3>2
  <2>12. Visited("bfs", v) /\ Range(v) = Range(seen) \cup {n} /\ v \in Seq(D)
    <3>1. Visited("bfs", v) /\ Range(v) = Range(seen) \cup {n}
      BY <1>1, <1>7, <2>1, <2>8, <2>11, VisitOK DEF D, v
    <3> QED BY <3>1 DEF Visited, D
  <2>13. Visit(s, n) \in WalkType /\ Visit(s, n).order = "bfs" /\ Visit(s, n).seen = v
    BY <1>1, <2>12 DEF Visit, WalkType, D, v, seen
  <2>14. CASE Len(q \o cs) > s.limit
    <3>1. new = Fail(Visit(s, n))
      BY <1>10, <2>1, <2>14 DEF BreadthFirst, new, q, cs, n
    <3> QED BY <2>12, <2>13, <3>1, EndOK DEF new
  <2>15. CASE ~(Len(q \o cs) > s.limit)
    <3>1. new = [Visit(s, n) EXCEPT !.stack.values = ts]
      BY <1>10, <2>1, <2>15 DEF BreadthFirst, new, q, cs, n, ts
    <3>2. new \in WalkType /\ new.order = "bfs" /\ ~new.done /\ new.seen = v /\ new.stack.values = ts
      BY <1>1, <1>2, <2>4, <2>12, <3>1 DEF Visit, WalkType, D, v, seen
    <3>3. ASSUME NEW m \in D
          PROVE  m \notin Range(v) <=> \E k \in DOMAIN ts : IsBelow(ts[k], m)
      <4>1. \A k \in 1 .. N - 1 : ~IsBelow(q[k + 1], n)
        <5> SUFFICES ASSUME NEW k \in 1 .. N - 1, IsBelow(q[k + 1], n) PROVE FALSE
          OBVIOUS
        <5>1. q[k + 1] \in D /\ Precedes("bfs", n, q[k + 1]) /\ ~Precedes("bfs", q[k + 1], n)
          BY <1>8, <2>1, <2>6
        <5>2. q[k + 1] # n
          BY <1>8, <2>1, <5>1
        <5>3. Depth(q[k + 1]) < Depth(n)
          BY <1>6, <2>1, <5>1, <5>2
        <5> QED BY <1>5, <2>1, <5>1, <5>3
      <4>2. m \notin Range(v)
              <=> IsBelow(l, m) \/ IsBelow(r, m) \/ \E k \in 1 .. N - 1 : IsBelow(q[k + 1], m)
        BY <2>1, <2>3, <2>8, <2>10, <2>12, <4>1
      <4>3. IsBelow(l, m) \/ IsBelow(r, m) <=> \E c \in {l, r} \ {None} : IsBelow(c, m)
        BY DEF IsBelow
      <4>4. (\E c \in {l, r} \ {None} : IsBelow(c, m)) <=> \E j \in 1 .. C : IsBelow(cs[j], m)
        BY <2>2
      <4>5. (\E k \in DOMAIN ts : IsBelow(ts[k], m))
              <=> (\E k \in 1 .. N - 1 : IsBelow(q[k + 1], m)) \/ \E j \in 1 .. C : IsBelow(cs[j], m)
        <5>1. ASSUME NEW k \in DOMAIN ts, IsBelow(ts[k], m)
              PROVE  (\E h \in 1 .. N - 1 : IsBelow(q[h + 1], m)) \/ \E j \in 1 .. C : IsBelow(cs[j], m)
          BY <2>5, <2>6, <2>7, <5>1
        <5>2. ASSUME NEW k \in 1 .. N - 1, IsBelow(q[k + 1], m) PROVE \E h \in DOMAIN ts : IsBelow(ts[h], m)
          BY <2>6, <5>2
        <5>3. ASSUME NEW j \in 1 .. C, IsBelow(cs[j], m) PROVE \E h \in DOMAIN ts : IsBelow(ts[h], m)
          BY <2>7, <5>3
        <5> QED BY <5>1, <5>2, <5>3
      <4> QED BY <4>2, <4>3, <4>4, <4>5
    <3>4. ASSUME NEW k \in 1 .. N - 1, NEW c \in {l, r} \ {None} PROVE Precedes("bfs", q[k + 1], c)
      <4> DEFINE x == q[k + 1]
                 p == tree[x].parent
      <4>1. /\ x \in D /\ Precedes("bfs", n, x) /\ c \in D /\ Depth(c) = Depth(n) + 1
            /\ Depth(x) <= Depth(n) + 1 /\ (x # 1 => p \in Range(seen)) /\ x # n
        BY <1>4, <1>8, <2>1, <2>3, <2>6 DEF n
      <4>2. Depth(n) \in Nat /\ Depth(x) \in Nat /\ Depth(c) \in Nat
        BY <1>6, <2>1, <4>1
      <4> HIDE DEF x, p
      <4>3. CASE Depth(x) # Depth(c)
        <5>1. Depth(x) < Depth(c)
          BY <4>1, <4>2, <4>3
        <5> QED BY <1>5, <4>1, <5>1 DEF x
      <4>4. CASE Depth(x) = Depth(c)
        <5>1. x # 1
          <6>1. Depth(n) < Depth(x)
            BY <4>1, <4>2, <4>4
          <6>2. ASSUME x = 1 PROVE FALSE
            <7>1. 1 \in Above(tree)[n] /\ IsBelow(1, n)
              <8>1. \A y \in D : y \in {z \in D : 1 \in Above(tree)[z]}
                <9> DEFINE S == {z \in D : 1 \in Above(tree)[z]}
                <9>1. \A y \in D : y = 1 \/ tree[y].parent \in S => y \in S
                  BY AboveIs DEF D
                <9>2. \A y \in D : y \in S
                  <10> HIDE DEF S
                  <10> QED BY <9>1, FromParents DEF D
                <9> QED BY <9>2
              <8> QED BY <2>1, <8>1 DEF IsBelow, None
            <7>2. Depth(1) < Depth(n)
              BY <1>6, <2>1, <4>1, <6>2, <7>1
            <7> QED BY <4>2, <6>1, <6>2, <7>2
          <6> QED BY <6>2
        <5>2. p \in D /\ x \in {tree[p].left, tree[p].right} \ {None} /\ p \in Range(seen)
          BY <4>1, <5>1, LinkedParts DEF TreeLinked, D, p
        <5>3. Depth(x) = Depth(p) + 1 /\ IsBelow(p, x)
          <6>1. Depth(x) = Depth(p) + 1
            BY <5>2, DepthOK DEF D
          <6>2. p \in Above(tree)[x]
            BY <5>2, AboveIs DEF D
          <6> QED BY <4>1, <5>2, <6>1, <6>2, BelowOK DEF D
        <5>4. Depth(p) = Depth(n) /\ Depth(p) \in Nat
          BY <1>6, <4>1, <4>2, <4>4, <5>2, <5>3
        <5>5. ~Precedes("bfs", n, p)
          BY <1>1, <2>1, <2>8, <5>2 DEF Visited, D
        <5>6. Precedes("bfs", p, n)
          BY <1>8, <2>1, <2>8, <5>2, <5>5
        <5>7. LeftOf(p, n)
          BY <1>5, <2>1, <5>2, <5>4, <5>6
        <5>8. LeftOf(x, c)
          BY <2>1, <2>3, <4>1, <5>2, <5>3, <5>7, LeftOfIs DEF D
        <5> QED BY <1>5, <4>1, <4>4, <5>8 DEF x
      <4> QED BY <4>3, <4>4
    <3>5. ASSUME NEW k \in DOMAIN ts, NEW j \in DOMAIN ts, k < j PROVE Precedes("bfs", ts[k], ts[j])
      <4>1. CASE j \in 1 .. N - 1
        <5>1. k \in 1 .. N - 1 /\ k + 1 < j + 1
          BY <2>1, <2>4, <3>5, <4>1
        <5> QED BY <1>4, <2>6, <4>1, <5>1
      <4>2. ASSUME NEW b \in 1 .. C, j = N - 1 + b, k \in 1 .. N - 1 PROVE Precedes("bfs", ts[k], ts[j])
        BY <2>6, <2>7, <3>4, <4>2
      <4>3. ASSUME NEW a \in 1 .. C, NEW b \in 1 .. C, k = N - 1 + a, j = N - 1 + b
            PROVE  Precedes("bfs", ts[k], ts[j])
        <5>1. a < b
          BY <2>1, <2>2, <3>5, <4>3
        <5>2. ts[k] = l /\ ts[j] = r /\ l # None /\ r # None
          BY <2>2, <2>7, <4>3, <5>1
        <5>3. LeftOf(l, r) /\ Depth(l) = Depth(r) /\ l \in D /\ r \in D
          BY <2>3, <5>2
        <5> QED BY <1>5, <5>2, <5>3
      <4> QED BY <2>5, <4>1, <4>2, <4>3
    <3>6. \A k \in DOMAIN ts :
            /\ ts[k] \in D /\ Depth(n) <= Depth(ts[k]) /\ Depth(ts[k]) <= Depth(n) + 1
            /\ ts[k] # 1 => tree[ts[k]].parent \in Range(v)
      <4>1. ASSUME NEW k \in 1 .. N - 1
            PROVE  /\ ts[k] \in D /\ Depth(n) <= Depth(ts[k]) /\ Depth(ts[k]) <= Depth(n) + 1
                   /\ ts[k] # 1 => tree[ts[k]].parent \in Range(v)
        <5>1. ts[k] = q[k + 1] /\ q[k + 1] \in D /\ k + 1 \in DOMAIN q /\ Precedes("bfs", n, q[k + 1])
          BY <2>6
        <5>2. Depth(n) \in Nat /\ Depth(q[k + 1]) \in Nat
          BY <1>6, <2>1, <5>1
        <5>3. Depth(n) <= Depth(q[k + 1])
          BY <1>5, <2>1, <5>1, <5>2
        <5> QED BY <1>4, <2>12, <5>1, <5>3 DEF n
      <4>2. ASSUME NEW j \in 1 .. C, NEW k, k = N - 1 + j
            PROVE  /\ ts[k] \in D /\ Depth(n) <= Depth(ts[k]) /\ Depth(ts[k]) <= Depth(n) + 1
                   /\ ts[k] # 1 => tree[ts[k]].parent \in Range(v)
        <5>1. ts[k] \in {l, r} \ {None}
          BY <2>7, <4>2
        <5>2. ts[k] \in D /\ tree[ts[k]].parent = n /\ Depth(ts[k]) = Depth(n) + 1
          BY <2>3, <5>1
        <5>3. Depth(n) \in Nat
          BY <1>6, <2>1
        <5> QED BY <2>12, <5>2, <5>3
      <4> QED BY <2>5, <4>1, <4>2
    <3>7. \A k \in DOMAIN ts : Depth(ts[k]) <= Depth(ts[1]) + 1
      <4> SUFFICES ASSUME NEW k \in DOMAIN ts PROVE Depth(ts[k]) <= Depth(ts[1]) + 1
        OBVIOUS
      <4>1. 1 \in DOMAIN ts
        BY <2>1, <2>2, <2>4
      <4>2. Depth(ts[k]) \in Nat /\ Depth(ts[1]) \in Nat /\ Depth(n) \in Nat
        BY <1>6, <2>1, <3>6, <4>1
      <4> QED BY <3>6, <4>1, <4>2
    <3>8. BfsRuns(new)
      BY <3>2, <3>3, <3>5, <3>6, <3>7 DEF BfsRuns, D
    <3> QED BY <2>12, <3>2, <3>8 DEF WalkOK, new
  <2> QED BY <2>14, <2>15
<1> QED BY <1>9, <1>10

LEMMA StepKeeps ==
  ASSUME TreeLinked(tree), NEW s, WalkOK(s), ~s.done
  PROVE  WalkOK(Step(s))
<1>1. s.order \in {"pre", "in", "post", "bfs"}
  BY DEF WalkOK, WalkType, Orders
<1>2. CASE s.order = "pre"
  <2>1. Step(s) = PreOrder(s)
    BY <1>2 DEF Step
  <2> QED BY <1>2, <2>1, PreKeeps
<1>3. CASE s.order = "in"
  <2>1. Step(s) = InOrder(s)
    BY <1>3 DEF Step
  <2> QED BY <1>3, <2>1, InKeeps
<1>4. CASE s.order = "post"
  <2>1. Step(s) = PostOrder(s)
    BY <1>4 DEF Step
  <2> QED BY <1>4, <2>1, PostKeeps
<1>5. CASE s.order = "bfs"
  <2>1. Step(s) = BreadthFirst(s)
    BY <1>5 DEF Step
  <2> QED BY <1>5, <2>1, BfsKeeps
<1> QED BY <1>1, <1>2, <1>3, <1>4, <1>5

(* A traversal begins at the root, above every node.                       *)
LEMMA BegunOK ==
  ASSUME TreeLinked(tree), tree # <<>>, NEW order \in Orders, NEW limit \in Nat
  PROVE  WalkOK(Begun(order, limit))
<1> DEFINE D == DOMAIN tree
           q == IF order = "bfs" THEN <<1>> ELSE <<>>
           s == Begun(order, limit)
<1>1. 1 \in D
  BY LinkedParts, EmptySeq DEF TreeLinked
<1>2. \A m \in D : IsBelow(1, m)
  <2> DEFINE S == {m \in D : IsBelow(1, m)}
  <2>1. ASSUME NEW m \in D, m = 1 \/ tree[m].parent \in S PROVE m \in S
    <3>1. CASE m = 1
      BY <1>1, <3>1, AboveIs DEF IsBelow, None
    <3>2. CASE m # 1
      <4>1. Above(tree)[m] = {m} \cup Above(tree)[tree[m].parent]
        BY <3>2, AboveIs
      <4> QED BY <2>1, <3>2, <4>1 DEF IsBelow
    <3> QED BY <3>1, <3>2
  <2>2. \A m \in D : m \in S
    <3> HIDE DEF S
    <3> QED BY <2>1, FromParents
  <2> QED BY <2>2
<1>3. q \in Seq(D)
  <2>1. <<>> \in Seq(D)
    OBVIOUS
  <2>2. <<1>> \in Seq(D)
    BY <1>1
  <2> QED BY <2>1, <2>2
<1>4. s.stack = [values |-> q, size |-> 1]
  BY DEF Begun, NewStack, Pushed
<1> HIDE DEF q
<1>5. s \in WalkType
  <2>1. <<>> \in Seq(D)
    OBVIOUS
  <2>2. s.stack \in [values : Seq(D), size : Nat]
    BY <1>3, <1>4
  <2>3. s = [order |-> order, node |-> 1, seen |-> <<>>, limit |-> limit, ok |-> TRUE, done |-> FALSE,
             stack |-> s.stack]
    BY DEF Begun
  <2> DEFINE st == s.stack
  <2> HIDE DEF s, st
  <2>4. [order |-> order, node |-> 1, seen |-> <<>>, limit |-> limit, ok |-> TRUE, done |-> FALSE,
         stack |-> st] \in WalkType
    BY <1>1, <2>1, <2>2 DEF WalkType, st
  <2> QED BY <2>3, <2>4 DEF st
<1>6. /\ s.order = order /\ s.node = 1 /\ s.seen = <<>> /\ s.stack.values = q /\ ~s.done
  BY <1>4 DEF Begun
<1> HIDE DEF s
<1>7. DOMAIN <<>> = {} /\ Range(<<>>) = {}
  BY DEF Range
<1>8. Visited(order, <<>>)
  <2>1. <<>> \in Seq(DOMAIN tree)
    OBVIOUS
  <2> QED BY <1>7, <2>1 DEF Visited
<1>9. ASSUME order # "bfs" PROVE q = <<>> /\ DOMAIN q = {}
  BY <1>7, <1>9 DEF q
<1>10. order = "pre" => PreRuns(s)
  BY <1>2, <1>6, <1>7, <1>9 DEF PreRuns
<1>11. order = "in" => InRuns(s)
  BY <1>2, <1>6, <1>7, <1>9 DEF InRuns
<1>12. order = "post" => PostRuns(s)
  BY <1>2, <1>6, <1>7, <1>9 DEF PostRuns
<1>13. ASSUME order = "bfs" PROVE BfsRuns(s)
  <2>1. q = <<1>> /\ DOMAIN q = {1} /\ q[1] = 1
    BY <1>13 DEF q
  <2>2. Depth(1) \in Nat
    BY <1>1, DepthOK
  <2> QED BY <1>2, <1>6, <1>7, <2>1, <2>2 DEF BfsRuns
<1>14. WalkOK(s)
  BY <1>5, <1>6, <1>8, <1>10, <1>11, <1>12, <1>13 DEF WalkOK
<1> QED BY <1>14 DEF s, q

(* What the invariant means.                                               *)
LEMMA TreeInvMeans == TreeInv => TreeIsTraversed
<1> SUFFICES ASSUME TreeInv PROVE TreeIsTraversed
  OBVIOUS
<1> DEFINE D == DOMAIN tree
<1>1. /\ \A n \in D : /\ tree[n] \in NodeType /\ tree[n].parent \in 0 .. n - 1
                      /\ (tree[n].parent = None <=> n = 1) /\ n \in Nat
                      /\ n # 1 => n \in {tree[tree[n].parent].left, tree[tree[n].parent].right}
  BY LinkedParts DEF TreeInv, TreeLinked
<1>2. \A n \in D : tree[n].value \in Keys
  BY <1>1 DEF NodeType
<1>3. walk = NoWalk => walk.order = "none" /\ walk.ok /\ walk.seen = <<>> /\ walk.done
  BY DEF NoWalk
<1>4. Range(<<>>) = {}
  BY DEF Range
<1>5. WalkOK(walk) => walk.ok \in BOOLEAN /\ Range(walk.seen) \subseteq D
  <2> SUFFICES ASSUME WalkOK(walk) PROVE walk.ok \in BOOLEAN /\ Range(walk.seen) \subseteq D
    OBVIOUS
  <2>1. walk.ok \in BOOLEAN /\ walk.seen \in Seq(D)
    BY DEF WalkOK, WalkType
  <2>2. \A k \in DOMAIN walk.seen : walk.seen[k] \in D
    BY <2>1, LenProperties, ElementOfSeq
  <2> QED BY <2>1, <2>2 DEF Range
<1>6. TreeTypeOK
  <2>1. walk.ok \in BOOLEAN /\ Range(walk.seen) \subseteq D
    BY <1>3, <1>4, <1>5 DEF TreeInv
  <2>2. \A n \in D : n > 1 => n # 1
    OBVIOUS
  <2> QED BY <1>1, <1>2, <2>1, <2>2 DEF TreeTypeOK, TreeInv
<1>7. TraversalInOrder
  <2>1. CASE walk = NoWalk
    BY <1>3, <2>1 DEF TraversalInOrder
  <2>2. CASE WalkOK(walk)
    BY <2>2 DEF TraversalInOrder, WalkOK, Visited
  <2> QED BY <2>1, <2>2 DEF TreeInv
<1>8. DestroyReadsLive
  <2> SUFFICES ASSUME walk.order = "post", ~walk.done PROVE LooksAt(walk) \cap Range(walk.seen) = {}
    BY DEF DestroyReadsLive
  <2> DEFINE vs == walk.stack.values
  <2>1. PostRuns(walk) /\ walk \in WalkType
    BY <1>3 DEF TreeInv, WalkOK
  <2>2. vs \in Seq(D) /\ walk.node \in D \cup {None}
    BY <2>1 DEF WalkType
  <2>3. ASSUME NEW m \in D, IsBelow(walk.node, m) \/ \E k \in DOMAIN vs : m = vs[k]
        PROVE  m \notin Range(walk.seen)
    BY <2>1, <2>3 DEF PostRuns
  <2>4. walk.node # None => walk.node \notin Range(walk.seen)
    <3> SUFFICES ASSUME walk.node # None PROVE walk.node \notin Range(walk.seen)
      OBVIOUS
    <3>1. walk.node \in D /\ IsBelow(walk.node, walk.node)
      BY <2>2, BelowOK DEF TreeInv
    <3> QED BY <2>3, <3>1
  <2>5. Count(walk.stack) > 0 => Top(walk.stack) \notin Range(walk.seen)
    <3> SUFFICES ASSUME Len(vs) > 0 PROVE Last(vs) \notin Range(walk.seen)
      BY DEF Count, Top
    <3>1. vs # <<>>
      BY EmptySeq, <2>2
    <3>2. Last(vs) = vs[Len(vs)] /\ Last(vs) \in D /\ Len(vs) \in DOMAIN vs
      BY <2>2, <3>1, FrontOK
    <3> QED BY <2>3, <3>2
  <2> QED BY <2>4, <2>5 DEF LooksAt
<1> QED BY <1>6, <1>7, <1>8 DEF TreeIsTraversed, TreeInv

-----------------------------------------------------------------------------
(* The descent to the place for a value ends at a node that has none on    *)
(* the side of the value, and took the value's side at each node above it. *)
LEMMA PlaceOK ==
  ASSUME TreeLinked(tree), tree # <<>>, NEW v
  PROVE  /\ Place(v) \in DOMAIN tree /\ tree[Place(v)][Side(v, Place(v))] = None
         /\ \A a \in Above(tree)[Place(v)] : a # Place(v) =>
              tree[a][Side(v, a)] # None /\ tree[a][Side(v, a)] \in Above(tree)[Place(v)]
<1> DEFINE D == DOMAIN tree
           A == Above(tree)
           N == Len(tree)
           Child(n) == tree[n][Side(v, n)]
           Down(n) == IF Child(n) = None THEN n ELSE Child(n)
           Body(f, h) == IF h = 0 THEN 1 ELSE Down(f[h - 1])
           Upto(f, k) == f = [h \in 0 .. k |-> Body(f, h)]
<1>1. D = 1 .. N /\ N \in Nat /\ 1 \in D
  BY LinkedParts, EmptySeq DEF TreeLinked
<1>2. \A n \in D : Child(n) = tree[n].left \/ Child(n) = tree[n].right
  BY DEF Side
<1>3. \A n \in D : /\ n \in Nat /\ n \in A[n] /\ A[n] \subseteq D
                   /\ Child(n) # None => Child(n) \in D /\ n < Child(n) /\ A[Child(n)] = {Child(n)} \cup A[n]
  <2>1. \A n \in D : /\ n \in A[n] /\ A[n] \subseteq D
                     /\ \A c \in {tree[n].left, tree[n].right} \ {None} :
                          c \in D /\ n < c /\ A[c] = {c} \cup A[n]
    BY AboveIs
  <2>2. \A n \in D : n \in Nat
    BY <1>1
  <2> HIDE DEF D, A, Child
  <2> QED BY <1>2, <2>1, <2>2
<1>4. A[1] = {1}
  BY <1>1, AboveIs
<1> HIDE DEF D, A, N, Child
<1>5. \A k \in 0 .. N : \E f : Upto(f, k)
  <2> DEFINE T == {k \in 0 .. N : ~ \E f : Upto(f, k)}
  <2> SUFFICES ASSUME T # {} PROVE FALSE
    OBVIOUS
  <2>1. T \in SUBSET Nat
    BY <1>1
  <2> HIDE DEF T
  <2>2. PICK m \in T : \A g \in T : m <= g
    BY <2>1, LeastOK
  <2>3. m \in 0 .. N /\ ~ \E f : Upto(f, m)
    <3> HIDE DEF Upto
    <3> QED BY DEF T
  <2>4. CASE m = 0
    <3>1. Upto([h \in 0 .. 0 |-> 1], 0)
      OBVIOUS
    <3> QED BY <2>3, <2>4, <3>1
  <2>5. CASE m # 0
    <3>1. m - 1 \in 0 .. N /\ m - 1 \notin T /\ m \in Nat /\ m - 1 \in Nat
      BY <1>1, <2>2, <2>3, <2>5
    <3>2. PICK g : Upto(g, m - 1)
      <4> HIDE DEF Upto
      <4> QED BY <3>1 DEF T
    <3> DEFINE f == [h \in 0 .. m |-> IF h < m THEN g[h] ELSE Body(g, h)]
    <3>3. ASSUME NEW h \in 0 .. m PROVE f[h] = Body(f, h)
      <4>1. h # 0 => h - 1 \in 0 .. m /\ h - 1 < m /\ f[h - 1] = g[h - 1]
        BY <3>1
      <4>2. Body(f, h) = Body(g, h)
        <5> HIDE DEF f, Down
        <5> QED BY <4>1
      <4>3. CASE h < m
        <5>1. h \in 0 .. m - 1
          BY <4>3, <3>1
        <5>2. g[h] = Body(g, h)
          <6> HIDE DEF f, Down
          <6> QED BY <5>1, <3>2
        <5> HIDE DEF Body
        <5> QED BY <4>2, <4>3, <5>2
      <4>4. CASE ~(h < m)
        <5> HIDE DEF Body
        <5> QED BY <4>2, <4>4
      <4> QED BY <4>3, <4>4
    <3>4. Upto(f, m)
      <4> HIDE DEF Body
      <4> QED BY <3>3
    <3> QED BY <2>3, <3>4
  <2> QED BY <2>4, <2>5
<1>6. PICK node : Upto(node, N)
  <2> HIDE DEF Upto
  <2>1. N \in 0 .. N
    BY <1>1
  <2> QED BY <1>5, <2>1
<1> DEFINE way == CHOOSE f : Upto(f, N)
<1>7. Place(v) = way[N]
  BY DEF Place, N, Child
<1>8. Upto(way, N)
  <2> HIDE DEF Upto
  <2> QED BY <1>6
<1> HIDE DEF way
<1>9. way[0] = 1 /\ \A k \in 1 .. N : way[k] = Down(way[k - 1])
  <2> HIDE DEF Down
  <2>1. \A h \in 0 .. N : way[h] = Body(way, h)
    <3> HIDE DEF Body
    <3> QED BY <1>8
  <2>2. way[0] = 1
    BY <1>1, <2>1
  <2>3. ASSUME NEW k \in 1 .. N PROVE way[k] = Down(way[k - 1])
    <3>1. k \in 0 .. N /\ k # 0
      BY <1>1
    <3> QED BY <2>1, <3>1
  <2> QED BY <2>2, <2>3
<1> DEFINE Taken(n) == \A a \in A[n] : a # n => Child(a) # None /\ Child(a) \in A[n]
           OK(k) == way[k] \in D /\ Taken(way[k]) /\ (way[k] > k \/ Child(way[k]) = None)
<1>10. \A k \in 0 .. N : OK(k)
  <2> DEFINE T == {k \in 0 .. N : ~OK(k)}
  <2> SUFFICES ASSUME T # {} PROVE FALSE
    OBVIOUS
  <2>1. T \in SUBSET Nat
    BY <1>1
  <2> HIDE DEF T
  <2>2. PICK m \in T : \A g \in T : m <= g
    BY <2>1, LeastOK
  <2>3. m \in 0 .. N /\ ~OK(m)
    <3> HIDE DEF OK
    <3> QED BY DEF T
  <2>4. CASE m = 0
    BY <1>1, <1>4, <1>9, <2>3, <2>4
  <2>5. CASE m # 0
    <3>1. m - 1 \in 0 .. N /\ m - 1 \notin T /\ m \in 1 .. N /\ m \in Nat
      BY <1>1, <2>2, <2>3, <2>5
    <3>2. OK(m - 1)
      <4> HIDE DEF OK
      <4> QED BY <3>1 DEF T
    <3> DEFINE n == way[m - 1]
    <3>3. n \in D /\ Taken(n) /\ (n > m - 1 \/ Child(n) = None) /\ way[m] = Down(n)
      BY <1>9, <3>1, <3>2
    <3> HIDE DEF n
    <3>4. CASE Child(n) = None
      BY <2>3, <3>3, <3>4
    <3>5. CASE Child(n) # None
      <4> DEFINE c == Child(n)
      <4>1. way[m] = c /\ c # None /\ c \in D /\ n < c /\ A[c] = {c} \cup A[n] /\ n \in Nat /\ c \in Nat
        BY <1>3, <3>3, <3>5
      <4>2. c > m
        BY <3>1, <3>3, <3>5, <4>1
      <4>3. Taken(c)
        BY <3>3, <4>1
      <4> HIDE DEF c, Taken
      <4> QED BY <2>3, <4>1, <4>2, <4>3
    <3> QED BY <3>4, <3>5
  <2> QED BY <2>4, <2>5
<1>11. way[N] \in D /\ Taken(way[N]) /\ Child(way[N]) = None
  <2>1. OK(N)
    <3> HIDE DEF OK
    <3>1. N \in 0 .. N
      BY <1>1
    <3> QED BY <1>10, <3>1
  <2>2. ~(way[N] > N)
    BY <1>1, <2>1
  <2> QED BY <2>1, <2>2
<1> QED BY <1>7, <1>11 DEF D, A, Child

(* The tree with a value added is linked, and what was above a node still  *)
(* is.                                                                     *)
Added(v) == Append([tree EXCEPT ![Place(v)][Side(v, Place(v))] = Len(tree) + 1],
                   [Node(v) EXCEPT !.parent = Place(v)])
AddedIs(t, v) ==
  /\ TreeLinked(t) /\ Len(t) = Len(tree) + 1
  /\ DOMAIN t = DOMAIN tree \cup {Len(tree) + 1} /\ Len(tree) + 1 \notin DOMAIN tree
  /\ \A n \in DOMAIN tree :
       /\ t[n].value = tree[n].value
       /\ t[n].left = IF n = Place(v) /\ Side(v, n) = "left" THEN Len(tree) + 1 ELSE tree[n].left
       /\ t[n].right = IF n = Place(v) /\ Side(v, n) = "right" THEN Len(tree) + 1 ELSE tree[n].right
       /\ Above(t)[n] = Above(tree)[n]
  /\ t[Len(tree) + 1].value = v
  /\ t[Len(tree) + 1].left = None /\ t[Len(tree) + 1].right = None
  /\ Above(t)[Len(tree) + 1] = {Len(tree) + 1} \cup Above(tree)[Place(v)]

LEMMA AddedOK ==
  ASSUME TreeLinked(tree), tree # <<>>, NEW v \in Keys, NEW t, t = Added(v)
  PROVE  AddedIs(t, v)
<1> DEFINE D == DOMAIN tree
           c == Len(tree) + 1
           p == Place(v)
           side == Side(v, p)
           old == [tree EXCEPT ![p][side] = c]
           leaf == [Node(v) EXCEPT !.parent = p]
<1>1. /\ D = 1 .. Len(tree) /\ Len(tree) \in Nat /\ 1 \in D /\ c \in Nat /\ c \notin D /\ c # 1 /\ c # None
      /\ tree \in Seq(NodeType)
  <2>1. tree \in Seq(NodeType) /\ D = 1 .. Len(tree) /\ Len(tree) \in Nat /\ Len(tree) # 0
    BY LinkedParts, EmptySeq DEF TreeLinked
  <2> QED BY <2>1 DEF None
<1>2. p \in D /\ tree[p][side] = None
  BY PlaceOK
<1>3. side \in {"left", "right"}
  BY DEF Side
<1>4. \A n \in D : /\ n \in Nat /\ n # None /\ tree[n] \in NodeType
                   /\ tree[n].parent \in 0 .. n - 1 /\ (tree[n].parent = None <=> n = 1)
                   /\ n # 1 => /\ tree[n].parent \in D
                               /\ n \in {tree[tree[n].parent].left, tree[tree[n].parent].right}
                   /\ \A k \in {tree[n].left, tree[n].right} \ {None} : k \in D /\ tree[k].parent = n
                   /\ tree[n].left = tree[n].right => tree[n].left = None
  BY LinkedParts DEF TreeLinked
<1>5. leaf = [value |-> v, parent |-> p, left |-> None, right |-> None]
  BY DEF Node
<1> HIDE DEF p, leaf, c
<1>6. t = Append(old, leaf)
  BY DEF Added, p, leaf, c
<1> HIDE DEF D, side
<1>7. ASSUME NEW n \in D
      PROVE  /\ old[n] \in NodeType /\ old[n].value = tree[n].value /\ old[n].parent = tree[n].parent
             /\ old[n].left = IF n = p /\ side = "left" THEN c ELSE tree[n].left
             /\ old[n].right = IF n = p /\ side = "right" THEN c ELSE tree[n].right
  <2>1. tree[n] \in NodeType /\ tree[p] \in NodeType
    BY <1>2, <1>4
  <2>2. old[n] = IF n = p THEN [tree[p] EXCEPT ![side] = c] ELSE tree[n]
    BY <1>1, <1>2 DEF D
  <2>3. tree[p].value \in Keys /\ tree[p].parent \in Nat /\ tree[p].left \in Nat /\ tree[p].right \in Nat
    BY <2>1 DEF NodeType
  <2> HIDE DEF old
  <2>4. CASE n # p
    BY <2>1, <2>2, <2>4
  <2>5. CASE n = p /\ side = "left"
    <3> DEFINE w == [value |-> tree[p].value, parent |-> tree[p].parent,
                     left |-> c, right |-> tree[p].right]
    <3>1. [tree[p] EXCEPT !["left"] = c] = w
      BY <2>1 DEF NodeType
    <3>2. w \in NodeType
      BY <1>1, <2>3 DEF NodeType
    <3>3. old[n] = w
      <4> HIDE DEF w
      <4> QED BY <2>2, <2>5, <3>1
    <3> QED BY <2>5, <3>2, <3>3
  <2>6. CASE n = p /\ side = "right"
    <3> DEFINE w == [value |-> tree[p].value, parent |-> tree[p].parent,
                     left |-> tree[p].left, right |-> c]
    <3>1. [tree[p] EXCEPT !["right"] = c] = w
      BY <2>1 DEF NodeType
    <3>2. w \in NodeType
      BY <1>1, <2>3 DEF NodeType
    <3>3. old[n] = w
      <4> HIDE DEF w
      <4> QED BY <2>2, <2>6, <3>1
    <3> QED BY <2>6, <3>2, <3>3
  <2> QED BY <1>3, <2>4, <2>5, <2>6
<1>8. old \in Seq(NodeType) /\ Len(old) = Len(tree)
  <2>1. old = [n \in 1 .. Len(tree) |-> old[n]]
    BY <1>1 DEF D
  <2> HIDE DEF old
  <2>2. old \in [1 .. Len(tree) -> NodeType]
    BY <1>1, <1>7, <2>1
  <2> QED BY <1>1, <2>2, LenProperties, SeqDef
<1> HIDE DEF old
<1>9. leaf \in NodeType
  BY <1>1, <1>2, <1>4, <1>5 DEF NodeType, None
<1>10. /\ t \in Seq(NodeType) /\ Len(t) = c /\ DOMAIN t = D \cup {c}
       /\ t[c] = leaf /\ \A n \in D : t[n] = old[n]
  <2>1. /\ t \in Seq(NodeType) /\ Len(t) = Len(old) + 1
        /\ \A n \in 1 .. Len(old) : t[n] = old[n]
        /\ t[Len(old) + 1] = leaf
    BY <1>6, <1>8, <1>9, AppendProperties
  <2>2. DOMAIN t = 1 .. Len(tree) + 1
    BY <1>8, <2>1, LenProperties
  <2> QED BY <1>1, <1>8, <2>1, <2>2 DEF c
<1>11. /\ t[c].value = v /\ t[c].parent = p /\ t[c].left = None /\ t[c].right = None
       /\ \A n \in D : /\ t[n].value = tree[n].value /\ t[n].parent = tree[n].parent
                       /\ t[n].left = IF n = p /\ side = "left" THEN c ELSE tree[n].left
                       /\ t[n].right = IF n = p /\ side = "right" THEN c ELSE tree[n].right
  BY <1>5, <1>7, <1>10
<1>12. (side = "left" => tree[p].left = None) /\ (side = "right" => tree[p].right = None)
  BY <1>2
<1>13. TreeLinked(t)
  <2>1. ASSUME NEW n \in DOMAIN t
        PROVE  t[n].parent \in 0 .. n - 1 /\ (t[n].parent = None <=> n = 1)
    <3>1. CASE n \in D
      BY <1>4, <1>11, <3>1
    <3>2. CASE n = c
      <4>1. p \in 0 .. c - 1 /\ p # None
        BY <1>1, <1>2, <1>4 DEF c
      <4> QED BY <1>1, <1>11, <3>2, <4>1
    <3> QED BY <1>10, <3>1, <3>2
  <2>2. ASSUME NEW n \in DOMAIN t, n # 1
        PROVE  n \in {t[t[n].parent].left, t[t[n].parent].right}
    <3>1. CASE n \in D
      <4> DEFINE q == tree[n].parent
      <4>1. q \in D /\ n \in {tree[q].left, tree[q].right} /\ n # None /\ t[n].parent = q
        BY <1>4, <1>11, <2>2, <3>1
      <4> HIDE DEF q
      <4> QED BY <1>11, <1>12, <4>1
    <3>2. CASE n = c
      BY <1>2, <1>3, <1>11, <3>2
    <3> QED BY <1>10, <3>1, <3>2
  <2>3. ASSUME NEW n \in DOMAIN t
        PROVE  /\ \A k \in {t[n].left, t[n].right} \ {None} : k \in DOMAIN t /\ t[k].parent = n
               /\ t[n].left = t[n].right => t[n].left = None
    <3>1. CASE n \in D
      <4>1. \A k \in {tree[n].left, tree[n].right} \ {None} : k \in D /\ tree[k].parent = n /\ k # c
        BY <1>1, <1>4, <3>1
      <4>2. \A k \in {t[n].left, t[n].right} \ {None} : k \in DOMAIN t /\ t[k].parent = n
        BY <1>10, <1>11, <3>1, <4>1
      <4>3. t[n].left = t[n].right => t[n].left = None
        BY <1>1, <1>3, <1>4, <1>11, <3>1, <4>1
      <4> QED BY <4>2, <4>3
    <3>2. CASE n = c
      BY <1>11, <3>2
    <3> QED BY <1>10, <3>1, <3>2
  <2> QED BY <1>10, <2>1, <2>2, <2>3 DEF TreeLinked
<1> DEFINE A == Above(tree)
           B == Above(t)
<1>14. /\ \A n \in DOMAIN t : B[n] = {n} \cup (IF t[n].parent = None THEN {} ELSE B[t[n].parent])
       /\ \A n \in D : A[n] = {n} \cup (IF tree[n].parent = None THEN {} ELSE A[tree[n].parent])
  BY <1>13, AboveOK DEF D
<1> HIDE DEF A, B
<1>15. \A n \in D : B[n] = A[n]
  <2> DEFINE S == {n \in D : B[n] = A[n]}
  <2>1. ASSUME NEW n \in D, n = 1 \/ tree[n].parent \in S PROVE n \in S
    <3>1. n \in DOMAIN t /\ t[n].parent = tree[n].parent /\ (tree[n].parent = None <=> n = 1)
      BY <1>4, <1>10, <1>11
    <3>2. /\ B[n] = {n} \cup (IF tree[n].parent = None THEN {} ELSE B[tree[n].parent])
          /\ A[n] = {n} \cup (IF tree[n].parent = None THEN {} ELSE A[tree[n].parent])
      BY <1>14, <3>1
    <3>3. tree[n].parent # None => B[tree[n].parent] = A[tree[n].parent]
      BY <2>1, <3>1
    <3>4. B[n] = A[n]
      BY <3>2, <3>3
    <3> QED BY <3>4
  <2>2. \A n \in D : n \in S
    <3> HIDE DEF S
    <3> QED BY <2>1, FromParents DEF D
  <2> QED BY <2>2
<1>16. B[c] = {c} \cup A[p]
  <2>1. c \in DOMAIN t /\ t[c].parent = p /\ p # None /\ p \in D
    BY <1>2, <1>4, <1>10, <1>11
  <2> QED BY <1>14, <1>15, <2>1
<1>17. \A n \in D : (n = p /\ Side(v, n) = "left" <=> n = p /\ side = "left")
                    /\ (n = p /\ Side(v, n) = "right" <=> n = p /\ side = "right")
  BY DEF side
<1>18. \A n \in D : /\ t[n].left = IF n = p /\ Side(v, n) = "left" THEN c ELSE tree[n].left
                    /\ t[n].right = IF n = p /\ Side(v, n) = "right" THEN c ELSE tree[n].right
  BY <1>11, <1>17
<1> QED BY <1>1, <1>10, <1>11, <1>13, <1>15, <1>16, <1>18 DEF D, c, p, A, B, AddedIs

LEMMA AddKeeps ==
  ASSUME TreeInv, TreeAdd
  PROVE  TreeInv'
<1> USE TreeAssumption
<1>1. PICK v \in Keys : /\ Len(tree) < MaxNodes /\ walk' = NoWalk
                        /\ tree' = IF tree = <<>> THEN <<Node(v)>> ELSE Added(v)
  BY DEF TreeAdd, Added
<1>2. TreeLinked(tree) /\ Len(tree) \in Nat
  BY LinkedParts DEF TreeInv
<1>3. (walk = NoWalk \/ WalkOK(walk))'
  <2>1. NoWalk' = NoWalk
    BY DEF NoWalk, NewStack
  <2> QED BY <1>1, <2>1
<1>4. CASE tree = <<>>
  <2>1. /\ tree' = <<Node(v)>> /\ DOMAIN tree' = {1} /\ Len(tree') = 1 /\ tree'[1] = Node(v)
        /\ Node(v) = [value |-> v, parent |-> 0, left |-> 0, right |-> 0]
    BY <1>1, <1>4 DEF Node, None
  <2>2. Node(v) \in NodeType /\ tree' \in Seq(NodeType)
    BY <2>1 DEF NodeType
  <2>3. TreeLinked(tree')
    BY <2>1, <2>2 DEF TreeLinked, None
  <2>4. TreeIsSearchable'
    BY <2>1 DEF TreeIsSearchable, OnLeft, OnRight, None
  <2> QED BY <1>3, <2>1, <2>3, <2>4 DEF TreeInv, TreeLinked
<1>5. CASE tree # <<>>
  <2> DEFINE D == DOMAIN tree
             c == Len(tree) + 1
             p == Place(v)
             A == Above(tree)
             t == tree'
             B == Above(tree')
  <2>1. t = Added(v)
    BY <1>1, <1>5
  <2>2. p \in D /\ \A a \in A[p] : a # p => tree[a][Side(v, a)] # None /\ tree[a][Side(v, a)] \in A[p]
    BY <1>2, <1>5, PlaceOK
  <2>3. /\ \A n \in D : /\ n \in A[n] /\ A[n] \subseteq D
                        /\ \A k \in {tree[n].left, tree[n].right} \ {None} : k \in D
        /\ \A a, n \in D : /\ OnLeft(a, n) => a \in A[n] /\ a # n /\ ~OnRight(a, n)
                           /\ OnRight(a, n) => a \in A[n] /\ a # n
        /\ \A a, n \in D : /\ OnLeft(a, n) <=> tree[a].left # None /\ tree[a].left \in A[n]
                           /\ OnRight(a, n) <=> tree[a].right # None /\ tree[a].right \in A[n]
    <3>1. \A n \in D : /\ n \in A[n] /\ A[n] \subseteq D
                       /\ \A k \in {tree[n].left, tree[n].right} \ {None} : k \in D
      BY <1>2, AboveIs
    <3>2. \A a, n \in D : /\ OnLeft(a, n) => a \in A[n] /\ a # n /\ ~OnRight(a, n)
                          /\ OnRight(a, n) => a \in A[n] /\ a # n
      BY <1>2, SidesOK
    <3>3. \A a, n \in D : /\ OnLeft(a, n) <=> tree[a].left # None /\ tree[a].left \in A[n]
                          /\ OnRight(a, n) <=> tree[a].right # None /\ tree[a].right \in A[n]
      BY DEF OnLeft, OnRight
    <3> QED BY <3>1, <3>2, <3>3
  <2>4. AddedIs(t, v)
    <3> HIDE DEF t
    <3> QED BY <1>2, <1>5, <2>1, AddedOK
  <2>5. \A a, n \in DOMAIN t : /\ OnLeft(a, n)' <=> t[a].left # None /\ t[a].left \in B[n]
                               /\ OnRight(a, n)' <=> t[a].right # None /\ t[a].right \in B[n]
    BY DEF OnLeft, OnRight
  <2>6. \A n \in D : tree[n].value \in Int
    <3>1. \A n \in D : tree[n] \in NodeType
      BY <1>2, LinkedParts
    <3> QED BY <3>1 DEF NodeType
  <2>7. \A n \in D : /\ Side(v, n) = "left" <=> v <= tree[n].value
                     /\ Side(v, n) = "right" <=> ~(v <= tree[n].value)
                     /\ Side(v, n) = "left" \/ Side(v, n) = "right"
                     /\ Side(v, n) = "left" => tree[n][Side(v, n)] = tree[n].left
                     /\ Side(v, n) = "right" => tree[n][Side(v, n)] = tree[n].right
    BY DEF Side
  <2>8. \A a, n \in D : /\ OnLeft(a, n) => tree[n].value <= tree[a].value
                        /\ OnRight(a, n) => tree[n].value > tree[a].value
    BY DEF TreeInv, TreeIsSearchable
  <2>9. v \in Int
    OBVIOUS
  <2> HIDE DEF D, c, p, A, t, B
  <2>10. \A a \in A[p] : a # p => a \in D /\ (Side(v, a) = "left" <=> OnLeft(a, p))
                                  /\ (Side(v, a) = "right" <=> OnRight(a, p))
    BY <2>2, <2>3, <2>7
  <2>11. /\ DOMAIN t = D \cup {c} /\ c \notin D
         /\ \A n \in D : /\ t[n].value = tree[n].value /\ B[n] = A[n]
                         /\ t[n].left = IF n = p /\ Side(v, n) = "left" THEN c ELSE tree[n].left
                         /\ t[n].right = IF n = p /\ Side(v, n) = "right" THEN c ELSE tree[n].right
         /\ t[c].value = v /\ t[c].left = None /\ t[c].right = None /\ B[c] = {c} \cup A[p]
    BY <2>4 DEF AddedIs, D, c, p, A, B, t
  <2>12. ASSUME NEW a \in DOMAIN t, NEW n \in DOMAIN t
         PROVE  /\ OnLeft(a, n)' => t[n].value <= t[a].value
                /\ OnRight(a, n)' => t[n].value > t[a].value
    <3>1. CASE a = c
      BY <2>5, <2>11, <3>1
    <3>2. CASE a \in D /\ n \in D
      <4>1. c \notin A[n]
        BY <2>3, <2>11, <3>2
      <4>2. (OnLeft(a, n)' => OnLeft(a, n)) /\ (OnRight(a, n)' => OnRight(a, n))
        BY <2>3, <2>5, <2>11, <3>2, <4>1
      <4> QED BY <2>8, <2>11, <3>2, <4>2
    <3>3. CASE a \in D /\ n = c
      <4>1. ASSUME OnLeft(a, n)' PROVE v <= tree[a].value
        <5>1. t[a].left # None /\ t[a].left \in {c} \cup A[p]
          BY <2>5, <2>11, <3>3, <4>1
        <5>2. CASE a = p /\ Side(v, a) = "left"
          BY <2>7, <3>3, <5>2
        <5>3. CASE ~(a = p /\ Side(v, a) = "left")
          <6>1. tree[a].left # None /\ tree[a].left \in A[p]
            BY <2>3, <2>11, <3>3, <5>1, <5>3
          <6>2. OnLeft(a, p) /\ a \in A[p] /\ a # p
            BY <2>2, <2>3, <3>3, <6>1
          <6> QED BY <2>7, <2>10, <3>3, <6>2
        <5> QED BY <5>2, <5>3
      <4>2. ASSUME OnRight(a, n)' PROVE ~(v <= tree[a].value)
        <5>1. t[a].right # None /\ t[a].right \in {c} \cup A[p]
          BY <2>5, <2>11, <3>3, <4>2
        <5>2. CASE a = p /\ Side(v, a) = "right"
          BY <2>7, <3>3, <5>2
        <5>3. CASE ~(a = p /\ Side(v, a) = "right")
          <6>1. tree[a].right # None /\ tree[a].right \in A[p]
            BY <2>3, <2>11, <3>3, <5>1, <5>3
          <6>2. OnRight(a, p) /\ a \in A[p] /\ a # p
            BY <2>2, <2>3, <3>3, <6>1
          <6> QED BY <2>7, <2>10, <3>3, <6>2
        <5> QED BY <5>2, <5>3
      <4>3. t[n].value = v /\ t[a].value = tree[a].value /\ tree[a].value \in Int /\ v \in Int
        BY <2>6, <2>9, <2>11, <3>3
      <4> QED BY <4>1, <4>2, <4>3
    <3> QED BY <2>11, <3>1, <3>2, <3>3
  <2>13. TreeIsSearchable'
    BY <2>12 DEF TreeIsSearchable, t
  <2>14. Len(t) <= MaxNodes
    BY <1>1, <1>2, <2>4 DEF AddedIs
  <2> QED BY <1>3, <2>4, <2>13, <2>14 DEF AddedIs, TreeInv, t, TreeLinked
<1> QED BY <1>4, <1>5

(* A pass changes no links.                                                *)
LEMMA WalkOKStays ==
  ASSUME tree' = tree, NEW s, WalkOK(s), walk' = s
  PROVE  WalkOK(walk)'
<1>1. \A a, n : /\ OnLeft(a, n)' <=> OnLeft(a, n)
                /\ OnRight(a, n)' <=> OnRight(a, n)
                /\ IsBelow(a, n)' <=> IsBelow(a, n)
  BY DEF OnLeft, OnRight, IsBelow
<1>2. \A n : Depth(n)' = Depth(n)
  BY DEF Depth
<1>3. \A m, n : LeftOf(m, n)' <=> LeftOf(m, n)
  BY <1>1 DEF LeftOf
<1>4. \A order, m, n : Precedes(order, m, n)' <=> Precedes(order, m, n)
  BY <1>1, <1>2, <1>3 DEF Precedes
<1>5. s \in WalkType /\ WalkType' = WalkType
  BY DEF WalkOK, WalkType
<1>6. Visited(walk.order, walk.seen)' <=> Visited(s.order, s.seen)
  BY <1>4 DEF Visited
<1>7. PreRuns(walk)' <=> PreRuns(s)
  BY <1>1, <1>3 DEF PreRuns
<1>8. InRuns(walk)' <=> InRuns(s)
  BY <1>1 DEF InRuns
<1>9. PostRuns(walk)' <=> PostRuns(s)
  BY <1>1 DEF PostRuns, Went
<1>10. BfsRuns(walk)' <=> BfsRuns(s)
  BY <1>1, <1>2, <1>4 DEF BfsRuns
<1> QED BY <1>5, <1>6, <1>7, <1>8, <1>9, <1>10 DEF WalkOK

LEMMA TreeInvKept ==
  ASSUME TreeInv, [TreeNext]_treeVars
  PROVE  TreeInv'
<1>1. ASSUME tree' = tree, walk' = NoWalk \/ WalkOK(walk') PROVE TreeInv'
  <2>1. (walk = NoWalk \/ WalkOK(walk))'
    <3>1. NoWalk' = NoWalk
      BY DEF NoWalk, NewStack
    <3>2. WalkOK(walk') => WalkOK(walk)'
      BY <1>1, WalkOKStays
    <3> QED BY <1>1, <3>1, <3>2
  <2>2. TreeIsSearchable'
    BY <1>1 DEF TreeInv, TreeIsSearchable, OnLeft, OnRight
  <2>3. (Len(tree) <= MaxNodes /\ TreeLinked(tree))'
    BY <1>1 DEF TreeInv, TreeLinked
  <2> QED BY <2>1, <2>2, <2>3 DEF TreeInv
<1>2. CASE TreeAdd
  BY <1>2, AddKeeps
<1>3. CASE TreeTraverse
  <2>1. PICK order \in Orders, limit \in 1 .. MaxNodes :
          tree # <<>> /\ tree' = tree /\ walk' = Begun(order, limit)
    BY <1>3 DEF TreeTraverse
  <2>2. limit \in Nat
    BY TreeAssumption
  <2>3. WalkOK(Begun(order, limit))
    BY <2>1, <2>2, BegunOK DEF TreeInv
  <2> QED BY <1>1, <2>1, <2>3
<1>4. CASE TreeStep
  <2>1. ~walk.done /\ walk' = Step(walk) /\ tree' = tree
    BY <1>4 DEF TreeStep
  <2>2. WalkOK(walk)
    BY <2>1 DEF TreeInv, NoWalk
  <2>3. WalkOK(Step(walk))
    BY <2>1, <2>2, StepKeeps DEF TreeInv
  <2> QED BY <1>1, <2>1, <2>3
<1>5. CASE UNCHANGED treeVars
  BY <1>1, <1>5 DEF treeVars, TreeInv
<1> QED BY <1>2, <1>3, <1>4, <1>5 DEF TreeNext

(* Adding to the tree of bst_redblack.c keeps it one that a search by      *)
(* comparison finds every value of, and each of bst_rb_traverse's four     *)
(* orders meets every node, once and in its order, up to the last unless   *)
(* memory runs out; bst_rb_destroy's pass looks at no node it has freed.   *)
THEOREM TraversalMeetsAll == TreeSpec => []TreeIsTraversed
<1>1. TreeInit => TreeInv
  <2> SUFFICES ASSUME TreeInit PROVE TreeInv
    OBVIOUS
  <2>1. tree = <<>> /\ walk = NoWalk /\ Len(tree) = 0 /\ DOMAIN tree = {} /\ tree \in Seq(NodeType)
    BY DEF TreeInit
  <2>2. TreeLinked(tree)
    BY <2>1 DEF TreeLinked
  <2>3. TreeIsSearchable
    BY <2>1 DEF TreeIsSearchable
  <2> QED BY <2>1, <2>2, <2>3, TreeAssumption DEF TreeInv
<1>2. TreeInv /\ [TreeNext]_treeVars => TreeInv'
  BY TreeInvKept
<1>3. TreeInv => TreeIsTraversed
  BY TreeInvMeans
<1> QED BY <1>1, <1>2, <1>3, PTL DEF TreeSpec
=============================================================================

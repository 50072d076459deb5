------------------------- MODULE SocketStreamProofs -------------------------
(***************************************************************************)
(* What is under way between the two ends of a SocketPair (the second half *)
(* of SocketPairInv), and from it that the sockets implement Stream and    *)
(* that two ends never wait for each other.                                *)
(***************************************************************************)
EXTENDS SocketPairProofs

(* What is under way grows at its end, and is taken from its beginning.    *)
LEMMA Joined ==
  ASSUME NEW s \in Seq(Int), NEW t \in Seq(Int)
  PROVE  /\ s \o t \in Seq(Int) /\ Len(s \o t) = Len(s) + Len(t)
         /\ \A i \in 1 .. Len(s) : (s \o t)[i] = s[i]
         /\ \A i \in 1 .. Len(t) : (s \o t)[Len(s) + i] = t[i]
OBVIOUS

LEMMA Rests ==
  ASSUME NEW pipe \in Seq(Int), NEW k \in Nat, k <= Len(pipe)
  PROVE  /\ SubSeq(pipe, k + 1, Len(pipe)) \in Seq(Int)
         /\ Len(SubSeq(pipe, k + 1, Len(pipe))) = Len(pipe) - k
         /\ \A i \in 1 .. Len(pipe) - k : SubSeq(pipe, k + 1, Len(pipe))[i] = pipe[k + i]
<1>1. SubSeq(pipe, k + 1, Len(pipe)) \in Seq(Int)
  BY ElementOfSeq
<1>2. Len(SubSeq(pipe, k + 1, Len(pipe))) = Len(pipe) - k
  OBVIOUS
<1>3. ASSUME NEW i \in 1 .. Len(pipe) - k
      PROVE  SubSeq(pipe, k + 1, Len(pipe))[i] = pipe[k + i]
  OBVIOUS
<1> QED BY <1>1, <1>2, <1>3

(* A longer content begins as the shorter one does.                        *)
LEMMA Extends ==
  ASSUME NEW pipe \in Seq(Int), NEW more \in Seq(Int), NEW said, NEW given \in Nat,
         NEW a \in Nat, NEW h \in Nat, NEW d \in Nat, NEW t \in Nat,
         Consists(pipe, said, given, a, h, d, t),
         NEW h2 \in Nat, NEW d2 \in Nat, NEW t2 \in Nat,
         h2 + d2 + t2 = h + d + t + Len(more),
         h <= h2, h = h2 \/ d + t = 0, d <= d2, d = d2 \/ t = 0,
         \A j \in 1 .. Len(more) :
           more[j] = Segment(said, given, a, h2, d2, a + h + d + t + j)
  PROVE  Consists(pipe \o more, said, given, a, h2, d2, t2)
<1> DEFINE n == a + h + d + t
           new == pipe \o more
<1>h. h <= h2 /\ (h = h2 \/ d + t = 0)
  OBVIOUS
<1>d. d <= d2 /\ (d = d2 \/ t = 0)
  OBVIOUS
<1>0. Len(pipe) = n
  BY DEF Consists
<1> HIDE DEF n
<1>1. /\ Len(pipe) = n /\ Len(more) \in Nat /\ Len(new) = n + Len(more)
      /\ \A i \in 1 .. n : new[i] = pipe[i]
      /\ \A j \in 1 .. Len(more) : new[n + j] = more[j]
  <2>1. /\ Len(new) = Len(pipe) + Len(more) /\ Len(more) \in Nat
        /\ \A i \in 1 .. Len(pipe) : new[i] = pipe[i]
        /\ \A j \in 1 .. Len(more) : new[Len(pipe) + j] = more[j]
    BY Joined, SMTT(20)
  <2> HIDE DEF new
  <2> QED BY <1>0, <2>1
<1> USE DEF n
<1>2. \A i \in 1 .. n : pipe[i] = Segment(said, given, a, h, d, i)
  BY <1>1 DEF Consists
<1> HIDE DEF new
<1>3. ASSUME NEW i \in 1 .. n PROVE new[i] = Segment(said, given, a, h2, d2, i)
  <2>n. i \in Nat /\ i <= a + h + d + t
    OBVIOUS
  <2>0. new[i] = Segment(said, given, a, h, d, i)
    BY <1>1, <1>2
  <2>1. Segment(said, given, a, h, d, i) = Segment(said, given, a, h2, d2, i)
    <3>1. CASE i <= a
      BY <2>0, <3>1 DEF Segment
    <3>2. CASE a < i /\ i <= a + h
      <4>1. i <= a + h2
        BY <1>h, <2>n, <3>2
      <4>2. ~(i <= a)
        BY <2>n, <3>2
      <4> QED BY <3>2, <4>1, <4>2 DEF Segment
    <3>3. CASE a + h < i /\ i <= a + h + d
      <4>1. h2 = h /\ d2 >= d
        BY <1>h, <1>d, <2>n, <3>3
      <4>2. i <= a + h2 + d2 /\ a + h2 < i
        BY <2>n, <3>3, <4>1
      <4>0. ~(i <= a) /\ ~(i <= a + h) /\ ~(i <= a + h2)
        BY <2>n, <3>3, <4>2
      <4>3. Segment(said, given, a, h, d, i) = given + i - a - h
        BY <3>3, <4>0 DEF Segment
      <4>4. Segment(said, given, a, h2, d2, i) = given + i - a - h2
        BY <4>2, <4>0 DEF Segment
      <4> QED BY <4>1, <4>3, <4>4
    <3>4. CASE a + h + d < i
      <4>1. h2 = h /\ d2 = d
        BY <1>h, <1>d, <2>n, <3>4
      <4> QED BY <4>1
    <3> QED BY <2>n, <3>1, <3>2, <3>3, <3>4
  <2> QED BY <2>0, <2>1
<1>4. ASSUME NEW i \in 1 .. n + Len(more), i > n
      PROVE  new[i] = Segment(said, given, a, h2, d2, i)
  <2>0. Len(more) \in Nat /\ n \in Nat
    BY <1>1
  <2> HIDE DEF n
  <2>1. i - n \in 1 .. Len(more) /\ n + (i - n) = i
    BY <1>4, <2>0
  <2>2. new[n + (i - n)] = more[i - n]
    BY <1>1, <2>1
  <2>3. more[i - n] = Segment(said, given, a, h2, d2, n + (i - n))
    BY <2>1 DEF n
  <2> QED BY <2>1, <2>2, <2>3
<1>5. \A i \in 1 .. Len(new) : new[i] = Segment(said, given, a, h2, d2, i)
  <2> SUFFICES ASSUME NEW i \in 1 .. n + Len(more)
               PROVE  new[i] = Segment(said, given, a, h2, d2, i)
    BY <1>1
  <2>1. CASE i <= n
    BY <1>3, <2>1
  <2>2. CASE i > n
    BY <1>4, <2>2
  <2> QED BY <1>1, <2>1, <2>2
<1>6. Len(new) = a + h2 + d2 + t2
  <2>1. Len(new) = n + Len(more) /\ Len(more) \in Nat /\ h2 + d2 + t2 = h + d + t + Len(more)
    BY <1>1
  <2>2. ASSUME NEW l \in Nat, h2 + d2 + t2 = h + d + t + l
        PROVE  a + h + d + t + l = a + h2 + d2 + t2
    BY <2>2
  <2> QED BY <2>1, <2>2
<1> QED BY <1>5, <1>6 DEF Consists, new

LEMMA AppendHellos ==
  ASSUME NEW pipe \in Seq(Int), NEW said, NEW given \in Nat,
         NEW a \in Nat, NEW h \in Nat, NEW k \in Nat, Consists(pipe, said, given, a, h, 0, 0)
  PROVE  Consists(pipe \o Hellos(k), said, given, a, h + k, 0, 0)
<1>1. Hellos(k) \in Seq(Int) /\ Len(Hellos(k)) = k /\ \A i \in 1 .. k : Hellos(k)[i] = HelloSegment
  BY DEF Hellos, HelloSegment
<1>2. ASSUME NEW j \in 1 .. k
      PROVE  Hellos(k)[j] = Segment(said, given, a, h + k, 0, a + h + 0 + 0 + j)
  <2> DEFINE i == a + h + 0 + 0 + j
  <2>1. i \in Nat /\ a < i /\ i <= a + (h + k) /\ h + k \in Nat /\ 0 \in Nat
    OBVIOUS
  <2> HIDE DEF i
  <2>2. Segment(said, given, a, h + k, 0, i) = HelloSegment
    <3>1. ~(i <= a) /\ i <= a + (h + k)
      BY <2>1
    <3> QED BY <3>1 DEF Segment
  <2> QED BY <1>1, <2>2 DEF i
<1>3. /\ h + k + 0 + 0 = h + 0 + 0 + k /\ h <= h + k /\ h + k \in Nat /\ 0 \in Nat
  OBVIOUS
<1> DEFINE more == Hellos(k)
<1>4. more \in Seq(Int) /\ Len(more) = k
      /\ \A j \in 1 .. Len(more) : more[j] = Segment(said, given, a, h + k, 0, a + h + 0 + 0 + j)
  BY <1>1, <1>2
<1> HIDE DEF more
<1>5. Consists(pipe \o more, said, given, a, h + k, 0, 0)
  <2>1. h + k + 0 + 0 = h + 0 + 0 + Len(more) /\ (h = h + k \/ 0 + 0 = 0)
        /\ (0 = 0 \/ 0 = 0) /\ 0 <= 0
    BY <1>3, <1>4
  <2> QED BY <1>3, <1>4, <2>1, Extends
<1> QED BY <1>5 DEF more

LEMMA AppendData ==
  ASSUME NEW pipe \in Seq(Int), NEW said, NEW given \in Nat,
         NEW a \in Nat, NEW h \in Nat, NEW d \in Nat, NEW data \in Seq(Int),
         Consists(pipe, said, given, a, h, d, 0),
         \A i \in 1 .. Len(data) : data[i] = given + d + i
  PROVE  Consists(pipe \o data, said, given, a, h, d + Len(data), 0)
<1>0. Len(data) \in Nat
  OBVIOUS
<1>1. ASSUME NEW j \in 1 .. Len(data)
      PROVE  data[j] = Segment(said, given, a, h, d + Len(data), a + h + d + 0 + j)
  <2> DEFINE i == a + h + d + 0 + j
  <2>0. j \in Nat /\ j >= 1 /\ j <= Len(data)
    BY <1>0
  <2>1. i \in Nat /\ a + h < i /\ i <= a + h + (d + Len(data)) /\ given + i - a - h = given + d + j
    BY <1>0, <2>0
  <2> HIDE DEF i
  <2>2. Segment(said, given, a, h, d + Len(data), i) = given + i - a - h
    <3>1. ~(i <= a) /\ ~(i <= a + h) /\ i <= a + h + (d + Len(data))
      BY <2>1
    <3> QED BY <3>1 DEF Segment
  <2> QED BY <2>1, <2>2 DEF i
<1>2. /\ h + (d + Len(data)) + 0 = h + d + 0 + Len(data)
      /\ d <= d + Len(data) /\ 0 \in Nat /\ d + Len(data) \in Nat
  BY <1>0
<1> QED BY <1>1, <1>2, Extends

LEMMA AppendNotify ==
  ASSUME NEW pipe \in Seq(Int), NEW said, NEW given \in Nat,
         NEW a \in Nat, NEW h \in Nat, NEW d \in Nat,
         Consists(pipe, said, given, a, h, d, 0)
  PROVE  Consists(pipe \o <<CloseNotify>>, said, given, a, h, d, 1)
<1>1. <<CloseNotify>> \in Seq(Int) /\ Len(<<CloseNotify>>) = 1 /\ <<CloseNotify>>[1] = CloseNotify
  BY SocketAssumption DEF CloseNotify
<1>2. ASSUME NEW j \in 1 .. Len(<<CloseNotify>>)
      PROVE  <<CloseNotify>>[j] = Segment(said, given, a, h, d, a + h + d + 0 + j)
  <2> DEFINE i == a + h + d + 0 + j
  <2>0. j = 1
    BY <1>1
  <2>1. i \in Nat /\ a + h + d < i
    OBVIOUS
  <2> HIDE DEF i
  <2>2. Segment(said, given, a, h, d, i) = CloseNotify
    <3>1. ~(i <= a) /\ ~(i <= a + h) /\ ~(i <= a + h + d)
      BY <2>1
    <3> QED BY <3>1 DEF Segment
  <2> QED BY <1>1, <2>0, <2>2 DEF i
<1> DEFINE more == <<CloseNotify>>
<1>3. /\ more \in Seq(Int) /\ h + d + 1 = h + d + 0 + Len(more)
      /\ h <= h /\ d <= d /\ 0 \in Nat /\ 1 \in Nat
  BY <1>1
<1>4. \A j \in 1 .. Len(more) : more[j] = Segment(said, given, a, h, d, a + h + d + 0 + j)
  BY <1>2
<1> HIDE DEF more
<1>5. Consists(pipe \o more, said, given, a, h, d, 1)
  BY <1>3, <1>4, Extends
<1> QED BY <1>5 DEF more

LEMMA AppendAnswer ==
  ASSUME NEW pipe \in Seq(Int), NEW said \in Seq(Int), NEW given \in Nat,
         NEW a \in Nat, NEW x \in Int, a <= Len(said),
         Consists(pipe, said, given, a, 0, 0, 0)
  PROVE  Consists(Append(pipe, x), Append(said, x), given, a + 1, 0, 0, 0)
<1> DEFINE new == Append(pipe, x)
           all == Append(said, x)
<1>1. /\ Len(pipe) = a /\ Len(new) = a + 1 /\ Len(all) = Len(said) + 1
      /\ \A i \in 1 .. a : new[i] = pipe[i]
      /\ new[a + 1] = x
      /\ \A i \in 1 .. Len(said) : all[i] = said[i]
      /\ all[Len(said) + 1] = x /\ Len(said) \in Nat
  BY DEF Consists
<1>2. \A i \in 1 .. a : pipe[i] = Segment(said, given, a, 0, 0, i)
  BY <1>1 DEF Consists
<1> HIDE DEF new, all
<1>l. Len(all) = Len(said) + 1 /\ Len(said) \in Nat
  BY <1>1
<1>3. ASSUME NEW i \in 1 .. a + 1
      PROVE  new[i] = Segment(all, given, a + 1, 0, 0, i)
  <2>a. i \in Nat /\ a + 1 \in Nat /\ i <= a + 1 /\ 0 \in Nat /\ (i <= a \/ i = a + 1)
    OBVIOUS
  <2>b. Len(all) - (a + 1) + i = Len(said) - a + i
    BY <1>l
  <2>0. Segment(all, given, a + 1, 0, 0, i) = all[Len(said) - a + i]
    BY <2>a, <2>b DEF Segment
  <2>1. CASE i <= a
    <3>0. i \in 1 .. a
      BY <2>1
    <3>1. pipe[i] = said[Len(said) - a + i]
      BY <1>2, <2>1, <3>0 DEF Segment
    <3>2. Len(said) - a + i \in 1 .. Len(said)
      BY <1>l, <2>1
    <3> QED BY <1>1, <2>0, <3>0, <3>1, <3>2
  <2>2. CASE i = a + 1
    <3>1. Len(said) - a + i = Len(said) + 1
      BY <1>l, <2>2
    <3> QED BY <1>1, <2>0, <2>2, <3>1
  <2> QED BY <2>a, <2>1, <2>2
<1>4. Len(new) = (a + 1) + 0 + 0 + 0
  BY <1>1
<1> QED BY <1>1, <1>3, <1>4 DEF Consists, new, all

(* What is left after k were taken.                                        *)
LEMMA TakeAnswer ==
  ASSUME NEW pipe \in Seq(Int), NEW said, NEW given \in Nat, Len(said) \in Nat,
         NEW a \in Nat, NEW h \in Nat, NEW d \in Nat, NEW t \in Nat, NEW k \in Nat, k <= a,
         Consists(pipe, said, given, a, h, d, t)
  PROVE  k <= Len(pipe) /\ Consists(SubSeq(pipe, k + 1, Len(pipe)), said, given, a - k, h, d, t)
<1> DEFINE rest == SubSeq(pipe, k + 1, Len(pipe))
<1>1. k <= Len(pipe) /\ Len(pipe) = a + h + d + t
  BY DEF Consists
<1>2. Len(rest) = Len(pipe) - k /\ \A i \in 1 .. Len(pipe) - k : rest[i] = pipe[k + i]
  BY <1>1, Rests
<1> HIDE DEF rest
<1>3. ASSUME NEW i \in 1 .. Len(pipe) - k
      PROVE  rest[i] = Segment(said, given, a - k, h, d, i)
  <2>0. k + i \in 1 .. Len(pipe) /\ i \in Nat
    BY <1>1
  <2>1. rest[i] = pipe[k + i] /\ k + i \in 1 .. Len(pipe) /\ i \in Nat
    BY <1>2, <2>0
  <2>2. pipe[k + i] = Segment(said, given, a, h, d, k + i)
    BY <2>1 DEF Consists
  <2>3. Len(said) - a + (k + i) = Len(said) - (a - k) + i /\ (k + i <= a <=> i <= a - k)
        /\ (k + i <= a + h <=> i <= (a - k) + h) /\ (k + i <= a + h + d <=> i <= (a - k) + h + d)
        /\ given + (k + i) - a - h = given + i - (a - k) - h
    BY <2>1
  <2> QED BY <2>1, <2>2, <2>3 DEF Segment
<1>4. Len(rest) = (a - k) + h + d + t /\ Len(rest) = Len(pipe) - k
  BY <1>1, <1>2
<1> QED BY <1>1, <1>3, <1>4 DEF Consists, rest

LEMMA TakeHellos ==
  ASSUME NEW pipe \in Seq(Int), NEW said, NEW given \in Nat,
         NEW h \in Nat, NEW d \in Nat, NEW t \in Nat, NEW k \in Nat, k <= h,
         Consists(pipe, said, given, 0, h, d, t)
  PROVE  k <= Len(pipe) /\ Consists(SubSeq(pipe, k + 1, Len(pipe)), said, given, 0, h - k, d, t)
<1> DEFINE rest == SubSeq(pipe, k + 1, Len(pipe))
<1>1. k <= Len(pipe) /\ Len(pipe) = h + d + t
  BY DEF Consists
<1>2. Len(rest) = Len(pipe) - k /\ \A i \in 1 .. Len(pipe) - k : rest[i] = pipe[k + i]
  BY <1>1, Rests
<1> HIDE DEF rest
<1>3. ASSUME NEW i \in 1 .. Len(pipe) - k
      PROVE  rest[i] = Segment(said, given, 0, h - k, d, i)
  <2>1. rest[i] = pipe[k + i] /\ k + i \in 1 .. Len(pipe) /\ i \in Nat /\ i > 0
    BY <1>1, <1>2
  <2>2. pipe[k + i] = Segment(said, given, 0, h, d, k + i)
    BY <2>1 DEF Consists
  <2>3. ~(k + i <= 0) /\ ~(i <= 0) /\ (k + i <= 0 + h <=> i <= 0 + (h - k))
        /\ (k + i <= 0 + h + d <=> i <= 0 + (h - k) + d)
        /\ given + (k + i) - 0 - h = given + i - 0 - (h - k)
    BY <2>1
  <2> QED BY <2>1, <2>2, <2>3 DEF Segment
<1>4. Len(rest) = 0 + (h - k) + d + t /\ Len(rest) = Len(pipe) - k
  BY <1>1, <1>2
<1> QED BY <1>1, <1>3, <1>4 DEF Consists, rest

LEMMA TakeByte ==
  ASSUME NEW pipe \in Seq(Int), NEW said, NEW given \in Nat,
         NEW d \in Nat, NEW t \in Nat, d > 0, Consists(pipe, said, given, 0, 0, d, t)
  PROVE  /\ pipe # <<>> /\ Head(pipe) = given + 1
         /\ Consists(SubSeq(pipe, 1 + 1, Len(pipe)), said, given + 1, 0, 0, d - 1, t)
<1> DEFINE rest == SubSeq(pipe, 1 + 1, Len(pipe))
<1>1. 1 <= Len(pipe) /\ Len(pipe) = d + t /\ pipe # <<>> /\ Head(pipe) = pipe[1]
  BY DEF Consists
<1>2. pipe[1] = Segment(said, given, 0, 0, d, 1)
  BY <1>1 DEF Consists
<1>3. Segment(said, given, 0, 0, d, 1) = given + 1
  <2>1. 1 \in Nat /\ 0 + 0 < 1 /\ 1 <= 0 + 0 + d /\ given + 1 - 0 - 0 = given + 1
    OBVIOUS
  <2>2. ~(1 <= 0) /\ ~(1 <= 0 + 0)
    OBVIOUS
  <2>3. Segment(said, given, 0, 0, d, 1) = given + 1 - 0 - 0
    BY <2>1, <2>2 DEF Segment
  <2> QED BY <2>1, <2>3
<1>4. Len(rest) = Len(pipe) - 1 /\ \A i \in 1 .. Len(pipe) - 1 : rest[i] = pipe[1 + i]
  BY <1>1, Rests
<1> HIDE DEF rest
<1>5. ASSUME NEW i \in 1 .. Len(pipe) - 1
      PROVE  rest[i] = Segment(said, given + 1, 0, 0, d - 1, i)
  <2>1. rest[i] = pipe[1 + i] /\ 1 + i \in 1 .. Len(pipe) /\ i \in Nat /\ i > 0
    BY <1>1, <1>4
  <2>2. pipe[1 + i] = Segment(said, given, 0, 0, d, 1 + i)
    BY <2>1 DEF Consists
  <2>3. ~(1 + i <= 0) /\ ~(i <= 0) /\ ~(1 + i <= 0 + 0) /\ ~(i <= 0 + 0)
        /\ (1 + i <= 0 + 0 + d <=> i <= 0 + 0 + (d - 1))
        /\ given + (1 + i) - 0 - 0 = (given + 1) + i - 0 - 0
    BY <2>1
  <2> QED BY <2>1, <2>2, <2>3 DEF Segment
<1>6. Len(rest) = 0 + 0 + (d - 1) + t /\ Len(rest) = Len(pipe) - 1
  BY <1>1, <1>4
<1> QED BY <1>1, <1>2, <1>3, <1>5, <1>6 DEF Consists, rest
-----------------------------------------------------------------------------
(* Positions in the handshake.                                             *)
LEMMA ScriptIs ==
  /\ Len(Script) = 7
  /\ Script[1] = "client" /\ Script[2] = "client" /\ Script[3] = "client"
  /\ Script[4] = "server" /\ Script[5] = "server" /\ Script[6] = "server"
  /\ Script[7] = "client"
BY DEF Script

LEMMA SentByOK ==
  ASSUME NEW p \in 0 .. 7
  PROVE  /\ \A e \in Ends : SentBy(e, p) \in 0 .. 4
         /\ SentBy("client", p) + SentBy("server", p) = p
         /\ \A e \in Ends : SentBy(e, 0) = 0
<1>1. SentBy("client", p) = (IF p <= 3 THEN p ELSE IF p <= 6 THEN 3 ELSE 4)
  BY DEF SentBy
<1>2. SentBy("server", p) = (IF p <= 3 THEN 0 ELSE IF p <= 6 THEN p - 3 ELSE 3)
  BY DEF SentBy
<1>3. SentBy("client", p) \in 0 .. 4 /\ SentBy("server", p) \in 0 .. 4
  BY <1>1, <1>2
<1>4. SentBy("client", p) + SentBy("server", p) = p
  BY <1>1, <1>2
<1>5. SentBy("client", 0) = 0 /\ SentBy("server", 0) = 0
  BY DEF SentBy
<1> QED BY <1>3, <1>4, <1>5 DEF Ends

(* Who is further on has sent as much and more.                            *)
LEMMA SentByGrows ==
  ASSUME NEW p \in 0 .. 7, NEW q \in 0 .. 7, p <= q, NEW e \in Ends
  PROVE  SentBy(e, p) <= SentBy(e, q)
<1>1. SentBy("client", p) <= SentBy("client", q)
  BY DEF SentBy
<1>2. SentBy("server", p) <= SentBy("server", q)
  BY DEF SentBy
<1> QED BY <1>1, <1>2 DEF Ends

(* Where all segments from p to q are one end's, the other sends nothing.  *)
LEMMA SentByOne ==
  ASSUME NEW p \in 0 .. 7, NEW q \in 0 .. 7, p <= q, NEW e \in Ends,
         \A i \in p .. 7 : i < q => Script[i + 1] = e
  PROVE  SentBy(Peer(e), q) = SentBy(Peer(e), p) /\ SentBy(e, q) = SentBy(e, p) + (q - p)
<1>1. Peer("client") = "server" /\ Peer("server") = "client" /\ "client" # "server"
      /\ Ends = {"client", "server"}
  BY DEF Peer, Ends
<1>2. ASSUME NEW i \in {0, 1, 2, 3, 4, 5, 6}, p <= i, i < q PROVE Script[i + 1] = e
  BY <1>2
<1>3. SentBy(Peer(e), q) = SentBy(Peer(e), p)
  <2>1. CASE e = "client"
    <3>1. ~(p <= 3 /\ 3 < q) /\ ~(p <= 4 /\ 4 < q) /\ ~(p <= 5 /\ 5 < q)
      <4>1. Script[3 + 1] # e /\ Script[4 + 1] # e /\ Script[5 + 1] # e
        BY <1>1, <2>1, ScriptIs
      <4> QED BY <1>2, <4>1
    <3>2. SentBy("server", q) = SentBy("server", p)
      BY <3>1 DEF SentBy
    <3> QED BY <1>1, <2>1, <3>2
  <2>2. CASE e = "server"
    <3>1. ~(p <= 0 /\ 0 < q) /\ ~(p <= 1 /\ 1 < q) /\ ~(p <= 2 /\ 2 < q) /\ ~(p <= 6 /\ 6 < q)
      <4>1. Script[0 + 1] # e /\ Script[1 + 1] # e /\ Script[2 + 1] # e /\ Script[6 + 1] # e
        BY <1>1, <2>2, ScriptIs
      <4> QED BY <1>2, <4>1
    <3>2. SentBy("client", q) = SentBy("client", p)
      BY <3>1 DEF SentBy
    <3> QED BY <1>1, <2>2, <3>2
  <2> QED BY <1>1, <2>1, <2>2
<1>4. SentBy("client", p) + SentBy("server", p) = p /\ SentBy("client", q) + SentBy("server", q) = q
      /\ SentBy("client", p) \in Nat /\ SentBy("server", p) \in Nat
      /\ SentBy("client", q) \in Nat /\ SentBy("server", q) \in Nat
  BY SentByOK, <1>1
<1> QED BY <1>1, <1>3, <1>4

(* Ends that have sent each other all they did are at the same position.   *)
LEMMA SamePosition ==
  ASSUME NEW p \in 0 .. 7, NEW q \in 0 .. 7,
         SentBy("client", p) = SentBy("client", q), SentBy("server", p) = SentBy("server", q)
  PROVE  p = q
BY SentByOK

LEMMA ScriptEnds == \A p \in 0 .. 6 : Script[p + 1] \in Ends
<1> SUFFICES ASSUME NEW p \in {0, 1, 2, 3, 4, 5, 6} PROVE Script[p + 1] \in Ends
  OBVIOUS
<1> QED BY ScriptIs DEF Ends

(* What an exchange does to the position, and what it stops for.           *)
LEMMA Advances ==
  ASSUME hs \in [Ends -> 0 .. Len(Script)], NEW e \in Ends, NEW o,
         NEW r \in Nat, NEW w \in Nat, NEW t \in Nat, NEW k \in Nat, Exchanges(e, o, r, w, t, k)
  PROVE  /\ o.hs \in 0 .. 7 /\ hs[e] \in 0 .. 7 /\ o.hs = hs[e] + t + k
         /\ SentBy(e, o.hs) = SentBy(e, hs[e]) + k
         /\ SentBy(Peer(e), o.hs) = SentBy(Peer(e), hs[e]) + t
         /\ SentBy(Peer(e), hs[e]) + t <= SentBy(Peer(e), 7)
         /\ k > 0 => hs[e] < 7
         /\ o.out = "done" => o.hs = 7
         /\ o.out = "want_read" => o.hs < 7 /\ Script[o.hs + 1] # e
         /\ o.out = "want_write" => o.hs < 7 /\ Script[o.hs + 1] = e
<1> DEFINE h == hs[e]
           m == h + t
<1>1. h \in 0 .. 7 /\ Peer(e) \in Ends /\ Peer(e) # e /\ Peer(Peer(e)) = e /\ Len(Script) = 7
  BY PeerOK, ScriptIs
<1>2. /\ r = NextOf(e, h) /\ w = NextOf(Peer(e), r) /\ r \in h .. 7 /\ w \in r .. 7
      /\ t <= r - h /\ k <= w - r /\ (k > 0 => t = r - h) /\ o.hs = h + t + k
      /\ o.out = "want_read" => \/ t < r - h /\ k = 0
                                \/ t = r - h /\ k = w - r /\ w < 7
      /\ o.out = "want_write" => t = r - h /\ k < w - r
      /\ o.out = "done" => o.hs = 7
  BY <1>1 DEF Exchanges
<1>h. h \in Nat /\ h <= 7
  BY <1>1
<1>3. r = 7 \/ Script[r + 1] = e
  BY <1>1, <1>2, Turn
<1>4. \A q \in h .. 7 : q < r => Script[q + 1] # e
  BY <1>1, <1>2, Turn
<1>r. r \in 0 .. 7
  <2>1. r \in h .. 7
    BY <1>2
  <2> HIDE DEF h
  <2> QED BY <2>1, <1>h
<1>5. w = 7 \/ Script[w + 1] = Peer(e)
  BY <1>1, <1>2, <1>r, Turn
<1>6. \A q \in r .. 7 : q < w => Script[q + 1] # Peer(e)
  BY <1>1, <1>2, <1>r, Turn
<1> HIDE DEF h
<1>7. m \in 0 .. 7 /\ m <= r /\ h <= m /\ o.hs \in 0 .. 7 /\ m <= o.hs /\ r <= 7 /\ w <= 7 /\ m \in Nat
  BY <1>2, <1>h, SMTT(20)
<1>k. k > 0 => m = r /\ o.hs <= w
  <2>1. (k > 0 => t = r - h) /\ k <= w - r /\ o.hs = h + t + k
    BY <1>2
  <2>2. ASSUME t = r - h PROVE h + t = r /\ h + t + k <= w
    BY <1>h, <1>7, <2>1, <2>2
  <2> QED BY <2>1, <2>2
<1>l. o.hs = m + k
  BY <1>2, <1>h
<1>8. \A i \in h .. 7 : i < m => Script[i + 1] = Peer(e)
  <2> SUFFICES ASSUME NEW i \in h .. 7, i < m PROVE Script[i + 1] = Peer(e)
    OBVIOUS
  <2>1. i < r /\ i \in 0 .. 6
    <3> HIDE DEF m
    <3> QED BY <1>7, <1>h
  <2>2. Script[i + 1] # e /\ Script[i + 1] \in Ends
    BY <1>4, <2>1, ScriptEnds
  <2> QED BY <2>2, <1>1 DEF Ends, Peer
<1>9. \A i \in m .. 7 : i < o.hs => Script[i + 1] = e
  <2> SUFFICES ASSUME NEW i \in m .. 7, i < o.hs PROVE Script[i + 1] = e
    OBVIOUS
  <2>1. i \in r .. 7 /\ i < w /\ i \in 0 .. 6
    <3> HIDE DEF m
    <3>1. k > 0
      BY <1>7, <1>l
    <3>2. m = r /\ o.hs <= w
      BY <1>k, <3>1
    <3> QED BY <1>7, <3>2
  <2>2. Script[i + 1] # Peer(e) /\ Script[i + 1] \in Ends
    BY <1>6, <2>1, ScriptEnds
  <2> QED BY <2>2, <1>1 DEF Ends, Peer
<1>10. SentBy(e, m) = SentBy(e, h) /\ SentBy(Peer(e), m) = SentBy(Peer(e), h) + (m - h)
  <2>1. h \in 0 .. 7
    BY <1>h
  <2> HIDE DEF m
  <2> QED BY <1>1, <1>7, <1>8, <2>1, SentByOne
<1>11. SentBy(Peer(e), o.hs) = SentBy(Peer(e), m) /\ SentBy(e, o.hs) = SentBy(e, m) + (o.hs - m)
  <2> HIDE DEF m
  <2> QED BY <1>1, <1>7, <1>9, SentByOne
<1>12. m - h = t /\ o.hs - m = k
  BY <1>2, <1>h
<1>13. SentBy(e, o.hs) = SentBy(e, h) + k /\ SentBy(Peer(e), o.hs) = SentBy(Peer(e), h) + t
  BY <1>10, <1>11, <1>12
<1>14. SentBy(Peer(e), o.hs) <= SentBy(Peer(e), 7)
  BY <1>1, <1>7, SentByGrows
<1>15. k > 0 => h < 7
  BY <1>2, <1>h
<1>16. o.out = "want_read" => o.hs < 7 /\ Script[o.hs + 1] # e
  <2>1. CASE t < r - h /\ k = 0
    <3>1. o.hs \in h .. 7 /\ o.hs < r
      BY <1>2, <1>7, <1>h, <2>1, SMTT(20)
    <3> QED BY <1>4, <1>7, <3>1
  <2>2. CASE t = r - h /\ k = w - r /\ w < 7
    <3>1. o.hs = w
      BY <1>2, <1>h, <2>2
    <3> QED BY <1>1, <1>5, <2>2, <3>1
  <2> QED BY <1>2, <2>1, <2>2
<1>17. o.out = "want_write" => o.hs < 7 /\ Script[o.hs + 1] = e
  <2> SUFFICES ASSUME t = r - h /\ k < w - r PROVE o.hs < 7 /\ Script[o.hs + 1] = e
    BY <1>2
  <2>1. o.hs \in r .. 7 /\ o.hs < w /\ o.hs \in 0 .. 6
    <3>1. m = r
      BY <1>h
    <3> HIDE DEF m
    <3>2. o.hs < w /\ r <= o.hs
      BY <1>7, <1>l, <3>1
    <3> QED BY <1>7, <3>2
  <2>2. Script[o.hs + 1] # Peer(e) /\ Script[o.hs + 1] \in Ends
    BY <1>6, <2>1, ScriptEnds
  <2> QED BY <1>1, <2>1, <2>2 DEF Ends, Peer
<1> QED BY <1>1, <1>2, <1>7, <1>13, <1>14, <1>15, <1>16, <1>17 DEF h

(* The whole of it: t segments are taken and k are sent.                   *)
Moves(e, o, t, k) ==
  /\ t <= Len(Inbox(e)) /\ (net.fin[Peer(e)] \/ k <= Room(e))
  /\ o.net = IF k = 0 THEN Taken(e, t) ELSE Sent(e, Taken(e, t), Hellos(k))
  /\ o.hs \in 0 .. 7 /\ o.hs = hs[e] + t + k
  /\ SentBy(e, o.hs) = SentBy(e, hs[e]) + k
  /\ SentBy(Peer(e), o.hs) = SentBy(Peer(e), hs[e]) + t
  /\ SentBy(Peer(e), hs[e]) + t <= SentBy(Peer(e), 7)
  /\ k > 0 => hs[e] < 7
  /\ o.out \in {"want_read", "want_write", "done", "fail"}
  /\ o.out = "done" => o.hs = 7
  /\ o.out = "want_read" => o.hs < 7 /\ Script[o.hs + 1] # e
  /\ o.out = "want_write" => o.hs < 7 /\ Script[o.hs + 1] = e

LEMMA HandshakeMoves ==
  ASSUME Types, NEW e \in Ends, NEW o \in Handshakes(e)
  PROVE  \E t, k \in Nat : Moves(e, o, t, k)
<1>1. PICK r, w, t, k \in Nat : Exchanges(e, o, r, w, t, k)
  BY HandshakeExchanges
<1>2. hs \in [Ends -> 0 .. Len(Script)]
  BY DEF Types
<1>3. /\ o.hs \in 0 .. 7 /\ hs[e] \in 0 .. 7 /\ o.hs = hs[e] + t + k
      /\ SentBy(e, o.hs) = SentBy(e, hs[e]) + k
      /\ SentBy(Peer(e), o.hs) = SentBy(Peer(e), hs[e]) + t
      /\ SentBy(Peer(e), hs[e]) + t <= SentBy(Peer(e), 7)
      /\ k > 0 => hs[e] < 7
      /\ o.out = "done" => o.hs = 7
      /\ o.out = "want_read" => o.hs < 7 /\ Script[o.hs + 1] # e
      /\ o.out = "want_write" => o.hs < 7 /\ Script[o.hs + 1] = e
  BY <1>1, <1>2, Advances, SMTT(20)
<1>4. /\ t <= Len(Inbox(e)) /\ (net.fin[Peer(e)] \/ k <= Room(e))
      /\ o.net = IF k = 0 THEN Taken(e, t) ELSE Sent(e, Taken(e, t), Hellos(k))
      /\ o.out \in {"want_read", "want_write", "done", "fail"}
  BY <1>1 DEF Exchanges
<1> QED BY <1>3, <1>4 DEF Moves
-----------------------------------------------------------------------------
(* The state of the connection.  What moves its content leaves it as it is *)
(* or, sent to an end that is gone, resets it.                             *)
Passes(m) ==
  /\ m.host = net.host /\ m.answer = net.answer /\ m.backlog = net.backlog /\ m.fin = net.fin
  /\ m.link = net.link \/ (Reached /\ m.link = "reset")

LEMMA TakenPasses ==
  ASSUME Types, NEW e \in Ends, NEW k \in Nat, k <= Len(Inbox(e))
  PROVE  Passes(Taken(e, k)) /\ NetOK(Taken(e, k)) /\ Taken(e, k).link = net.link
<1>1. Taken(e, k) = [net EXCEPT !.pipe[Peer(e)] = SubSeq(@, k + 1, Len(@))]
  BY DEF Taken
<1>2. net \in Connections
  BY DEF Types, NetOK
<1>3. /\ Taken(e, k).host = net.host /\ Taken(e, k).answer = net.answer
      /\ Taken(e, k).backlog = net.backlog /\ Taken(e, k).fin = net.fin
      /\ Taken(e, k).link = net.link
  BY <1>1, <1>2 DEF Connections
<1> QED BY <1>3, TakenOK DEF Passes

LEMMA SentPasses ==
  ASSUME Types, NEW n, n \in Connections, Passes(n), NEW e \in Ends, NEW segments,
         net.fin[Peer(e)] => Reached
  PROVE  Passes(Sent(e, n, segments))
<1>1. CASE n.fin[Peer(e)]
  <2>1. Sent(e, n, segments) = [n EXCEPT !.link = "reset"] /\ Reached
    BY <1>1 DEF Sent, Passes
  <2> QED BY <2>1 DEF Passes, Connections
<1>2. CASE ~n.fin[Peer(e)]
  <2>1. Sent(e, n, segments) = [n EXCEPT !.pipe[e] = @ \o segments]
    BY <1>2 DEF Sent
  <2> QED BY <2>1 DEF Passes, Connections
<1> QED BY <1>1, <1>2

LEMMA ShutdownPasses ==
  ASSUME Types, NEW e \in Ends, net.fin[Peer(e)] => Reached
  PROVE  Passes(Shutdown(e, net))
<1>1. Passes(net) /\ net \in Connections
  BY DEF Passes, Types, NetOK
<1>2. Passes(Sent(e, net, <<CloseNotify>>))
  BY <1>1, SentPasses
<1> QED BY <1>1, <1>2 DEF Shutdown

LEMMA SendsPass ==
  ASSUME Types, NEW e \in Ends, NEW data, NEW s \in Sends(e, data), net.fin[Peer(e)] => Reached
  PROVE  Passes(s.net)
<1>1. Passes(net) /\ net \in Connections
  BY DEF Passes, Types, NetOK
<1>2. \A k : Passes(Sent(e, net, SubSeq(data, 1, k)))
  BY <1>1, SentPasses
<1> DEFINE k == IF net.fin[Peer(e)] THEN Len(data) ELSE Min({Len(data), Room(e)})
<1>3. s = IF Dead THEN [out |-> "error", n |-> 0, net |-> net]
          ELSE IF k = 0 THEN [out |-> "again", n |-> 0, net |-> net]
          ELSE [out |-> "sent", n |-> k, net |-> Sent(e, net, SubSeq(data, 1, k))]
  BY DEF Sends
<1> HIDE DEF k
<1>4. s.net = net \/ s.net = Sent(e, net, SubSeq(data, 1, k))
  BY <1>3
<1> QED BY <1>1, <1>2, <1>4

LEMMA HandshakesPass ==
  ASSUME Types, NEW e \in Ends, NEW o \in Handshakes(e), net.fin[Peer(e)] => Reached
  PROVE  Passes(o.net)
<1>1. PICK r, w, t, k \in Nat : Exchanges(e, o, r, w, t, k)
  BY HandshakeExchanges
<1>2. Passes(Taken(e, t)) /\ Taken(e, t) \in Connections
  BY <1>1, TakenPasses DEF Exchanges, NetOK
<1>3. Passes(Sent(e, Taken(e, t), Hellos(k)))
  BY <1>2, SentPasses
<1> QED BY <1>1, <1>2, <1>3 DEF Exchanges

LEMMA ReceivesPass ==
  ASSUME Types, NEW e \in Ends, NEW r, r \in (IF tls THEN SslReads(e) ELSE Receives(e))
  PROVE  Passes(r.net) /\ r.net.link = net.link
<1>1. Passes(net)
  BY DEF Passes
<1>2. r.net = net \/ (Inbox(e) # <<>> /\ r.net = Taken(e, 1))
  BY ReceivesOK, SslReadsOK
<1>3. Inbox(e) # <<>> => 1 <= Len(Inbox(e))
  <2>1. Inbox(e) \in Seq(Int)
    BY PeerOK DEF Types, NetOK, Connections, Inbox
  <2> QED BY <2>1
<1> QED BY <1>1, <1>2, <1>3, TakenPasses

LEMMA PassesOn ==
  ASSUME NEW m, Passes(m), net' = m, Reached
  PROVE  Reached'
BY DEF Passes, Reached

(* An end whose variables stay.                                            *)
LEMMA EndStays ==
  ASSUME NEW e \in Ends, EndOK(e), UNCHANGED <<tls, api, writer>>, hs'[e] = hs[e],
         phase'[e] = phase[e], sock'[e] = sock[e], result'[e] = result[e],
         e = writer => UNCHANGED <<sent, wnum>>
  PROVE  EndOK(e)'
BY DEF EndOK, Blocking, Carried

(* The connection stays one to the same host, and no end is closed.        *)
LEMMA LinkPasses ==
  ASSUME LinkOK, Passes(net'), net' = net \/ ~Fresh, UNCHANGED writer,
         \A e \in Ends : sock'[e].sd = sock[e].sd \/ (e = "client" /\ ~net.fin[e]),
         hs'["server"] # 0 => hs["server"] # 0 \/ Reached,
         writer = "server" /\ Carried' > 0 => Carried > 0 \/ Reached,
         Fresh' => Fresh, Dialing' => Dialing,
         phase["client"] \in {"deinit", "gone"} => phase'["client"] \in {"deinit", "gone"},
         phase["client"] = "connect" /\ conn.pc = "next" =>
           \/ phase'["client"] \in {"deinit", "gone"}
           \/ phase'["client"] = "connect" /\ conn'.pc = "next"
           \/ ~net.fin["client"],
         phase["server"] \in {"deinit", "gone"} => phase'["server"] \in {"deinit", "gone"}
  PROVE  LinkOK'
<1>0. Ends = {"client", "server"}
  BY DEF Ends
<1>1. Reached => Reached'
  BY DEF Passes, Reached
<1>2. net'.fin = net.fin /\ net'.backlog = net.backlog /\ net'.host = net.host
  BY DEF Passes
<1>3. (sock["server"].sd # NoFd \/ net.fin["server"] \/ net.backlog \/ hs["server"] # 0
       \/ (writer = "server" /\ Carried > 0))' => Reached'
  BY <1>0, <1>1, <1>2 DEF LinkOK
<1>4. Fresh' => net' = NoConnection
  BY DEF LinkOK
<1>5. Dialing' => net'.link # "none" /\ net'.host # "none"
  BY <1>2 DEF LinkOK, Passes
<1>6. /\ net'.fin["client"] => \/ phase'["client"] \in {"deinit", "gone"}
                               \/ phase'["client"] = "connect" /\ conn'.pc = "next"
      /\ net'.fin["server"] => phase'["server"] \in {"deinit", "gone"}
      /\ \A e \in Ends : sock'[e].sd # NoFd => ~net'.fin[e]
  BY <1>2 DEF LinkOK
<1> QED BY <1>3, <1>4, <1>5, <1>6 DEF LinkOK

LEMMA ProxyPasses ==
  ASSUME ProxyOK, Passes(net'), UNCHANGED proxied, conn'.pc = "answer" => conn.pc = "answer"
  PROVE  ProxyOK'
BY DEF ProxyOK, Passes, Grant
-----------------------------------------------------------------------------
(* An end with a descriptor is at a connection, and was not closed.        *)
LEMMA Actor ==
  ASSUME OwnInv, LinkOK, NEW e \in Ends, sock[e].sd # NoFd
  PROVE  ~Fresh /\ ~net.fin[e] /\ (net.fin[Peer(e)] => Reached) /\ (e = "server" => Reached)
<1>1. e = "client" \/ e = "server"
  BY DEF Ends
<1>2. Peer("client") = "server"
  BY DEF Peer
<1>3. CASE e = "client"
  BY <1>2, <1>3 DEF LinkOK, OwnInv, Ownership, ClientOwns, Fresh
<1>4. CASE e = "server"
  <2>1. Reached /\ ~net.fin[e]
    BY <1>4 DEF LinkOK
  <2>2. net # NoConnection
    BY <2>1 DEF Reached, NoConnection
  <2> QED BY <1>4, <2>1, <2>2 DEF LinkOK
<1> QED BY <1>1, <1>3, <1>4

LEMMA TwoEnds ==
  /\ "client" \in Ends /\ "server" \in Ends /\ Ends = {"client", "server"} /\ "client" # "server"
  /\ Peer("client") = "server" /\ Peer("server") = "client"
BY DEF Ends, Peer

(* What moves an end on to its next call or leaves it where it is.         *)
LEMMA InitClientLink == ASSUME OwnInv, OwnInv', LinkInv, Init_client PROVE LinkInv'
<1>1. /\ phase["client"] = "init" /\ conn.pc = "none"
      /\ UNCHANGED <<tls, listener, open, net, hs, wnum, sent, got, timed, proxied, conn>>
  BY DEF Init_client, InitClient, Quiet, connectVars, OwnInv, Ownership, ClientOwns
<1>2. PICK r \in {"ok", "error", "invalid_argument"} : Return("client", r)
  BY DEF Init_client, InitClient
<1>3. PICK next \in {"connect", "begin"} :
        Then("client", next) /\ (next = "connect" <=> Blocking("client"))
  BY DEF Init_client
<1>4. /\ phase'["client"] = (IF r = "ok" THEN next ELSE "deinit")
      /\ result'["client"] = r
      /\ result'["server"] = result["server"] /\ phase'["server"] = phase["server"]
      /\ api' = api /\ writer' = writer
  BY <1>1, <1>2, <1>3, TwoEnds, ThenFacts DEF Results, Phases, OwnInv
<1>5. /\ sock'["server"] = sock["server"]
      /\ sock'["client"].sd = sock["client"].sd /\ sock'["client"].io_want = sock["client"].io_want
      /\ sock'["client"].handshake_done = sock["client"].handshake_done
  BY TwoEnds DEF Init_client, InitClient, OwnInv, Types, Sockets
<1>6. Passes(net')
  BY <1>1 DEF Passes
<1>7. LinkOK'
  <2>1. Fresh' => Fresh
    BY <1>1 DEF Fresh
  <2>2. \A e \in Ends : sock'[e].sd = sock[e].sd
    BY <1>5, TwoEnds
  <2>3. Dialing' => Dialing
    BY <1>1 DEF Dialing
  <2>4. Carried' = Carried
    BY <1>1, <1>4 DEF Carried
  <2> QED BY <1>1, <1>4, <1>6, <2>1, <2>2, <2>3, <2>4, LinkPasses DEF LinkInv
<1>8. ProxyOK'
  BY <1>1, <1>6, ProxyPasses DEF LinkInv
<1>9. EndOK("client")'
  BY <1>1, <1>4, <1>5, TwoEnds DEF LinkInv, EndOK, Blocking, Carried
<1>10. EndOK("server")'
  BY <1>1, <1>4, <1>5, TwoEnds, EndStays DEF LinkInv
<1> QED BY <1>7, <1>8, <1>9, <1>10, TwoEnds DEF LinkInv

LEMMA InitServerLink == ASSUME OwnInv, OwnInv', LinkInv, Init_server PROVE LinkInv'
<1>1. /\ phase["server"] = "init"
      /\ UNCHANGED <<tls, sock, net, hs, wnum, sent, got, timed, proxied, conn>>
  BY DEF Init_server, InitListener, Quiet, connectVars
<1>2. PICK r \in {"ok", "error", "invalid_argument"} : Return("server", r)
  BY DEF Init_server, InitListener
<1>3. Then("server", "accept")
  BY DEF Init_server
<1>4. /\ phase'["server"] = (IF r = "ok" THEN "accept" ELSE "deinit")
      /\ result'["server"] = r
      /\ result'["client"] = result["client"] /\ phase'["client"] = phase["client"]
      /\ api' = api /\ writer' = writer
  BY <1>1, <1>2, <1>3, TwoEnds, ThenFacts DEF Results, Phases, OwnInv
<1>6. Passes(net')
  BY <1>1 DEF Passes
<1>7. LinkOK'
  <2>1. Fresh' => Fresh
    BY <1>1, <1>4 DEF Fresh
  <2>3. Dialing' => Dialing
    BY <1>1 DEF Dialing
  <2>4. Carried' = Carried
    BY <1>1, <1>4 DEF Carried
  <2> QED BY <1>1, <1>4, <1>6, <2>1, <2>3, <2>4, LinkPasses DEF LinkInv
<1>8. ProxyOK'
  BY <1>1, <1>6, ProxyPasses DEF LinkInv
<1>9. EndOK("server")'
  BY <1>1, <1>4, TwoEnds DEF LinkInv, EndOK, Blocking, Carried
<1>10. EndOK("client")'
  BY <1>1, <1>4, TwoEnds, EndStays DEF LinkInv
<1> QED BY <1>7, <1>8, <1>9, <1>10, TwoEnds DEF LinkInv

LEMMA TimeLink == ASSUME OwnInv, LinkInv, Time PROVE LinkInv'
<1>1. /\ UNCHANGED <<tls, sock, listener, open, heap, net, hs, wnum, result, sent, got,
                     timed, proxied, api, writer, phase>>
      /\ conn'.pc = conn.pc
  BY DEF Time, Clock, Tick, Interrupted, Waiting, Unchanged, appVars, OwnInv, Types, Calls, LeftOver
<1>2. Passes(net')
  BY <1>1 DEF Passes
<1>3. Fresh' = Fresh /\ Dialing' = Dialing /\ Carried' = Carried
  BY <1>1 DEF Fresh, Dialing, Carried
<1>4. LinkOK'
  BY <1>1, <1>2, <1>3, LinkPasses DEF LinkInv
<1>5. ProxyOK'
  BY <1>1, <1>2, ProxyPasses DEF LinkInv
<1>6. \A e \in Ends : EndOK(e)'
  BY <1>1, EndStays DEF LinkInv
<1> QED BY <1>4, <1>5, <1>6 DEF LinkInv

LEMMA ContinueLink == ASSUME OwnInv, OwnInv', LinkInv, Continue PROVE LinkInv'
<1> DEFINE c == sock["client"]
<1>1. /\ phase["client"] = "continue" /\ conn.pc = "none" /\ c.sd # NoFd
      /\ UNCHANGED <<tls, listener, open, net, hs, wnum, sent, got, timed, proxied, conn>>
      /\ ~Blocking("client") /\ tls \in BOOLEAN
  BY TwoEnds DEF Continue, At, ConnectNbContinue, Quiet, connectVars, OwnInv, Ownership,
                 ClientOwns, ConnectOK, Types
<1>2. PICK r \in {"ok", "error"} : Return("client", r)
  BY DEF Continue, ConnectNbContinue, Prime
<1>3. Then("client", "handshake")
  BY DEF Continue
<1>4. /\ phase'["client"] = (IF r = "ok" THEN "handshake" ELSE "deinit")
      /\ result'["client"] = r
      /\ result'["server"] = result["server"] /\ phase'["server"] = phase["server"]
      /\ api' = api /\ writer' = writer
  BY <1>1, <1>2, <1>3, TwoEnds, ThenFacts DEF Results, Phases, OwnInv
<1>5. /\ sock'["server"] = sock["server"] /\ sock'["client"].sd = c.sd
      /\ tls => sock'["client"].handshake_done = c.handshake_done
  <2> DEFINE t == [c EXCEPT !.tcp_connected = TRUE]
             up == [t EXCEPT !.handshake_done = TRUE, !.io_want = "none"]
             made == [t EXCEPT !.ssl = TRUE, !.io_want = "read"]
  <2>1. sock \in [Ends -> Sockets] /\ c \in Sockets
    BY TwoEnds DEF OwnInv, Types
  <2>2. \/ sock' = sock
        \/ ~tls /\ sock' = [sock EXCEPT !["client"] = up]
        \/ sock' = [sock EXCEPT !["client"] = made]
        \/ sock' = [sock EXCEPT !["client"] = t]
    BY DEF Continue, ConnectNbContinue, Prime
  <2>3. \A s \in {t, made} : s.sd = c.sd /\ s.handshake_done = c.handshake_done
    BY <2>1 DEF Sockets
  <2>4. up.sd = c.sd
    BY <2>1 DEF Sockets
  <2> HIDE DEF t, up, made
  <2>5. \/ sock' = sock
        \/ /\ sock'["server"] = sock["server"]
           /\ sock'["client"] \in {t, made} \/ (~tls /\ sock'["client"] = up)
    BY <2>1, <2>2, TwoEnds
  <2> QED BY <2>3, <2>4, <2>5
<1>6. Passes(net')
  BY <1>1 DEF Passes
<1>7. LinkOK'
  <2>1. ~Fresh'
    BY <1>1, <1>4 DEF Fresh
  <2>2. \A e \in Ends : sock'[e].sd = sock[e].sd
    BY <1>5, TwoEnds
  <2>3. Dialing' => Dialing
    BY <1>1 DEF Dialing
  <2>4. Carried' = Carried
    BY <1>1, <1>4 DEF Carried
  <2> QED BY <1>1, <1>4, <1>6, <2>1, <2>2, <2>3, <2>4, LinkPasses DEF LinkInv
<1>8. ProxyOK'
  BY <1>1, <1>6, ProxyPasses DEF LinkInv
<1>9. EndOK("client")'
  <2>1. EndOK("client") /\ "client" \in Ends
    BY TwoEnds DEF LinkInv
  <2>2. ~Blocking("client")' /\ Carried' = Carried
    BY <1>1, <1>4 DEF Blocking, Carried
  <2> QED BY <1>1, <1>4, <1>5, <2>1, <2>2 DEF EndOK
<1>10. EndOK("server")'
  BY <1>1, <1>4, <1>5, TwoEnds, EndStays DEF LinkInv
<1> QED BY <1>7, <1>8, <1>9, <1>10, TwoEnds DEF LinkInv
(* A call of an end that has its descriptor and keeps it.                  *)
LEMMA CallLink ==
  ASSUME OwnInv, LinkInv, NEW e \in Ends, sock[e].sd # NoFd, phase[e] \in {"handshake", "transfer"},
         UNCHANGED <<tls, proxied, conn, api, writer>>, Passes(net'), EndOK(e)',
         sock'[e].sd = sock[e].sd, sock'[Peer(e)] = sock[Peer(e)],
         hs'[Peer(e)] = hs[Peer(e)], result'[Peer(e)] = result[Peer(e)],
         phase'[Peer(e)] = phase[Peer(e)],
         phase'[e] \in {"handshake", "transfer", "deinit"},
         e # writer => UNCHANGED <<sent, wnum>>
  PROVE  LinkInv'
<1>1. EndOK(Peer(e))'
  <2>1. Peer(e) \in Ends /\ Peer(e) # e /\ EndOK(Peer(e))
    BY PeerOK DEF LinkInv
  <2>2. Peer(e) = writer => UNCHANGED <<sent, wnum>>
    BY <2>1
  <2> QED BY <2>1, <2>2, EndStays
<1>2. \A f \in Ends : EndOK(f)'
  BY <1>1, TwoEnds
<1>3. ProxyOK'
  BY ProxyPasses DEF LinkInv
<1>4. LinkOK'
  <2>1. ~Fresh /\ (e = "server" => Reached)
    BY Actor DEF LinkInv
  <2>2. ~Fresh'
    BY <2>1, TwoEnds DEF Fresh, Passes
  <2>3. Dialing' = Dialing
    BY DEF Dialing
  <2>4. \A f \in Ends : sock'[f].sd = sock[f].sd
    BY TwoEnds
  <2>5. writer = "server" /\ Carried' > 0 => Carried > 0 \/ Reached
    BY <2>1 DEF Carried
  <2>6. hs'["server"] # 0 => hs["server"] # 0 \/ Reached
    BY <2>1, TwoEnds
  <2>7. /\ phase["client"] \in {"deinit", "gone"} => phase'["client"] \in {"deinit", "gone"}
        /\ phase["client"] = "connect" /\ conn.pc = "next" =>
             phase'["client"] = "connect" /\ conn'.pc = "next"
        /\ phase["server"] \in {"deinit", "gone"} => phase'["server"] \in {"deinit", "gone"}
    BY TwoEnds
  <2> QED BY <2>1, <2>2, <2>3, <2>4, <2>5, <2>6, <2>7, LinkPasses DEF LinkInv
<1> QED BY <1>2, <1>3, <1>4 DEF LinkInv

LEMMA HandshakeLink ==
  ASSUME OwnInv, LinkInv, NEW e \in Ends, Handshake(e)
  PROVE  LinkInv'
<1>1. /\ phase[e] = "handshake" /\ Then(e, "transfer") /\ HandshakeNb(e)
      /\ UNCHANGED <<tls, listener, open, heap, timed, proxied, conn, wnum, sent, got>>
  BY DEF Handshake, At, HandshakeNb, Quiet, connectVars
<1>2. /\ sock[e].sd # NoFd /\ ~Blocking(e) /\ sock[e] \in Sockets /\ sock \in [Ends -> Sockets]
      /\ hs \in [Ends -> 0 .. Len(Script)] /\ Types /\ EndOK(e) /\ Peer(e) \in Ends /\ Peer(e) # e
      /\ Len(Script) = 7 /\ tls \in BOOLEAN
  BY <1>1, TwoEnds, PeerOK, ScriptIs DEF OwnInv, Ownership, ClientOwns, ServerOwns, ConnectOK, Types, LinkInv
<1>3. ~Fresh /\ ~net.fin[e] /\ (net.fin[Peer(e)] => Reached)
  BY <1>2, Actor DEF LinkInv
<1> DEFINE up == [sock[e] EXCEPT !.handshake_done = TRUE, !.io_want = "none"]
<1>4. up.sd = sock[e].sd /\ up.handshake_done = TRUE
  BY <1>2 DEF Sockets
<1>5. ASSUME NEW r \in Results, Return(e, r)
      PROVE  /\ phase'[e] = IF r = "ok" THEN "transfer"
                            ELSE IF r \in {"try_again", "busy"} THEN "handshake" ELSE "deinit"
             /\ result'[e] = r /\ result'[Peer(e)] = result[Peer(e)]
             /\ phase'[Peer(e)] = phase[Peer(e)] /\ api' = api /\ writer' = writer
  BY <1>1, <1>2, <1>5, ThenFacts DEF Phases
<1>6. Carried' = Carried
  BY <1>1 DEF Carried, Then
<1>7. e = writer => ~(Carried > 0)
  BY <1>1, <1>2 DEF EndOK
<1>8. ~Blocking(e)'
  BY <1>1, <1>2 DEF Blocking, Then
<1>9. writer' = writer /\ api' = api
  BY <1>1 DEF Then
<1>10. CASE /\ ~tls \/ sock[e].handshake_done
            /\ sock' = [sock EXCEPT ![e].handshake_done = TRUE, ![e].io_want = "none"]
            /\ Return(e, "ok") /\ UNCHANGED <<hs, net>>
  <2>1. sock' = [sock EXCEPT ![e] = up]
    BY <1>10
  <2> HIDE DEF up
  <2>2. sock'[e] = up /\ sock'[Peer(e)] = sock[Peer(e)]
    BY <1>2, <2>1
  <2>3. phase'[e] = "transfer" /\ result'[e] = "ok" /\ result'[Peer(e)] = result[Peer(e)]
        /\ phase'[Peer(e)] = phase[Peer(e)]
    BY <1>5, <1>10 DEF Results
  <2>4. Passes(net')
    BY <1>10 DEF Passes
  <2>5. EndOK(e)'
    BY <1>1, <1>2, <1>6, <1>7, <1>8, <1>9, <1>10, <2>3 DEF EndOK
  <2> QED BY <1>1, <1>2, <1>4, <1>9, <1>10, <2>2, <2>3, <2>4, <2>5, CallLink
<1>11. CASE /\ tls /\ ~sock[e].handshake_done
            /\ \E o \in Handshakes(e) :
                 /\ hs' = [hs EXCEPT ![e] = o.hs] /\ net' = o.net
                 /\ CASE o.out = "done" ->
                           /\ sock' = [sock EXCEPT ![e].handshake_done = TRUE, ![e].io_want = "none"]
                           /\ Return(e, "ok")
                      [] o.out = "fail" -> Return(e, "error") /\ UNCHANGED sock
                      [] OTHER -> TryAgain(e, o.out)
  <2>1. PICK o \in Handshakes(e) :
                 /\ hs' = [hs EXCEPT ![e] = o.hs] /\ net' = o.net
                 /\ CASE o.out = "done" ->
                           /\ sock' = [sock EXCEPT ![e].handshake_done = TRUE, ![e].io_want = "none"]
                           /\ Return(e, "ok")
                      [] o.out = "fail" -> Return(e, "error") /\ UNCHANGED sock
                      [] OTHER -> TryAgain(e, o.out)
    BY <1>11
  <2>2. Passes(net')
    BY <1>2, <1>3, <2>1, HandshakesPass
  <2>3. PICK t, k \in Nat : Moves(e, o, t, k)
    BY <1>2, HandshakeMoves
  <2>4. /\ o.hs \in 0 .. 7
        /\ o.out = "done" => o.hs = 7
        /\ o.out = "want_read" => o.hs < 7 /\ Script[o.hs + 1] # e
        /\ o.out = "want_write" => o.hs < 7 /\ Script[o.hs + 1] = e
        /\ o.out \in {"want_read", "want_write", "done", "fail"}
    BY <2>3 DEF Moves
  <2>5. hs'[e] = o.hs /\ hs'[Peer(e)] = hs[Peer(e)]
    BY <1>2, <2>1
  <2>6. CASE o.out = "done"
    <3>1. sock' = [sock EXCEPT ![e] = up] /\ Return(e, "ok")
      BY <2>1, <2>6
    <3> HIDE DEF up
    <3>2. sock'[e] = up /\ sock'[Peer(e)] = sock[Peer(e)]
      BY <1>2, <3>1
    <3>3. phase'[e] = "transfer" /\ result'[e] = "ok" /\ result'[Peer(e)] = result[Peer(e)]
          /\ phase'[Peer(e)] = phase[Peer(e)]
      BY <1>5, <3>1 DEF Results
    <3>5. EndOK(e)'
      BY <1>1, <1>2, <1>6, <1>7, <1>8, <1>9, <1>11, <2>4, <2>5, <2>6, <3>3 DEF EndOK
    <3> QED BY <1>1, <1>2, <1>4, <1>9, <2>2, <2>5, <3>2, <3>3, <3>5, CallLink
  <2>7. CASE o.out = "fail"
    <3>1. sock' = sock /\ Return(e, "error")
      BY <2>1, <2>7
    <3>3. phase'[e] = "deinit" /\ result'[e] = "error" /\ result'[Peer(e)] = result[Peer(e)]
          /\ phase'[Peer(e)] = phase[Peer(e)]
      BY <1>5, <3>1 DEF Results
    <3>5. EndOK(e)'
      BY <1>1, <1>2, <1>6, <1>7, <1>8, <1>9, <1>11, <2>4, <2>5, <2>7, <3>1, <3>3 DEF EndOK
    <3> QED BY <1>1, <1>2, <1>9, <2>2, <2>5, <3>1, <3>3, <3>5, CallLink
  <2>8. CASE o.out \in {"want_read", "want_write"}
    <3> DEFINE s == [sock[e] EXCEPT !.io_want = Wanted(o.out)]
    <3>1. sock' = [sock EXCEPT ![e] = s] /\ Return(e, "try_again")
      BY <2>1, <2>8 DEF TryAgain
    <3>2. s.sd = sock[e].sd /\ s.handshake_done = sock[e].handshake_done /\ s.io_want = Wanted(o.out)
      BY <1>2 DEF Sockets
    <3>w. /\ o.out = "want_read" => Wanted(o.out) = "read"
          /\ o.out = "want_write" => Wanted(o.out) = "write"
      BY DEF Wanted
    <3> HIDE DEF s
    <3>3. sock'[e] = s /\ sock'[Peer(e)] = sock[Peer(e)]
      BY <1>2, <3>1
    <3>4. phase'[e] = "handshake" /\ result'[e] = "try_again" /\ result'[Peer(e)] = result[Peer(e)]
          /\ phase'[Peer(e)] = phase[Peer(e)]
      BY <1>5, <3>1 DEF Results
    <3>5. sock'[e].io_want = IF Script[o.hs + 1] = e THEN "write" ELSE "read"
      BY <2>4, <2>8, <3>2, <3>3, <3>w
    <3>6. EndOK(e)'
      BY <1>1, <1>2, <1>6, <1>7, <1>8, <1>9, <1>11, <2>4, <2>5, <2>8, <3>2, <3>3, <3>4, <3>5 DEF EndOK
    <3> QED BY <1>1, <1>2, <1>9, <2>2, <2>5, <3>2, <3>3, <3>4, <3>6, CallLink
  <2> QED BY <2>4, <2>6, <2>7, <2>8
<1> QED BY <1>1, <1>10, <1>11 DEF HandshakeNb
LEMMA WriteLink ==
  ASSUME OwnInv, LinkInv, NEW e \in Ends, WriteCall(e)
  PROVE  LinkInv'
<1>1. /\ phase[e] = "transfer" /\ e = writer /\ Then(e, "deinit")
      /\ UNCHANGED <<tls, listener, open, heap, timed, proxied, conn, hs, got>>
  BY DEF WriteCall, At, Write, WriteNb, Quiet, connectVars
<1>2. /\ sock[e].sd # NoFd /\ sock[e] \in Sockets /\ sock \in [Ends -> Sockets]
      /\ Types /\ WriteOK /\ EndOK(e) /\ Peer(e) \in Ends /\ Peer(e) # e
  BY <1>1, TwoEnds, PeerOK DEF OwnInv, Ownership, ClientOwns, ServerOwns, Types, LinkInv
<1>3. ~Fresh /\ ~net.fin[e] /\ (net.fin[Peer(e)] => Reached)
  BY <1>2, Actor DEF LinkInv
<1>4. PICK r \in {"ok", "error", "try_again", "busy"} :
        /\ Return(e, r) /\ Passes(net')
        /\ sock' = sock \/ \E x : sock' = [sock EXCEPT ![e].io_want = x]
        /\ Blocking(e) => sock' = sock
        /\ ~Blocking(e) /\ r = "try_again" => sock' = [sock EXCEPT ![e].io_want = "write"]
  <2>1. CASE Blocking(e)
    <3>1. Write(e) /\ sock' = sock
      BY <1>1, <2>1 DEF WriteCall, Write
    <3>2. PICK s \in Sends(e, SubSeq(Rest, wnum[e] + 1, Len(Rest))) : net' = s.net
      BY <3>1 DEF Write
    <3>3. Return(e, "ok") \/ Return(e, "error") \/ Return(e, "busy")
      BY <3>1 DEF Write
    <3> QED BY <1>2, <1>3, <2>1, <3>1, <3>2, <3>3, SendsPass
  <2>2. CASE ~Blocking(e) /\ ~tls
    <3>1. PICK s \in Sends(e, Rest) :
            /\ net' = s.net
            /\ CASE s.out = "error" -> Return(e, "error") /\ UNCHANGED <<sock, sent>>
                 [] s.out = "again" -> TryAgain(e, "want_write") /\ UNCHANGED sent
                 [] s.out = "sent" /\ s.n < Len(Rest) -> TryAgain(e, "want_write") /\ Reported(s.n)
                 [] OTHER -> /\ sock' = [sock EXCEPT ![e].io_want = "none"]
                             /\ Return(e, "ok") /\ Reported(s.n)
      BY <1>1, <2>2 DEF WriteCall, WriteNb, WriteNbPlain
    <3>2. \/ (Return(e, "error") /\ UNCHANGED sock) \/ TryAgain(e, "want_write")
          \/ sock' = [sock EXCEPT ![e].io_want = "none"] /\ Return(e, "ok")
      BY <3>1
    <3>3. Passes(net')
      BY <1>2, <1>3, <3>1, SendsPass
    <3> QED BY <2>2, <3>2, <3>3 DEF TryAgain, Wanted
  <2>3. CASE ~Blocking(e) /\ tls
    <3>1. PICK s \in SslWrites(e, Rest) :
            /\ net' = s.net /\ wnum' = [wnum EXCEPT ![e] = s.wnum]
            /\ CASE s.out = "error" -> Return(e, "error") /\ UNCHANGED <<sock, sent>>
                 [] s.out = "want_write" -> TryAgain(e, "want_write") /\ UNCHANGED sent
                 [] OTHER -> /\ sock' = [sock EXCEPT ![e].io_want = "none"]
                             /\ Return(e, "ok") /\ Reported(s.n)
      BY <1>1, <2>3 DEF WriteCall, WriteNb, WriteNbTls
    <3>2. \/ (Return(e, "error") /\ UNCHANGED sock) \/ TryAgain(e, "want_write")
          \/ sock' = [sock EXCEPT ![e].io_want = "none"] /\ Return(e, "ok")
      BY <3>1
    <3>3. Rest \in Seq(Int) /\ wnum[e] <= Len(Rest)
      BY <1>1, <1>2, RestOK DEF WriteOK
    <3>4. PICK x \in Sends(e, SubSeq(Rest, wnum[e] + 1, Len(Rest))) : s.net = x.net
      BY <1>2, <3>3, SslWritesOK
    <3>5. Passes(net')
      BY <1>2, <1>3, <3>1, <3>4, SendsPass
    <3> QED BY <2>3, <3>2, <3>5 DEF TryAgain, Wanted
  <2> QED BY <2>1, <2>2, <2>3
<1>5. /\ phase'[e] = IF r \in {"try_again", "busy"} THEN "transfer" ELSE "deinit"
      /\ result'[e] = r /\ result'[Peer(e)] = result[Peer(e)]
      /\ phase'[Peer(e)] = phase[Peer(e)] /\ api' = api /\ writer' = writer
  BY <1>1, <1>2, <1>4, ThenFacts DEF Phases, Results
<1>6. /\ sock'[e].sd = sock[e].sd /\ sock'[e].handshake_done = sock[e].handshake_done
      /\ sock'[Peer(e)] = sock[Peer(e)] /\ (Blocking(e) => sock'[e] = sock[e])
      /\ ~Blocking(e) /\ r = "try_again" => sock'[e].io_want = "write"
  BY <1>2, <1>4 DEF Sockets
<1>7. Blocking(e)' = Blocking(e)
  BY <1>5 DEF Blocking
<1>8. EndOK(e)'
  BY <1>1, <1>2, <1>4, <1>5, <1>6, <1>7 DEF EndOK
<1> QED BY <1>1, <1>2, <1>4, <1>5, <1>6, <1>8, CallLink

LEMMA ReadLink ==
  ASSUME OwnInv, LinkInv, NEW e \in Ends, ReadCall(e)
  PROVE  LinkInv'
<1>1. /\ phase[e] = "transfer" /\ e # writer /\ Then(e, "transfer")
      /\ UNCHANGED <<tls, listener, open, heap, timed, proxied, conn, hs, wnum, sent>>
  BY DEF ReadCall, At, Read, ReadNb, Quiet, connectVars
<1>2. /\ sock[e].sd # NoFd /\ sock[e] \in Sockets /\ sock \in [Ends -> Sockets]
      /\ Types /\ EndOK(e) /\ Peer(e) \in Ends /\ Peer(e) # e
  BY <1>1, TwoEnds, PeerOK DEF OwnInv, Ownership, ClientOwns, ServerOwns, Types, LinkInv
<1>3. PICK r \in {"ok", "error", "try_again", "end_of_data"} :
        /\ Return(e, r) /\ Passes(net')
        /\ sock' = sock \/ \E x : sock' = [sock EXCEPT ![e].io_want = x]
        /\ Blocking(e) => sock' = sock
        /\ ~Blocking(e) /\ r = "try_again" => sock' = [sock EXCEPT ![e].io_want = "read"]
  <2>0. \A r \in (IF tls THEN SslReads(e) ELSE Receives(e)) :
          /\ Passes(r.net)
          /\ r.out \in {"data", "again", "want_read", "eof", "zero_return", "error"}
    BY <1>2, ReceivesOK, SslReadsOK, ReceivesPass
  <2>1. CASE Blocking(e)
    <3>1. PICK b : Read(e, b)
      BY <2>1 DEF ReadCall
    <3>2. PICK r \in (IF tls THEN SslReads(e) ELSE Receives(e)) :
            /\ net' = r.net
            /\ Return(e, CASE r.out = "data" -> "ok"
                           [] r.out \in {"eof", "zero_return"} -> "end_of_data"
                           [] r.out \in {"again", "want_read"} -> "try_again"
                           [] OTHER -> "error")
      BY <3>1 DEF Read
    <3>3. (CASE r.out = "data" -> "ok"
             [] r.out \in {"eof", "zero_return"} -> "end_of_data"
             [] r.out \in {"again", "want_read"} -> "try_again"
             [] OTHER -> "error") \in {"ok", "error", "try_again", "end_of_data"}
      BY <2>0, <3>2
    <3>4. sock' = sock
      BY <3>1 DEF Read
    <3> QED BY <2>0, <2>1, <3>2, <3>3, <3>4
  <2>2. CASE ~Blocking(e)
    <3>1. PICK r \in (IF tls THEN SslReads(e) ELSE Receives(e)) :
            /\ net' = r.net
            /\ CASE r.out = "data" -> /\ sock' = [sock EXCEPT ![e].io_want = "none"]
                                      /\ Return(e, "ok")
                 [] r.out = "again" -> TryAgain(e, "want_read")
                 [] r.out = "want_read" -> TryAgain(e, "want_read")
                 [] r.out \in {"eof", "zero_return"} -> Return(e, "end_of_data") /\ UNCHANGED sock
                 [] r.out = "error" -> Return(e, "error") /\ UNCHANGED sock
      BY <2>2 DEF ReadCall, ReadNb
    <3>2. \/ sock' = [sock EXCEPT ![e].io_want = "none"] /\ Return(e, "ok")
          \/ TryAgain(e, "want_read")
          \/ Return(e, "end_of_data") /\ UNCHANGED sock
          \/ Return(e, "error") /\ UNCHANGED sock
      BY <2>0, <3>1
    <3>3. Passes(net')
      BY <2>0, <3>1
    <3> QED BY <2>2, <3>2, <3>3 DEF TryAgain, Wanted
  <2> QED BY <2>1, <2>2
<1>5. /\ phase'[e] = IF r \in {"ok", "try_again"} THEN "transfer" ELSE "deinit"
      /\ result'[e] = r /\ result'[Peer(e)] = result[Peer(e)]
      /\ phase'[Peer(e)] = phase[Peer(e)] /\ api' = api /\ writer' = writer
  BY <1>1, <1>2, <1>3, ThenFacts DEF Phases, Results
<1>6. /\ sock'[e].sd = sock[e].sd /\ sock'[e].handshake_done = sock[e].handshake_done
      /\ sock'[Peer(e)] = sock[Peer(e)] /\ (Blocking(e) => sock'[e] = sock[e])
      /\ ~Blocking(e) /\ r = "try_again" => sock'[e].io_want = "read"
  BY <1>2, <1>3 DEF Sockets
<1>7. Blocking(e)' = Blocking(e)
  BY <1>5 DEF Blocking
<1>8. EndOK(e)'
  BY <1>1, <1>2, <1>3, <1>5, <1>6, <1>7 DEF EndOK
<1> QED BY <1>1, <1>2, <1>3, <1>5, <1>6, <1>8, CallLink
(* A descriptor that is closed.                                            *)
HungUp(e, n, m) ==
  /\ m.host = n.host /\ m.answer = n.answer /\ m.backlog = n.backlog /\ m.pipe = n.pipe
  /\ m.link = n.link \/ (n.link = "up" /\ m.link = "reset")
  /\ m.fin[e] = TRUE /\ m.fin[Peer(e)] = n.fin[Peer(e)]

LEMMA HangsUp ==
  ASSUME NEW e \in Ends, NEW n \in Connections
  PROVE  HungUp(e, n, Hangup(e, n))
<1>1. n.fin \in [Ends -> BOOLEAN] /\ Peer(e) \in Ends /\ Peer(e) # e
  BY PeerOK DEF Connections
<1>2. /\ [n EXCEPT !.link = "reset", !.fin[e] = TRUE].fin = [n.fin EXCEPT ![e] = TRUE]
      /\ [n EXCEPT !.fin[e] = TRUE].fin = [n.fin EXCEPT ![e] = TRUE]
      /\ [n EXCEPT !.link = "reset", !.fin[e] = TRUE].link = "reset"
  BY DEF Connections
<1> QED BY <1>1, <1>2 DEF Hangup, HungUp, Connections

LEMMA DeinitLink ==
  ASSUME OwnInv, LinkInv, NEW e \in Ends, DeinitCall(e)
  PROVE  LinkInv'
<1> DEFINE c == sock[e]
           s == [BackendDestroyed(c) EXCEPT !.sd = NoFd]
           n == IF c.backend /\ c.ssl THEN Shutdown(e, net) ELSE net
<1>1. /\ phase[e] = "deinit" /\ phase' = [phase EXCEPT ![e] = "gone"]
      /\ sock' = [sock EXCEPT ![e] = s]
      /\ net' = (IF c.sd # NoFd THEN Hangup(e, n) ELSE n)
      /\ UNCHANGED <<tls, listener, hs, wnum, result, sent, got, timed, proxied, conn, api, writer>>
  BY DEF DeinitCall, Deinit, Quiet, connectVars
<1>2. /\ sock \in [Ends -> Sockets] /\ c \in Sockets /\ phase \in [Ends -> Phases] /\ Types
      /\ Peer(e) \in Ends /\ Peer(e) # e /\ EndOK(e) /\ EndOK(Peer(e))
      /\ (c.ssl => c.sd # NoFd) /\ LinkOK /\ ProxyOK
  BY PeerOK DEF OwnInv, Ownership, Accounted, Types, LinkInv
<1>3. s.sd = NoFd /\ s.handshake_done = c.handshake_done /\ s.io_want = c.io_want
  BY <1>2 DEF Sockets, BackendDestroyed
<1> HIDE DEF s
<1>4. /\ sock'[e] = s /\ sock'[Peer(e)] = sock[Peer(e)]
      /\ phase'[e] = "gone" /\ phase'[Peer(e)] = phase[Peer(e)]
  BY <1>1, <1>2
<1>5. EndOK(e)'
  BY <1>1, <1>2, <1>3, <1>4 DEF EndOK, Blocking, Carried
<1>6. EndOK(Peer(e))'
  BY <1>1, <1>2, <1>4, EndStays
<1>7. CASE c.sd = NoFd
  <2>1. net' = net
    BY <1>1, <1>2, <1>7
  <2>2. Passes(net')
    BY <2>1 DEF Passes
  <2>3. \A f \in Ends : sock'[f].sd = sock[f].sd
    BY <1>3, <1>4, <1>7, TwoEnds
  <2>4. Fresh' => Fresh
    BY <1>1, <1>4, <2>1, TwoEnds DEF Fresh
  <2>5. /\ Dialing' = Dialing /\ Carried' = Carried
        /\ phase["client"] \in {"deinit", "gone"} => phase'["client"] \in {"deinit", "gone"}
        /\ phase["server"] \in {"deinit", "gone"} => phase'["server"] \in {"deinit", "gone"}
        /\ phase["client"] = "connect" => phase'["client"] = "connect"
    BY <1>1, <1>4, TwoEnds DEF Dialing, Carried
  <2>6. LinkOK'
    BY <1>1, <1>2, <2>1, <2>2, <2>3, <2>4, <2>5, LinkPasses
  <2>7. ProxyOK'
    BY <1>1, <1>2, <2>2, ProxyPasses
  <2> QED BY <1>5, <1>6, <2>6, <2>7, TwoEnds DEF LinkInv
<1>8. CASE c.sd # NoFd
  <2>1. ~Fresh /\ ~net.fin[e] /\ (net.fin[Peer(e)] => Reached) /\ (e = "server" => Reached)
    BY <1>2, <1>8, Actor
  <2>2. Passes(n) /\ n \in Connections
    <3>1. Passes(net) /\ NetOK(net)
      BY <1>2 DEF Passes, Types
    <3>2. Passes(Shutdown(e, net)) /\ NetOK(Shutdown(e, net))
      BY <1>2, <2>1, <3>1, ShutdownPasses, ShutdownOK
    <3> QED BY <3>1, <3>2 DEF NetOK
  <2> HIDE DEF n
  <2>3. /\ net'.host = net.host /\ net'.answer = net.answer /\ net'.backlog = net.backlog
        /\ net'.link = net.link \/ (net'.link = "reset" /\ (Reached \/ net.link = "up"))
        /\ net'.fin[e] = TRUE /\ net'.fin[Peer(e)] = net.fin[Peer(e)]
    <3>1. HungUp(e, n, Hangup(e, n))
      BY <2>2, HangsUp
    <3>2. net' = Hangup(e, n)
      BY <1>1, <1>8 DEF n
    <3>3. HungUp(e, n, net')
      BY <3>1, <3>2
    <3> QED BY <2>2, <3>3 DEF Passes, HungUp
  <2>4. Reached => Reached'
    BY <2>3 DEF Reached
  <2>5. ~Fresh'
    BY <1>1, <1>4, <2>1, <2>3, TwoEnds DEF Fresh
  <2>6. /\ Dialing' = Dialing /\ Carried' = Carried
    BY <1>1 DEF Dialing, Carried
  <2>7. (sock["server"].sd # NoFd \/ net.fin["server"] \/ net.backlog \/ hs["server"] # 0
         \/ (writer = "server" /\ Carried > 0))' => Reached'
    BY <1>1, <1>2, <1>3, <1>4, <2>1, <2>3, <2>4, <2>6, TwoEnds DEF LinkOK
  <2>8. Dialing' => net'.link # "none" /\ net'.host # "none"
    BY <1>2, <2>3, <2>6 DEF LinkOK
  <2>9. /\ net'.fin["client"] => \/ phase'["client"] \in {"deinit", "gone"}
                                 \/ phase'["client"] = "connect" /\ conn'.pc = "next"
        /\ net'.fin["server"] => phase'["server"] \in {"deinit", "gone"}
    BY <1>1, <1>2, <1>4, <2>3, TwoEnds DEF LinkOK
  <2>10. \A f \in Ends : sock'[f].sd # NoFd => ~net'.fin[f]
    BY <1>2, <1>3, <1>4, <2>3, TwoEnds DEF LinkOK
  <2>11. LinkOK'
    BY <2>5, <2>7, <2>8, <2>9, <2>10 DEF LinkOK
  <2>12. ProxyOK'
    BY <1>1, <1>2, <2>3 DEF ProxyOK
  <2> QED BY <1>5, <1>6, <2>11, <2>12, TwoEnds DEF LinkInv
<1> QED BY <1>7, <1>8

LEMMA CloseListenerLink == ASSUME OwnInv, LinkInv, CloseListener PROVE LinkInv'
<1>1. /\ phase["server"] = "gone"
      /\ net' = (IF net.backlog THEN [net EXCEPT !.link = "reset", !.backlog = FALSE] ELSE net)
      /\ UNCHANGED <<tls, sock, hs, wnum, result, sent, got, timed, proxied, conn, api, writer, phase>>
  BY DEF CloseListener, DeinitListener, Quiet, connectVars, appVars
<1>2. LinkOK /\ ProxyOK /\ net \in Connections
  BY DEF LinkInv, OwnInv, Types, NetOK
<1>3. /\ net'.host = net.host /\ net'.answer = net.answer /\ net'.fin = net.fin
      /\ (net'.backlog => net.backlog)
      /\ net'.link = net.link \/ (net'.link = "reset" /\ Reached)
  BY <1>1, <1>2 DEF Connections, LinkOK
<1>4. Reached => Reached'
  BY <1>3 DEF Reached
<1>5. Dialing' = Dialing /\ Carried' = Carried
  BY <1>1 DEF Dialing, Carried
<1>6. Fresh' => net' = NoConnection
  <2>1. Fresh' => Fresh
    BY <1>1, <1>3 DEF Fresh
  <2>2. net = NoConnection => ~net.backlog
    BY DEF NoConnection
  <2> QED BY <1>1, <1>2, <2>1, <2>2 DEF LinkOK
<1>7. (sock["server"].sd # NoFd \/ net.fin["server"] \/ net.backlog \/ hs["server"] # 0
       \/ (writer = "server" /\ Carried > 0))' => Reached'
  BY <1>1, <1>2, <1>3, <1>4, <1>5 DEF LinkOK
<1>8. LinkOK'
  BY <1>1, <1>2, <1>3, <1>5, <1>6, <1>7 DEF LinkOK
<1>9. ProxyOK'
  BY <1>1, <1>2, <1>3 DEF ProxyOK
<1>10. \A e \in Ends : EndOK(e)'
  BY <1>1, EndStays DEF LinkInv
<1> QED BY <1>8, <1>9, <1>10 DEF LinkInv

LEMMA LastOfAnswer ==
  ASSUME NEW a \in Answers, NEW said \in Seq(Int), Len(said) < Len(a)
  PROVE  LET more == Append(said, a[Len(said) + 1]) IN
         /\ a[Len(said) + 1] \in Int /\ more \in Seq(Int) /\ Len(more) = Len(said) + 1
         /\ Len(more) <= Len(a) /\ Last(more) = a[Len(said) + 1] /\ more # <<>>
<1>1. a \in Seq(Int)
  BY AnswersOK
<1> DEFINE x == a[Len(said) + 1]
<1>2. x \in Int
  BY <1>1
<1> HIDE DEF x
<1>3. /\ Append(said, x) \in Seq(Int) /\ Len(Append(said, x)) = Len(said) + 1
      /\ Append(said, x)[Len(said) + 1] = x /\ Append(said, x) # <<>>
  BY <1>2
<1>4. Len(said) + 1 <= Len(a)
  BY <1>1
<1> QED BY <1>2, <1>3, <1>4 DEF x, Last

LEMMA KernelLink ==
  ASSUME OwnInv, LinkInv, ConnectDone \/ ProxyStep \/ ConnectionLost
  PROVE  LinkInv'
<1>1. /\ UNCHANGED <<tls, sock, listener, open, heap, hs, wnum, result, sent, got,
                     timed, proxied, conn, api, writer, phase>>
  BY DEF ConnectDone, ProxyStep, ConnectionLost, Kernel, connectVars, appVars
<1>2. LinkOK /\ ProxyOK /\ net \in Connections
  BY DEF LinkInv, OwnInv, Types, NetOK
<1>3. \A e \in Ends : EndOK(e)'
  BY <1>1, EndStays DEF LinkInv
<1>4. Dialing' = Dialing /\ Carried' = Carried
  BY <1>1 DEF Dialing, Carried
<1>5. CASE ConnectDone
  <2>1. /\ net.link = "progress" /\ net'.host = net.host /\ net'.answer = net.answer
        /\ net'.fin = net.fin /\ net'.link \in {"up", "refused"}
        /\ net'.backlog => net.backlog \/ (net'.host = "server" /\ net'.link = "up")
    BY <1>2, <1>5 DEF ConnectDone, ConnectEnds, Connections
  <2>2. ~Reached /\ ~Fresh
    BY <1>2, <2>1 DEF Reached, LinkOK, NoConnection
  <2>3. ~Fresh'
    BY <1>1, <2>1, <2>2 DEF Fresh
  <2>4. (sock["server"].sd # NoFd \/ net.fin["server"] \/ net.backlog \/ hs["server"] # 0
         \/ (writer = "server" /\ Carried > 0))' => Reached'
    BY <1>1, <1>2, <1>4, <2>1, <2>2 DEF LinkOK, Reached
  <2>5. LinkOK'
    BY <1>1, <1>2, <1>4, <2>1, <2>3, <2>4 DEF LinkOK
  <2>6. ProxyOK'
    BY <1>1, <1>2, <2>1 DEF ProxyOK
  <2> QED BY <1>3, <2>5, <2>6 DEF LinkInv
<1>6. CASE ProxyStep
  <2>1. PICK a \in Answers :
          LET said  == Append(net.answer, a[Len(net.answer) + 1])
              grant == said = <<Granted>> \o Terminator /\ Listening IN
          /\ Len(net.answer) < Len(a) /\ said = SubSeq(a, 1, Len(said))
          /\ net' = [net EXCEPT !.pipe["server"] = Append(@, Last(said)), !.answer = said,
                                !.host = IF grant THEN "server" ELSE @, !.backlog = grant]
    <3>1. ProxyAnswers
      BY <1>6 DEF ProxyStep
    <3> QED BY <3>1, Zenon DEF ProxyAnswers
  <2>2. net.host = "proxy" /\ net.link = "up"
    <3>1. ProxyAnswers
      BY <1>6 DEF ProxyStep
    <3> QED BY <3>1, Zenon DEF ProxyAnswers
  <2> DEFINE said == Append(net.answer, a[Len(net.answer) + 1])
             grant == said = <<Granted>> \o Terminator /\ Listening
  <2>3. net.answer \in Seq(Int) /\ Len(said) <= Len(a) /\ said # <<>>
    BY <1>2, <2>1, LastOfAnswer DEF Connections
  <2>s. said = SubSeq(a, 1, Len(said))
    BY <2>1
  <2>4. /\ net'.answer = said /\ net'.host = (IF grant THEN "server" ELSE "proxy")
        /\ net'.backlog = grant /\ net'.link = "up" /\ net'.fin = net.fin
    <3>1. net' = [net EXCEPT !.pipe["server"] = Append(@, Last(said)), !.answer = said,
                             !.host = IF grant THEN "server" ELSE @, !.backlog = grant]
      BY <2>1
    <3> HIDE DEF said, grant
    <3> QED BY <1>2, <2>2, <3>1 DEF Connections
  <2>5. ~Reached /\ ~Fresh
    BY <1>2, <2>2 DEF Reached, LinkOK, NoConnection
  <2>g. grant => said = Grant
    BY DEF Grant
  <2> HIDE DEF said, grant
  <2>6. ~Fresh'
    BY <1>1, <2>2, <2>5 DEF Fresh
  <2>7. (sock["server"].sd # NoFd \/ net.fin["server"] \/ net.backlog \/ hs["server"] # 0
         \/ (writer = "server" /\ Carried > 0))' => Reached'
    BY <1>1, <1>2, <1>4, <2>4, <2>5 DEF LinkOK, Reached
  <2>8. LinkOK'
    BY <1>1, <1>2, <1>4, <2>4, <2>6, <2>7 DEF LinkOK
  <2>9. ProxyOK'
    <3>1. proxied
      BY <1>2, <2>2 DEF ProxyOK
    <3>2. net'.host = "server" => net'.answer = Grant
      BY <2>4, <2>g
    <3>3. Len(net'.answer) <= Len(a) /\ net'.answer = SubSeq(a, 1, Len(net'.answer))
      BY <2>3, <2>4, <2>s
    <3> QED BY <1>1, <3>1, <3>2, <3>3 DEF ProxyOK, Answers, Grant
  <2> QED BY <1>3, <2>8, <2>9 DEF LinkInv
<1>7. CASE ConnectionLost
  <2>1. /\ net'.host = net.host /\ net'.answer = net.answer
        /\ net'.fin = net.fin /\ net'.backlog = net.backlog
        /\ net.link \in {"up", "reset"} /\ net'.link = "reset"
    BY <1>2, <1>7 DEF ConnectionLost, Breaks, Loses, Connections
  <2>2. ~Fresh /\ (Reached => Reached')
    BY <1>2, <2>1 DEF Reached, LinkOK, NoConnection
  <2>3. ~Fresh'
    BY <1>1, <2>1, <2>2 DEF Fresh
  <2>4. (sock["server"].sd # NoFd \/ net.fin["server"] \/ net.backlog \/ hs["server"] # 0
         \/ (writer = "server" /\ Carried > 0))' => Reached'
    BY <1>1, <1>2, <1>4, <2>1, <2>2 DEF LinkOK, Reached
  <2>5. LinkOK'
    BY <1>1, <1>2, <1>4, <2>1, <2>3, <2>4 DEF LinkOK
  <2>6. ProxyOK'
    BY <1>1, <1>2, <2>1 DEF ProxyOK
  <2> QED BY <1>3, <2>5, <2>6 DEF LinkInv
<1> QED BY <1>5, <1>6, <1>7
(* A step of socket_connect: the client is at it, or done, or has failed.  *)
LEMMA ConnectReturnsLink ==
  ASSUME OwnInv, LinkInv, phase["client"] = "connect", Then("client", "transfer"), Unchanged,
         NEW r \in {"ok", "error", "invalid_argument", "busy"}, Return("client", r),
         sock'["client"].handshake_done = sock["client"].handshake_done,
         sock'["client"].io_want = sock["client"].io_want, sock'["server"] = sock["server"],
         hs'["server"] = hs["server"], ~tls => hs' = hs, r = "ok" /\ tls => hs'["client"] = 7
  PROVE  /\ \A e \in Ends : EndOK(e)'
         /\ UNCHANGED <<tls, wnum, sent, got, proxied, api, writer>> /\ Carried' = Carried
         /\ phase'["client"] = IF r = "ok" THEN "transfer" ELSE IF r = "busy" THEN "connect" ELSE "deinit"
         /\ result'["client"] = r /\ phase'["server"] = phase["server"]
<1>1. UNCHANGED <<tls, wnum, sent, got, proxied>>
  BY DEF Unchanged
<1>2. /\ phase'["client"] = IF r = "ok" THEN "transfer" ELSE IF r = "busy" THEN "connect" ELSE "deinit"
      /\ result'["client"] = r /\ api' = api /\ writer' = writer
      /\ result'["server"] = result["server"] /\ phase'["server"] = phase["server"]
  BY TwoEnds, ThenFacts DEF Results, Phases, OwnInv
<1>3. EndOK("client") /\ EndOK("server") /\ Blocking("client") /\ Len(Script) = 7
  BY TwoEnds, ScriptIs DEF LinkInv, OwnInv, ConnectOK
<1>4. Blocking("client")' /\ Carried' = Carried
  BY <1>1, <1>2, <1>3 DEF Blocking, Carried
<1>5. EndOK("client")'
  BY <1>1, <1>2, <1>3, <1>4, TwoEnds DEF EndOK
<1>6. EndOK("server")'
  BY <1>1, <1>2, <1>3, TwoEnds, EndStays
<1> QED BY <1>1, <1>2, <1>4, <1>5, <1>6, TwoEnds

(* It goes on with the connection it has.                                  *)
LEMMA ConnectPasses ==
  ASSUME OwnInv, LinkInv, phase["client"] = "connect", Then("client", "transfer"), Unchanged,
         NEW r \in {"ok", "error", "invalid_argument", "busy"}, Return("client", r),
         sock'["client"].handshake_done = sock["client"].handshake_done,
         sock'["client"].io_want = sock["client"].io_want, sock'["server"] = sock["server"],
         hs'["server"] = hs["server"], ~tls => hs' = hs, r = "ok" /\ tls => hs'["client"] = 7,
         Passes(net'), net' = net \/ ~Fresh,
         conn'.pc = "answer" => proxied, Dialing' => Dialing, Fresh' => Fresh,
         conn.pc = "next" => r # "ok" /\ (r = "busy" => conn'.pc = "next"),
         sock'["client"].sd = sock["client"].sd \/ Dialing
  PROVE  LinkInv'
<1>1. /\ \A e \in Ends : EndOK(e)'
      /\ UNCHANGED <<tls, wnum, sent, got, proxied, api, writer>> /\ Carried' = Carried
      /\ phase'["client"] = IF r = "ok" THEN "transfer" ELSE IF r = "busy" THEN "connect" ELSE "deinit"
      /\ phase'["server"] = phase["server"]
  BY ConnectReturnsLink
<1>2. LinkOK /\ ProxyOK
  BY DEF LinkInv
<1>3. Dialing => ~net.fin["client"]
  BY <1>2 DEF LinkOK, Dialing
<1>4. \A e \in Ends : sock'[e].sd = sock[e].sd \/ (e = "client" /\ ~net.fin[e])
  BY <1>3, TwoEnds
<1>5. /\ phase["client"] = "connect" /\ conn.pc = "next" =>
           \/ phase'["client"] \in {"deinit", "gone"}
           \/ phase'["client"] = "connect" /\ conn'.pc = "next"
           \/ ~net.fin["client"]
  BY <1>1
<1>6. LinkOK'
  BY <1>1, <1>2, <1>4, <1>5, LinkPasses
<1>7. ProxyOK'
  BY <1>1, <1>2 DEF ProxyOK, Passes, Grant
<1> QED BY <1>1, <1>6, <1>7 DEF LinkInv
(* It gives up the connection: one to the server breaks, another is gone.  *)
LEMMA ConnectCuts ==
  ASSUME OwnInv, OwnInv', LinkInv, phase["client"] = "connect", Then("client", "transfer"), Unchanged,
         NEW r \in {"invalid_argument", "busy"}, Return("client", r),
         sock'["client"].handshake_done = sock["client"].handshake_done,
         sock'["client"].io_want = sock["client"].io_want, sock'["server"] = sock["server"],
         hs'["server"] = hs["server"], ~tls => hs' = hs,
         NEW n \in Connections, Passes(n), net' = Cut(n), ~Fresh,
         conn'.pc = IF r = "busy" THEN "next" ELSE "none", sock'["client"].sd = NoFd
  PROVE  LinkInv'
<1>1. /\ \A e \in Ends : EndOK(e)'
      /\ UNCHANGED <<tls, wnum, sent, got, proxied, api, writer>> /\ Carried' = Carried
      /\ phase'["client"] = IF r = "busy" THEN "connect" ELSE "deinit"
      /\ phase'["server"] = phase["server"]
  BY ConnectReturnsLink
<1>2. LinkOK /\ ProxyOK
  BY DEF LinkInv
<1>3. ~Dialing'
  BY DEF Dialing
<1>4. CASE n.host = "server" /\ n.link \in {"up", "reset"}
  <2>1. net' = Hangup("client", n) /\ Reached
    BY <1>4 DEF Cut, Passes, Reached
  <2>2. HungUp("client", n, net')
    BY <2>1, HangsUp, TwoEnds
  <2>3. Reached'
    BY <1>4, <2>2 DEF HungUp, Reached
  <2>4. net'.host = "server" /\ net'.answer = net.answer /\ net.host = "server"
        /\ net'.fin["server"] = net.fin["server"]
    BY <1>4, <2>2, TwoEnds DEF HungUp, Passes
  <2>5. ~Fresh'
    BY <1>1, <2>4 DEF Fresh
  <2>6. LinkOK'
    BY <1>1, <1>2, <1>3, <2>3, <2>4, <2>5, TwoEnds DEF LinkOK
  <2>7. ProxyOK'
    BY <1>1, <1>2, <2>4 DEF ProxyOK, Grant
  <2> QED BY <1>1, <2>6, <2>7 DEF LinkInv
<1>5. CASE ~(n.host = "server" /\ n.link \in {"up", "reset"})
  <2>1. net' = NoConnection /\ ~Reached
    BY <1>5 DEF Cut, Passes, Reached
  <2>2. /\ net'.host = "none" /\ net'.answer = <<>> /\ net'.backlog = FALSE
        /\ \A e \in Ends : net'.fin[e] = FALSE
    BY <2>1 DEF NoConnection
  <2>3. ~(sock["server"].sd # NoFd \/ net'.fin["server"] \/ net'.backlog \/ hs["server"] # 0
          \/ (writer = "server" /\ Carried > 0))
    BY <1>2, <2>1, <2>2, TwoEnds DEF LinkOK
  <2>4. LinkOK'
    BY <1>1, <1>3, <2>1, <2>2, <2>3, TwoEnds DEF LinkOK
  <2>5. \E a \in Answers : Len(net'.answer) <= Len(a) /\ net'.answer = SubSeq(a, 1, Len(net'.answer))
    <3>1. <<Granted>> \o Terminator \in Answers /\ Len(<<>>) = 0
          /\ Len(<<Granted>> \o Terminator) = 5 /\ SubSeq(<<Granted>> \o Terminator, 1, 0) = <<>>
      BY DEF Answers, Granted, Terminator
    <3> QED BY <2>2, <3>1
  <2>6. ProxyOK'
    BY <1>1, <2>2, <2>5 DEF ProxyOK
  <2> QED BY <1>1, <2>4, <2>6 DEF LinkInv
<1> QED BY <1>4, <1>5

LEMMA AbandonLink ==
  ASSUME OwnInv, OwnInv', LinkInv, phase["client"] = "connect", Then("client", "transfer"), Unchanged,
         conn.pc \in {"connecting", "answer"}, Abandon
  PROVE  LinkInv'
<1>1. conn' = NextAddress /\ net' = Cut(net) /\ UNCHANGED <<sock, hs, result>>
  BY DEF Abandon
<1>2. conn \in Calls /\ sock["client"].sd = NoFd /\ net \in Connections
  BY Connecting DEF NetOK
<1>3. conn'.pc = "next"
  BY <1>1, <1>2 DEF NextAddress, Calls
<1>4. Return("client", "busy")
  BY <1>1, Busy
<1>5. ~Fresh /\ Passes(net)
  BY DEF Fresh, Passes
<1> QED BY <1>1, <1>2, <1>3, <1>4, <1>5, ConnectCuts

LEMMA BeginsLink ==
  ASSUME OwnInv, OwnInv', LinkInv, phase["client"] = "connect", Then("client", "transfer"),
         ConnectBegin \/ Exhausted
  PROVE  LinkInv'
<1>0. conn \in Calls
  BY Connecting
<1>1. Unchanged /\ UNCHANGED <<sock, net, hs>> /\ conn \in Calls
  BY <1>0 DEF ConnectBegin, Exhausted, Unchanged
<1>2. Passes(net')
  BY <1>1 DEF Passes
<1>3. CASE ConnectBegin
  <2>1. conn.pc = "none"
    BY <1>3 DEF ConnectBegin, Unchanged
  <2>2. PICK r \in {"error", "invalid_argument", "busy"} :
          Return("client", r) /\ conn'.pc = IF r = "busy" THEN "next" ELSE "none"
    <3>1. \/ Return("client", "invalid_argument") /\ conn' = conn
          \/ Return("client", "error") /\ conn' = conn
          \/ \E k \in 1 .. MaxCandidates :
               conn' = [conn EXCEPT !.pc = "next", !.left = k] /\ Return("client", "busy")
      BY <1>3 DEF ConnectBegin, Unchanged
    <3>2. \A k : [conn EXCEPT !.pc = "next", !.left = k].pc = "next"
      BY <1>1 DEF Calls
    <3> QED BY <2>1, <3>1, <3>2
  <2>p. phase'["client"] \in {"connect", "deinit"}
    BY <2>2, TwoEnds, ThenFacts DEF Results, Phases, OwnInv
  <2>3. Fresh' => Fresh
    BY <1>1, <2>1, <2>p DEF Fresh
  <2>4. ~Dialing' /\ ~(conn'.pc = "answer")
    BY <2>2 DEF Dialing
  <2>5. r # "ok"
    BY <2>2
  <2> QED BY <1>1, <1>2, <2>1, <2>2, <2>3, <2>4, <2>5, ConnectPasses
<1>4. CASE Exhausted
  <2>1. Return("client", "error") /\ conn'.pc = "none" /\ conn.pc = "next"
    BY <1>1, <1>4 DEF Exhausted, Calls
  <2>2. phase'["client"] = "deinit"
    BY <2>1, TwoEnds, ThenFacts DEF Results, Phases, OwnInv
  <2>3. ~Fresh' /\ ~Dialing' /\ ~(conn'.pc = "answer")
    BY <2>1, <2>2 DEF Fresh, Dialing
  <2> QED BY <1>1, <1>2, <2>1, <2>3, ConnectPasses
<1> QED BY <1>3, <1>4

LEMMA CandidateLink ==
  ASSUME OwnInv, OwnInv', LinkInv, phase["client"] = "connect", Then("client", "transfer"), Candidate
  PROVE  LinkInv'
<1>1. /\ Unchanged /\ UNCHANGED <<sock, hs, result>> /\ conn \in Calls /\ conn.pc = "next"
      /\ conn.sockfd = NoFd /\ sock["client"].sd = NoFd
  <2>1. conn.pc = "next" /\ Unchanged /\ UNCHANGED <<sock, hs, result>>
    BY DEF Candidate, Unchanged
  <2> QED BY <2>1, Connecting
<1>2. Return("client", "busy")
  BY <1>1, Busy
<1>3. CASE conn' = NextAddress /\ UNCHANGED net
  <2>1. conn'.pc = "next" /\ Passes(net')
    BY <1>1, <1>3 DEF NextAddress, Calls, Passes
  <2>p. phase'["client"] = "connect"
    BY <1>2, TwoEnds, ThenFacts DEF Results, Phases, OwnInv
  <2>2. Fresh' => Fresh
    BY <1>1, <1>3, <2>p DEF Fresh
  <2>3. ~Dialing'
    BY <2>1 DEF Dialing
  <2> QED BY <1>1, <1>2, <1>3, <2>1, <2>2, <2>3, ConnectPasses
<1>4. CASE \E h \in Hosts :
             /\ conn' = [conn EXCEPT !.pc = "connecting", !.sockfd = LowestFree(open),
                                     !.modes = [Modes EXCEPT !.nonblocking = timed],
                                     !.remaining = Timeout, !.spent = 0]
             /\ open' = Opened(open)
             /\ net' = [NoConnection EXCEPT !.link = "progress", !.host = h]
  <2>0. conn'.pc = "connecting"
    BY <1>1, <1>4 DEF Calls
  <2>1. PICK h \in Hosts :
             net' = [NoConnection EXCEPT !.link = "progress", !.host = h]
    BY <1>4
  <2>2. h \in {"mute", IF proxied THEN "proxy" ELSE "server"} /\ net.host # "server"
    BY DEF Hosts
  <2>3. LinkOK /\ ProxyOK /\ ~Reached
    BY <2>2 DEF LinkInv, Reached
  <2>4. /\ \A e \in Ends : EndOK(e)'
        /\ UNCHANGED <<tls, wnum, sent, got, proxied, api, writer>> /\ Carried' = Carried
        /\ phase'["client"] = "connect" /\ phase'["server"] = phase["server"]
    BY <1>1, <1>2, ConnectReturnsLink
  <2>5. /\ net'.host = h /\ net'.link = "progress" /\ net'.answer = <<>> /\ net'.backlog = FALSE
        /\ \A e \in Ends : net'.fin[e] = FALSE
    BY <2>1 DEF NoConnection
  <2>6. ~Fresh'
    BY <2>0, <2>4 DEF Fresh
  <2>7. ~(sock["server"].sd # NoFd \/ net'.fin["server"] \/ net'.backlog \/ hs["server"] # 0
          \/ (writer = "server" /\ Carried > 0))
    BY <2>3, <2>5, TwoEnds DEF LinkOK
  <2>8. LinkOK'
    BY <1>1, <2>2, <2>4, <2>5, <2>6, <2>7, TwoEnds DEF LinkOK
  <2>9. \E a \in Answers : Len(net'.answer) <= Len(a) /\ net'.answer = SubSeq(a, 1, Len(net'.answer))
    <3>1. <<Granted>> \o Terminator \in Answers /\ Len(<<>>) = 0
          /\ Len(<<Granted>> \o Terminator) = 5 /\ SubSeq(<<Granted>> \o Terminator, 1, 0) = <<>>
      BY DEF Answers, Granted, Terminator
    <3> QED BY <2>5, <3>1
  <2>10. ProxyOK'
    BY <2>0, <2>2, <2>4, <2>5, <2>9 DEF ProxyOK
  <2> QED BY <2>4, <2>8, <2>10 DEF LinkInv
<1> QED BY <1>3, <1>4 DEF Candidate, Unchanged
(* The socket takes over the descriptor.                                   *)
LEMMA UsableLink ==
  ASSUME OwnInv, OwnInv', LinkInv, phase["client"] = "connect", Then("client", "transfer"), Unchanged,
         Dialing, NEW c \in Calls, NEW n, Passes(n), Usable(c, n)
  PROVE  LinkInv'
<1> DEFINE s == sock["client"]
<1>1. /\ s \in Sockets /\ sock \in [Ends -> Sockets] /\ hs \in [Ends -> 0 .. Len(Script)]
      /\ "client" \in Ends /\ "server" \in Ends /\ "client" # "server"
      /\ tls \in BOOLEAN /\ conn.pc \in {"connecting", "answer"} /\ ~Fresh
  BY Connecting, TwoEnds DEF Dialing, Fresh
<1>2. CASE /\ ~tls
           /\ conn' = [c EXCEPT !.pc = "none", !.sockfd = NoFd]
           /\ sock' = [sock EXCEPT !["client"].sd = conn.sockfd]
           /\ net' = n
           /\ Return("client", "ok") /\ UNCHANGED <<open, heap, hs>>
  <2>1. conn'.pc = "none"
    BY <1>2 DEF Calls
  <2>2. sock' = [sock EXCEPT !["client"] = [s EXCEPT !.sd = conn.sockfd]]
    BY <1>2
  <2>3. /\ sock'["server"] = sock["server"] /\ sock'["client"].handshake_done = s.handshake_done
        /\ sock'["client"].io_want = s.io_want
    BY <1>1, <2>2 DEF Sockets
  <2>p. phase'["client"] = "transfer"
    BY <1>2, TwoEnds, ThenFacts DEF Results, Phases, OwnInv
  <2>4. ~Dialing' /\ ~Fresh' /\ conn'.pc # "answer" /\ conn.pc # "next"
    BY <1>1, <2>1, <2>p DEF Dialing, Fresh
  <2> QED BY <1>1, <1>2, <2>3, <2>4, ConnectPasses
<1>3. CASE /\ tls
           /\ conn' = [c EXCEPT !.pc = "tls", !.sockfd = NoFd, !.modes = HandshakeModes(@)]
           /\ sock' = [sock EXCEPT !["client"].sd = conn.sockfd, !["client"].ssl = TRUE]
           /\ heap' = [heap EXCEPT !.ssl = @ + 1]
           /\ hs' = [hs EXCEPT !["client"] = 0]
           /\ net' = n
           /\ UNCHANGED <<open, result>>
  <2>1. conn'.pc = "tls"
    BY <1>3 DEF Calls
  <2>2. sock' = [sock EXCEPT !["client"] = [s EXCEPT !.sd = conn.sockfd, !.ssl = TRUE]]
    BY <1>1, <1>3 DEF Sockets
  <2>3. /\ sock'["server"] = sock["server"] /\ sock'["client"].handshake_done = s.handshake_done
        /\ sock'["client"].io_want = s.io_want
    BY <1>1, <2>2 DEF Sockets
  <2>r. Return("client", "busy")
    BY <1>1, <1>3, Busy
  <2>p. phase'["client"] = "connect"
    BY <2>r, TwoEnds, ThenFacts DEF Results, Phases, OwnInv
  <2>4. ~Dialing' /\ ~Fresh' /\ conn'.pc # "answer" /\ conn.pc # "next"
    BY <1>1, <2>1, <2>p DEF Dialing, Fresh
  <2>5. hs'["server"] = hs["server"]
    BY <1>1, <1>3
  <2> QED BY <1>1, <1>3, <2>3, <2>4, <2>5, <2>r, ConnectPasses
<1>4. CASE Abandon
  BY <1>1, <1>4, AbandonLink
<1> QED BY <1>2, <1>3, <1>4 DEF Usable

LEMMA ConnectedLink ==
  ASSUME OwnInv, OwnInv', LinkInv, phase["client"] = "connect", Then("client", "transfer"), Connected
  PROVE  LinkInv'
<1>1. conn.pc = "connecting" /\ Unchanged
  BY DEF Connected, Unchanged
<1>2. conn \in Calls /\ net \in Connections /\ sock["client"].sd = NoFd
  BY <1>1, Connecting DEF NetOK
<1>n. Passes(net) /\ ~Fresh /\ Dialing
  BY <1>1 DEF Passes, Fresh, Dialing
<1>3. CASE Abandon
  BY <1>1, <1>3, AbandonLink
<1>4. CASE /\ conn' = [NextAddress EXCEPT !.pc = "none"]
           /\ open' = Closed(open, conn.sockfd) /\ net' = Cut(net)
           /\ Return("client", "invalid_argument") /\ UNCHANGED <<sock, heap, hs>>
  <2>1. conn'.pc = "none"
    BY <1>2, <1>4 DEF NextAddress, Calls
  <2> QED BY <1>1, <1>2, <1>n, <1>4, <2>1, ConnectCuts
<1>5. CASE Usable([conn EXCEPT !.modes = Restored], net)
  <2>1. Restored \in [nonblocking : BOOLEAN, rcvtimeo : BOOLEAN, sndtimeo : BOOLEAN]
    BY <1>2 DEF Restored, Calls, OwnInv, Types
  <2>2. [conn EXCEPT !.modes = Restored] \in Calls
    BY <1>2, <2>1 DEF Calls
  <2> QED BY <1>1, <1>n, <1>5, <2>2, UsableLink
<1>6. CASE /\ proxied
           /\ conn' = [conn EXCEPT !.pc = "answer", !.answer = <<>>, !.modes = Restored,
                                   !.remaining = Timeout, !.spent = 0]
           /\ UNCHANGED <<sock, open, heap, net, hs, result>>
  <2>1. conn'.pc = "answer"
    BY <1>2, <1>6 DEF Calls
  <2>2. Return("client", "busy")
    BY <1>1, <1>6, Busy
  <2>p. phase'["client"] = "connect"
    BY <2>2, TwoEnds, ThenFacts DEF Results, Phases, OwnInv
  <2>3. ~Fresh' /\ Passes(net')
    BY <1>6, <2>1, <2>p DEF Fresh, Passes
  <2> QED BY <1>1, <1>n, <1>6, <2>1, <2>2, <2>3, ConnectPasses
<1> QED BY <1>3, <1>4, <1>5, <1>6 DEF Connected, Unchanged
(* What a peek at the proxy's answer takes: some of what it saw, no more   *)
(* than up to a terminator in it, and of a grant all.                      *)
Hears(q, k) ==
  LET had   == conn.answer
      seen  == had \o SubSeq(Inbox("client"), 1, q)
      heard == had \o SubSeq(Inbox("client"), 1, k) IN
  /\ q <= Len(Inbox("client")) /\ k <= q
  /\ \A j \in Ended(seen, Len(had)) : Len(had) + k <= j
  /\ \/ Abandon
     \/ /\ conn' = [conn EXCEPT !.answer = heard]
        /\ net' = Taken("client", k) /\ UNCHANGED <<sock, open, heap, hs, result>>
     \/ /\ Usable([conn EXCEPT !.answer = <<>>], Taken("client", k))
        /\ Head(heard) = Granted /\ Len(heard) >= 4
        /\ SubSeq(heard, Len(heard) - 3, Len(heard)) = Terminator

LEMMA AnswerHears ==
  ASSUME OwnInv, phase["client"] = "connect", Answer
  PROVE  \E q, k \in Nat : Hears(q, k)
<1> DEFINE inbox == Inbox("client")
           had == conn.answer
           length == Len(had)
           q == Min({Len(inbox), AnswerCapacity - length})
           new == SubSeq(inbox, 1, q)
           bytes == had \o new
           end == AnswerEnd(bytes, length)
           taken == SubSeq(bytes, 1, end)
           k == Len(taken) - length
           heard == had \o SubSeq(inbox, 1, k)
<1>1. /\ conn.pc = "answer" /\ conn \in Calls /\ NetOK(net)
      /\ had \in Seq(Int) /\ length \in Nat /\ length < AnswerCapacity /\ "client" \in Ends
  BY Connecting, ConnectAssumption DEF Answer, Unchanged, OwnInv, ConnectOK, Calls
<1>2. inbox \in Seq(Int) /\ Len(inbox) \in Nat
  BY <1>1, PeerOK DEF NetOK, Connections, Inbox
<1>3. q \in Nat /\ q <= Len(inbox)
  <2>1. AnswerCapacity - length \in Nat
    BY <1>1, ConnectAssumption
  <2> QED BY <1>2, <2>1, MinOfTwo
<1>c. \/ Abandon
      \/ /\ conn' = [conn EXCEPT !.answer = taken, !.remaining = SharedBudget(@)]
         /\ net' = Taken("client", k) /\ UNCHANGED <<sock, open, heap, hs, result>>
      \/ /\ Ended(bytes, length) # {} /\ Head(taken) = Granted
         /\ Usable([conn EXCEPT !.answer = <<>>], Taken("client", k))
  <2>1. CASE q = 0 \/ (Ended(bytes, length) = {} /\ Len(taken) >= AnswerCapacity)
    BY <2>1 DEF Answer, Unchanged
  <2>2. CASE q > 0 /\ ~(Ended(bytes, length) = {} /\ Len(taken) >= AnswerCapacity) /\ Ended(bytes, length) = {}
    BY <2>2, <1>3 DEF Answer, Unchanged
  <2>3. CASE q > 0 /\ ~(Ended(bytes, length) = {} /\ Len(taken) >= AnswerCapacity) /\ Ended(bytes, length) # {}
    BY <2>3, <1>3 DEF Answer, Unchanged
  <2>4. q = 0 \/ q > 0
    BY <1>3
  <2> HIDE DEF q, taken, k, bytes, length
  <2> QED BY <2>1, <2>2, <2>3, <2>4
<1> HIDE DEF q
<1>4. new \in Seq(Int) /\ Len(new) = q
  BY <1>2, <1>3
<1> HIDE DEF inbox, had
<1>5. bytes \in Seq(Int) /\ Len(bytes) = length + q
  <2>1. had \in Seq(Int) /\ new \in Seq(Int) /\ Len(new) = q
    BY <1>1, <1>4
  <2> HIDE DEF new
  <2> QED BY <2>1, SMTT(20)
<1>6. end \in length .. Len(bytes) /\ (Ended(bytes, length) # {} => end \in Ended(bytes, length))
      /\ \A j \in Ended(bytes, length) : end <= j
  <2> HIDE DEF bytes, length
  <2>1. length \in Nat /\ length <= Len(bytes)
    BY <1>1, <1>3, <1>5
  <2>2. end \in length .. Len(bytes)
    BY <1>5, <2>1, AnswerEndOK
  <2>3. Ended(bytes, length) \in SUBSET Nat
    <3>1. SearchStart(length) \in Nat
      BY <2>1 DEF SearchStart
    <3> QED BY <3>1 DEF Ended
  <2>4. CASE Ended(bytes, length) # {}
    <3>1. end = Min(Ended(bytes, length))
      BY <2>4 DEF AnswerEnd
    <3> QED BY <2>2, <2>3, <2>4, <3>1, Least
  <2> QED BY <2>2, <2>4
<1> HIDE DEF end
<1>7. Len(taken) = end /\ k \in Nat /\ k <= q
  <2> HIDE DEF bytes
  <2>1. end \in Nat /\ end <= Len(bytes)
    BY <1>1, <1>6
  <2>2. Len(taken) = end
    BY <1>5, <2>1
  <2> HIDE DEF taken, length
  <2> QED BY <1>1, <1>3, <1>5, <1>6, <2>2
<1>8. taken = heard
  <2>1. k = end - length
    BY <1>7
  <2> HIDE DEF k, bytes
  <2>2. SubSeq(inbox, 1, k) \in Seq(Int) /\ Len(SubSeq(inbox, 1, k)) = k
        /\ \A i \in 1 .. k : SubSeq(inbox, 1, k)[i] = inbox[i]
    BY <1>2, <1>3, <1>7
  <2> DEFINE part == SubSeq(inbox, 1, k)
  <2> HIDE DEF part
  <2>3. Len(heard) = end
    <3>1. part \in Seq(Int) /\ Len(part) = k /\ heard = had \o part
      BY <2>2 DEF part
    <3>2. Len(had \o part) = length + k
      BY <1>1, <3>1, Joined
    <3>3. end \in Nat
      BY <1>1, <1>6
    <3> QED BY <1>1, <2>1, <3>1, <3>2, <3>3
  <2>4. \A i \in 1 .. end : taken[i] = bytes[i]
    BY <1>1, <1>5, <1>6
  <2>5. ASSUME NEW i \in 1 .. end PROVE bytes[i] = heard[i]
    <3>0. end \in Nat /\ new \in Seq(Int) /\ Len(new) = q /\ part \in Seq(Int) /\ Len(part) = k
          /\ heard = had \o part /\ bytes = had \o new /\ had \in Seq(Int)
          /\ length \in Nat /\ length = Len(had)
      BY <1>1, <1>4, <1>6, <2>2 DEF part, bytes
    <3>n. \A j \in 1 .. q : new[j] = inbox[j]
      BY <1>2, <1>3
    <3> HIDE DEF new, heard, length
    <3>1. CASE i <= length
      <4>1. bytes[i] = had[i] /\ heard[i] = had[i]
        BY <3>0, <3>1
      <4> QED BY <4>1
    <3>2. CASE i > length
      <4>1. i - length \in 1 .. k /\ i - length \in 1 .. q /\ length + (i - length) = i
        BY <1>3, <1>7, <2>1, <3>0, <3>2
      <4>2. bytes[i] = new[i - length] /\ heard[i] = part[i - length]
        <5>1. \A j \in 1 .. q : (had \o new)[Len(had) + j] = new[j]
          BY <3>0, Joined
        <5>2. \A j \in 1 .. k : (had \o part)[Len(had) + j] = part[j]
          BY <3>0, Joined
        <5> QED BY <3>0, <4>1, <5>1, <5>2
      <4>3. new[i - length] = inbox[i - length] /\ part[i - length] = inbox[i - length]
        BY <2>2, <3>n, <4>1 DEF part
      <4> QED BY <4>2, <4>3
    <3>3. i <= length \/ i > length
      BY <3>0
    <3> QED BY <3>1, <3>2, <3>3
  <2>6. taken \in Seq(Int) /\ heard \in Seq(Int)
    <3>1. \A i \in 1 .. Len(bytes) : bytes[i] \in Int
      BY <1>5, ElementOfSeq
    <3>2. end \in Nat /\ end <= Len(bytes)
      BY <1>1, <1>6
    <3>3. taken \in Seq(Int)
      BY <1>5, <3>1, <3>2
    <3>4. part \in Seq(Int) /\ heard = had \o part
      BY <2>2 DEF part
    <3>5. had \o part \in Seq(Int)
      BY <1>1, <3>4, Joined
    <3> HIDE DEF taken, heard
    <3> QED BY <3>3, <3>4, <3>5
  <2> HIDE DEF taken, heard
  <2> QED BY <1>7, <2>3, <2>4, <2>5, <2>6, SMTT(20)
<1> HIDE DEF k, bytes
<1>9. conn' = [conn EXCEPT !.answer = taken, !.remaining = SharedBudget(@)]
      => conn' = [conn EXCEPT !.answer = heard]
  BY <1>1, <1>8 DEF SharedBudget, Calls, had
<1>10. Ended(bytes, length) # {} => Len(heard) >= 4 /\ SubSeq(heard, Len(heard) - 3, Len(heard)) = Terminator
  <2> SUFFICES ASSUME Ended(bytes, length) # {}
               PROVE  Len(heard) >= 4 /\ SubSeq(heard, Len(heard) - 3, Len(heard)) = Terminator
    OBVIOUS
  <2>1. SearchStart(length) \in Nat
    BY <1>1 DEF SearchStart
  <2>2. end \in SearchStart(length) + 4 .. Len(bytes) /\ SubSeq(bytes, end - 3, end) = Terminator
    BY <1>6 DEF Ended
  <2>3. end \in Nat /\ end >= 4 /\ end <= Len(bytes)
    BY <2>1, <2>2, <1>5
  <2>4. SubSeq(SubSeq(bytes, 1, end), end - 3, end) = SubSeq(bytes, end - 3, end)
    BY <1>5, <2>3
  <2>5. Len(heard) = end /\ heard = SubSeq(bytes, 1, end)
    BY <1>7, <1>8
  <2> HIDE DEF heard
  <2> QED BY <2>2, <2>3, <2>4, <2>5
<1>11. \A j \in Ended(bytes, length) : length + k <= j
  <2>1. length + k = end
    BY <1>1, <1>6, <1>7 DEF k
  <2> QED BY <1>6, <2>1
<1>12. Hears(q, k)
  <2>1. \/ Abandon
        \/ /\ conn' = [conn EXCEPT !.answer = heard]
           /\ net' = Taken("client", k) /\ UNCHANGED <<sock, open, heap, hs, result>>
        \/ /\ Usable([conn EXCEPT !.answer = <<>>], Taken("client", k))
           /\ Head(heard) = Granted /\ Len(heard) >= 4
           /\ SubSeq(heard, Len(heard) - 3, Len(heard)) = Terminator
    <3> HIDE DEF taken, heard
    <3> QED BY <1>c, <1>8, <1>9, <1>10 DEF k
  <2> QED BY <1>3, <1>7, <1>11, <2>1 DEF Hears, bytes, inbox, had
<1> QED BY <1>3, <1>7, <1>12
LEMMA AnswerLink ==
  ASSUME OwnInv, OwnInv', LinkInv, phase["client"] = "connect", Then("client", "transfer"), Answer
  PROVE  LinkInv'
<1>1. conn.pc = "answer" /\ Unchanged
  BY DEF Answer, Unchanged
<1>2. conn \in Calls /\ net \in Connections /\ Types /\ "client" \in Ends
  BY <1>1, Connecting DEF NetOK, OwnInv
<1>n. ~Fresh /\ Dialing
  BY <1>1 DEF Fresh, Dialing
<1>3. PICK q, k \in Nat : Hears(q, k)
  BY AnswerHears
<1> DEFINE heard == conn.answer \o SubSeq(Inbox("client"), 1, k)
<1>4. /\ k <= Len(Inbox("client"))
      /\ \/ Abandon
         \/ /\ conn' = [conn EXCEPT !.answer = heard]
            /\ net' = Taken("client", k) /\ UNCHANGED <<sock, open, heap, hs, result>>
         \/ Usable([conn EXCEPT !.answer = <<>>], Taken("client", k))
  <2>1. Len(Inbox("client")) \in Nat
    BY <1>2, PeerOK DEF Inbox, Connections
  <2>2. k <= q /\ q <= Len(Inbox("client"))
    BY <1>3 DEF Hears
  <2>3. k <= Len(Inbox("client"))
    BY <2>1, <2>2
  <2>4. \/ Abandon
        \/ /\ conn' = [conn EXCEPT !.answer = heard]
           /\ net' = Taken("client", k) /\ UNCHANGED <<sock, open, heap, hs, result>>
        \/ Usable([conn EXCEPT !.answer = <<>>], Taken("client", k))
    BY <1>3, Zenon DEF Hears
  <2> QED BY <2>3, <2>4
<1>5. Passes(Taken("client", k))
  BY <1>2, <1>4, TakenPasses
<1>6. CASE Abandon
  BY <1>1, <1>6, AbandonLink
<1>7. CASE Usable([conn EXCEPT !.answer = <<>>], Taken("client", k))
  <2>1. [conn EXCEPT !.answer = <<>>] \in Calls
    <3>1. <<>> \in Seq(Int)
      OBVIOUS
    <3> QED BY <1>2, <3>1 DEF Calls
  <2> QED BY <1>1, <1>5, <1>n, <1>7, <2>1, UsableLink
<1>8. CASE /\ conn' = [conn EXCEPT !.answer = heard]
           /\ net' = Taken("client", k) /\ UNCHANGED <<sock, open, heap, hs, result>>
  <2>1. conn'.pc = "answer" /\ proxied
    BY <1>1, <1>2, <1>8 DEF Calls, LinkInv, ProxyOK
  <2>2. Return("client", "busy")
    BY <1>1, <1>8, Busy
  <2>p. phase'["client"] = "connect"
    BY <2>2, TwoEnds, ThenFacts DEF Results, Phases, OwnInv
  <2>3. ~Fresh'
    BY <2>1, <2>p DEF Fresh
  <2> QED BY <1>1, <1>5, <1>n, <1>8, <2>1, <2>2, <2>3, ConnectPasses
<1> QED BY <1>4, <1>6, <1>7, <1>8

LEMMA SslConnectLink ==
  ASSUME OwnInv, OwnInv', LinkInv, phase["client"] = "connect", Then("client", "transfer"), SslConnect
  PROVE  LinkInv'
<1> DEFINE c == sock["client"]
<1>1. conn.pc = "tls" /\ Unchanged
  BY DEF SslConnect, Unchanged
<1>2. /\ conn \in Calls /\ net \in Connections /\ c \in Sockets /\ sock \in [Ends -> Sockets]
      /\ hs \in [Ends -> 0 .. Len(Script)] /\ Types /\ tls /\ c.sd # NoFd
  BY <1>1, Connecting DEF OwnInv, Ownership, ClientOwns, NetOK
<1>3. ~Fresh /\ (net.fin["server"] => Reached)
  BY <1>1, <1>2, TwoEnds, Actor DEF LinkInv
<1>4. PICK o \in Handshakes("client") :
        /\ hs' = [hs EXCEPT !["client"] = o.hs]
        /\ \/ /\ o.out = "done" /\ conn' = [conn EXCEPT !.pc = "none", !.modes.sndtimeo = FALSE]
              /\ Return("client", "ok") /\ net' = o.net /\ UNCHANGED <<sock, heap, open>>
           \/ net' = o.net /\ UNCHANGED <<sock, heap, open, conn, result>>
           \/ HandshakeFailed /\ net' = Cut(o.net)
  BY DEF SslConnect, Unchanged
<1>5. Passes(o.net)
  BY <1>2, <1>3, TwoEnds, HandshakesPass
<1>6. hs'["server"] = hs["server"] /\ hs'["client"] = o.hs /\ (o.out = "done" => o.hs = 7)
  <2>1. PICK t, k \in Nat : Moves("client", o, t, k)
    BY <1>2, TwoEnds, HandshakeMoves
  <2> QED BY <1>2, <1>4, <2>1, TwoEnds DEF Moves
<1>7. CASE /\ o.out = "done" /\ conn' = [conn EXCEPT !.pc = "none", !.modes.sndtimeo = FALSE]
           /\ Return("client", "ok") /\ net' = o.net /\ UNCHANGED <<sock, heap, open>>
  <2>1. conn'.pc = "none"
    BY <1>2, <1>7 DEF Calls
  <2>p. phase'["client"] = "transfer"
    BY <1>7, TwoEnds, ThenFacts DEF Results, Phases, OwnInv
  <2>2. ~Fresh' /\ ~Dialing'
    BY <2>1, <2>p DEF Fresh, Dialing
  <2> QED BY <1>1, <1>2, <1>3, <1>5, <1>6, <1>7, <2>1, <2>2, ConnectPasses
<1>8. CASE net' = o.net /\ UNCHANGED <<sock, heap, open, conn, result>>
  <2>1. Return("client", "busy")
    BY <1>1, <1>8, Busy
  <2>2. ~Fresh' /\ ~Dialing'
    <3>1. phase'["client"] = "connect" /\ conn'.pc = "tls"
      BY <1>1, <1>8, <2>1, TwoEnds, ThenFacts DEF Results, Phases, OwnInv
    <3> QED BY <3>1 DEF Fresh, Dialing
  <2> QED BY <1>1, <1>2, <1>3, <1>5, <1>6, <1>8, <2>1, <2>2, ConnectPasses
<1>9. CASE HandshakeFailed /\ net' = Cut(o.net)
  <2> DEFINE s == [c EXCEPT !.sd = NoFd, !.ssl = FALSE]
  <2>1. /\ sock' = [sock EXCEPT !["client"].sd = NoFd, !["client"].ssl = FALSE]
        /\ conn' = NextAddress /\ result' = result
    BY <1>9 DEF HandshakeFailed
  <2>2. /\ s.sd = NoFd /\ s.handshake_done = c.handshake_done /\ s.io_want = c.io_want
        /\ sock' = [sock EXCEPT !["client"] = s]
    BY <1>2, <2>1 DEF Sockets
  <2> HIDE DEF s
  <2>3. sock'["client"] = s /\ sock'["server"] = sock["server"]
    BY <1>2, <2>2, TwoEnds
  <2>4. conn'.pc = "next"
    BY <1>2, <2>1 DEF NextAddress, Calls
  <2>5. Return("client", "busy")
    BY <1>1, <2>1, Busy
  <2>6. o.net \in Connections
    BY <1>2, TwoEnds, HandshakeOKs DEF NetOK
  <2> QED BY <1>1, <1>2, <1>3, <1>5, <1>6, <1>9, <2>2, <2>3, <2>4, <2>5, <2>6, ConnectCuts
<1> QED BY <1>4, <1>7, <1>8, <1>9

LEMMA ConnectCallLink == ASSUME OwnInv, OwnInv', LinkInv, ConnectCall PROVE LinkInv'
<1>1. phase["client"] = "connect" /\ Connect /\ Then("client", "transfer")
  BY DEF ConnectCall
<1>2. CASE TimedOut
  <2>1. conn.pc \in {"connecting", "answer"} /\ Abandon /\ Unchanged
    BY <1>2 DEF TimedOut, Polling, Unchanged
  <2> QED BY <1>1, <2>1, AbandonLink
<1>3. CASE ConnectBegin \/ Exhausted
  BY <1>1, <1>3, BeginsLink
<1>4. CASE Candidate
  BY <1>1, <1>4, CandidateLink
<1>5. CASE Connected
  BY <1>1, <1>5, ConnectedLink
<1>6. CASE Answer
  BY <1>1, <1>6, AnswerLink
<1>7. CASE SslConnect
  BY <1>1, <1>7, SslConnectLink
<1> QED BY <1>1, <1>2, <1>3, <1>4, <1>5, <1>6, <1>7 DEF Connect
LEMMA BeginLink == ASSUME OwnInv, OwnInv', LinkInv, Begin PROVE LinkInv'
<1> DEFINE c == sock["client"]
<1>1. /\ phase["client"] = "begin" /\ conn.pc = "none" /\ ~Blocking("client")
      /\ UNCHANGED <<tls, hs, wnum, sent, got, timed, proxied, conn>>
      /\ c \in Sockets /\ sock \in [Ends -> Sockets] /\ net \in Connections
  BY TwoEnds DEF Begin, At, ConnectNbRefused, ConnectNbBegin, Quiet, connectVars, OwnInv, Ownership,
                 ClientOwns, ConnectOK, Types, NetOK
<1>2. LinkOK /\ ProxyOK /\ EndOK("client") /\ EndOK("server") /\ Fresh
  BY <1>1, TwoEnds DEF LinkInv, Fresh
<1>3. net = NoConnection /\ ~Reached
  BY <1>2 DEF LinkOK, Reached, NoConnection
<1>4. PICK r \in {"ok", "error", "invalid_argument"} :
        /\ Return("client", r)
        /\ \/ r # "ok" /\ UNCHANGED <<sock, net>>
           \/ \E p \in BOOLEAN : \E f :
                /\ ~proxied /\ r = "ok"
                /\ sock' = [sock EXCEPT !["client"].sd = f, !["client"].tcp_connected = ~p,
                                        !["client"].io_want = IF p THEN "write" ELSE "none"]
                /\ net' = [net EXCEPT !.link = IF p THEN "progress" ELSE "up",
                                      !.host = "server", !.backlog = ~p]
  <2>1. CASE proxied
    BY <2>1 DEF Begin, ConnectNbRefused
  <2>2. CASE ~proxied
    <3>0. PICK k \in 0 .. MaxCandidates : \E outcomes \in [1 .. k -> Outcomes] :
            IF Tried(outcomes).sd = NoFd
            THEN Return("client", "error") /\ UNCHANGED <<sock, net>>
            ELSE /\ sock' = [sock EXCEPT !["client"].sd = Tried(outcomes).sd,
                                         !["client"].tcp_connected = ~Tried(outcomes).progress,
                                         !["client"].io_want =
                                           IF Tried(outcomes).progress THEN "write" ELSE "none"]
                 /\ net' = [net EXCEPT !.link = IF Tried(outcomes).progress THEN "progress" ELSE "up",
                                       !.host = "server", !.backlog = ~Tried(outcomes).progress]
                 /\ Return("client", "ok")
      BY <2>2 DEF Begin, ConnectNbBegin
    <3>1. PICK outcomes \in [1 .. k -> Outcomes] :
            IF Tried(outcomes).sd = NoFd
            THEN Return("client", "error") /\ UNCHANGED <<sock, net>>
            ELSE /\ sock' = [sock EXCEPT !["client"].sd = Tried(outcomes).sd,
                                         !["client"].tcp_connected = ~Tried(outcomes).progress,
                                         !["client"].io_want =
                                           IF Tried(outcomes).progress THEN "write" ELSE "none"]
                 /\ net' = [net EXCEPT !.link = IF Tried(outcomes).progress THEN "progress" ELSE "up",
                                       !.host = "server", !.backlog = ~Tried(outcomes).progress]
                 /\ Return("client", "ok")
      BY <3>0
    <3> DEFINE a == Tried(outcomes)
    <3>2. a.progress \in BOOLEAN
      <4>1. open \subseteq {sock["server"].sd, listener.sd}
        BY <1>1 DEF OwnInv, Ownership, Accounted, ClientOwns
      <4>2. LowestFree(open) \in Fds \ open /\ LowestFree(open) # NoFd
        BY <4>1, Free
      <4>3. k \in Nat
        BY CandidatesAssumption
      <4>4. \/ a = [open |-> open, sd |-> NoFd, progress |-> FALSE]
            \/ \E b \in BOOLEAN : a = [open |-> Opened(open), sd |-> LowestFree(open), progress |-> b]
        BY <4>2, <4>3, TriedOK
      <4> HIDE DEF a
      <4>5. CASE a = [open |-> open, sd |-> NoFd, progress |-> FALSE]
        BY <4>5
      <4>6. ASSUME NEW b \in BOOLEAN,
                   a = [open |-> Opened(open), sd |-> LowestFree(open), progress |-> b]
            PROVE  a.progress \in BOOLEAN
        BY <4>6
      <4> QED BY <4>4, <4>5, <4>6
    <3>3. CASE a.sd = NoFd
      BY <3>1, <3>3
    <3>4. CASE a.sd # NoFd
      <4>1. /\ sock' = [sock EXCEPT !["client"].sd = a.sd, !["client"].tcp_connected = ~a.progress,
                                    !["client"].io_want = IF a.progress THEN "write" ELSE "none"]
            /\ net' = [net EXCEPT !.link = IF a.progress THEN "progress" ELSE "up",
                                  !.host = "server", !.backlog = ~a.progress]
            /\ Return("client", "ok")
        BY <3>1, <3>4
      <4> HIDE DEF a
      <4> QED BY <2>2, <3>2, <4>1
    <3> QED BY <3>3, <3>4
  <2> QED BY <2>1, <2>2
<1>5. Then("client", "continue")
  BY DEF Begin
<1>6. /\ phase'["client"] = (IF r = "ok" THEN "continue" ELSE "deinit")
      /\ result'["client"] = r
      /\ result'["server"] = result["server"] /\ phase'["server"] = phase["server"]
      /\ api' = api /\ writer' = writer
  BY <1>4, <1>5, TwoEnds, ThenFacts DEF Results, Phases, OwnInv
<1>7. ~Fresh' /\ Dialing' = Dialing /\ Carried' = Carried /\ Blocking("client")' = Blocking("client")
  BY <1>1, <1>6 DEF Fresh, Dialing, Carried, Blocking
<1>8. sock'["server"] = sock["server"] /\ sock'["client"].handshake_done = c.handshake_done
      /\ (r # "ok" => sock' = sock)
  <2>1. CASE UNCHANGED sock
    BY <2>1
  <2>2. CASE \E p \in BOOLEAN : \E f :
               sock' = [sock EXCEPT !["client"].sd = f, !["client"].tcp_connected = ~p,
                                    !["client"].io_want = IF p THEN "write" ELSE "none"]
             /\ r = "ok"
    <3>1. PICK p, f :
               sock' = [sock EXCEPT !["client"].sd = f, !["client"].tcp_connected = ~p,
                                    !["client"].io_want = IF p THEN "write" ELSE "none"]
      BY <2>2
    <3> DEFINE s == [c EXCEPT !.sd = f, !.tcp_connected = ~p,
                              !.io_want = IF p THEN "write" ELSE "none"]
    <3>2. sock' = [sock EXCEPT !["client"] = s] /\ s.handshake_done = c.handshake_done
      BY <1>1, <3>1 DEF Sockets
    <3> HIDE DEF s
    <3> QED BY <1>1, <2>2, <3>2, TwoEnds
  <2> QED BY <1>4, <2>1, <2>2
<1>9. EndOK("client")'
  BY <1>1, <1>2, <1>6, <1>7, <1>8 DEF EndOK
<1>10. EndOK("server")'
  BY <1>1, <1>2, <1>6, <1>8, TwoEnds, EndStays
<1>11. CASE UNCHANGED <<sock, net>>
  <2>1. LinkOK'
    BY <1>1, <1>2, <1>6, <1>7, <1>11, <1>3, TwoEnds DEF LinkOK, NoConnection
  <2>2. ProxyOK'
    BY <1>1, <1>2, <1>11 DEF ProxyOK
  <2> QED BY <1>9, <1>10, <2>1, <2>2, TwoEnds DEF LinkInv
<1>12. CASE \E p \in BOOLEAN :
              /\ ~proxied /\ r = "ok"
              /\ net' = [net EXCEPT !.link = IF p THEN "progress" ELSE "up",
                                    !.host = "server", !.backlog = ~p]
  <2>1. PICK p \in BOOLEAN :
              /\ ~proxied /\ r = "ok"
              /\ net' = [net EXCEPT !.link = IF p THEN "progress" ELSE "up",
                                    !.host = "server", !.backlog = ~p]
    BY <1>12
  <2>2. /\ net'.host = "server" /\ net'.backlog = ~p /\ net'.link = IF p THEN "progress" ELSE "up"
        /\ net'.answer = <<>> /\ net'.fin = net.fin /\ \A e \in Ends : net.fin[e] = FALSE
    BY <1>1, <1>3, <2>1 DEF NoConnection, Connections
  <2>3. ~(sock["server"].sd # NoFd \/ hs["server"] # 0 \/ (writer = "server" /\ Carried > 0))
    BY <1>2, <1>3 DEF LinkOK
  <2>4. (sock["server"].sd # NoFd \/ net.fin["server"] \/ net.backlog \/ hs["server"] # 0
         \/ (writer = "server" /\ Carried > 0))' => Reached'
    BY <1>1, <1>6, <1>7, <1>8, <2>2, <2>3, TwoEnds DEF Reached
  <2>5. LinkOK'
    BY <1>1, <1>2, <1>6, <1>7, <1>8, <2>2, <2>4, TwoEnds DEF LinkOK, Dialing
  <2>6. ProxyOK'
    <3>1. proxied' = proxied /\ net'.answer = net.answer
      BY <1>1, <1>3, <2>2 DEF NoConnection
    <3> QED BY <1>1, <1>2, <2>1, <2>2, <3>1 DEF ProxyOK, Grant
  <2> QED BY <1>9, <1>10, <2>5, <2>6, TwoEnds DEF LinkInv
<1> QED BY <1>4, <1>11, <1>12
(* A call that accepts: there is nothing, or it fails before it has it; it *)
(* closes what it took; it has it; it goes on with the handshake.          *)
Unclaimed == [net EXCEPT !.backlog = FALSE]
AcceptsNothing(r, s) ==
  /\ r \in {"error", "try_again"} /\ (r = "try_again" => ~Blocking("server"))
  /\ s = Empty /\ UNCHANGED <<net, hs>>
AcceptsInVain(r, s) ==
  net.backlog /\ r = "error" /\ s = Empty /\ net' = Hangup("server", Unclaimed) /\ hs' = hs
AcceptsOne(r, s) ==
  /\ net.backlog /\ net' = Unclaimed /\ hs' = hs
  /\ r = (IF tls /\ Blocking("server") THEN "busy" ELSE "ok")
  /\ s.handshake_done = (~tls /\ ~Blocking("server")) /\ (Blocking("server") => s.io_want = "none")
AcceptsOn(r, s, o) ==
  /\ tls /\ Blocking("server") /\ sock["server"].sd # NoFd /\ hs' = [hs EXCEPT !["server"] = o.hs]
  /\ \/ r = "ok" /\ o.out = "done" /\ net' = o.net
     \/ r = "busy" /\ net' = o.net
     \/ r = "error" /\ net' = Hangup("server", o.net) /\ s.sd = NoFd
  /\ s.handshake_done = sock["server"].handshake_done /\ s.io_want = sock["server"].io_want
AcceptMoves(r, s) ==
  /\ Return("server", r) /\ sock' = [sock EXCEPT !["server"] = s]
  /\ r \in {"ok", "error", "try_again", "busy"}
  /\ \/ AcceptsNothing(r, s) \/ AcceptsInVain(r, s) \/ AcceptsOne(r, s)
     \/ \E o \in Handshakes("server") : AcceptsOn(r, s, o)

LEMMA AcceptCallMoves == ASSUME OwnInv, AcceptCall PROVE \E r, s : AcceptMoves(r, s)
<1> DEFINE n == LowestFree(open)
           taken == [Empty EXCEPT !.sd = n, !.backend = tls, !.ssl = tls]
           takenNb == [sd |-> n, tcp_connected |-> TRUE, handshake_done |-> ~tls,
                       io_want |-> "read", backend |-> tls, ssl |-> tls]
           c == sock["server"]
<1>1. /\ phase["server"] = "accept" /\ tls \in BOOLEAN /\ c \in Sockets /\ sock \in [Ends -> Sockets]
      /\ result["server"] = "busy" => tls /\ Blocking("server") /\ c.sd # NoFd
  BY TwoEnds DEF AcceptCall, OwnInv, Ownership, ServerOwns, Types
<1>2. /\ taken.handshake_done = FALSE /\ taken.io_want = "none"
      /\ takenNb.handshake_done = ~tls
  BY DEF Empty
<1>3. CASE Blocking("server") /\ Accept("server")
  <2>1. \/ /\ net.backlog /\ sock' = [sock EXCEPT !["server"] = taken] /\ hs' = hs
           /\ net' = Unclaimed /\ Return("server", IF tls THEN "busy" ELSE "ok")
        \/ /\ net.backlog /\ sock' = [sock EXCEPT !["server"] = Empty] /\ hs' = hs
           /\ net' = Hangup("server", Unclaimed) /\ Return("server", "error")
        \/ /\ sock' = [sock EXCEPT !["server"] = Empty] /\ hs' = hs
           /\ Return("server", "error") /\ net' = net
    BY <1>3 DEF Accept, Unclaimed
  <2> HIDE DEF taken
  <2>2. \/ AcceptMoves(IF tls THEN "busy" ELSE "ok", taken) \/ AcceptMoves("error", Empty)
    BY <1>1, <1>2, <1>3, <2>1 DEF AcceptMoves, AcceptsNothing, AcceptsInVain, AcceptsOne
  <2> QED BY <2>2
<1>4. CASE ~Blocking("server") /\ SocketAcceptNb("server")
  <2>1. \/ /\ net.backlog /\ sock' = [sock EXCEPT !["server"] = takenNb] /\ hs' = hs
           /\ net' = Unclaimed /\ Return("server", "ok")
        \/ /\ net.backlog /\ sock' = [sock EXCEPT !["server"] = Empty] /\ hs' = hs
           /\ net' = Hangup("server", Unclaimed) /\ Return("server", "error")
        \/ /\ sock' = [sock EXCEPT !["server"] = Empty] /\ hs' = hs
           /\ Return("server", "error") \/ Return("server", "try_again")
           /\ net' = net
    BY <1>4 DEF SocketAcceptNb, AcceptNb, Unclaimed
  <2> HIDE DEF takenNb
  <2>2. \/ AcceptMoves("ok", takenNb) \/ AcceptMoves("error", Empty) \/ AcceptMoves("try_again", Empty)
    BY <1>1, <1>2, <1>4, <2>1 DEF AcceptMoves, AcceptsNothing, AcceptsInVain, AcceptsOne
  <2> QED BY <2>2
<1>5. CASE Blocking("server") /\ SslAccept("server")
  <2>0. result["server"] = "busy"
    BY <1>5 DEF SslAccept
  <2> DEFINE s == [BackendDestroyed(c) EXCEPT !.sd = NoFd]
  <2>1. PICK o \in Handshakes("server") :
          /\ hs' = [hs EXCEPT !["server"] = o.hs]
          /\ \/ o.out = "done" /\ Return("server", "ok") /\ net' = o.net /\ sock' = sock
             \/ AcceptFailed("server") /\ net' = Hangup("server", o.net)
             \/ net' = o.net /\ sock' = sock /\ result' = result
    BY <1>5 DEF SslAccept
  <2>2. /\ s.handshake_done = c.handshake_done /\ s.io_want = c.io_want /\ s.sd = NoFd
    BY <1>1 DEF Sockets, BackendDestroyed
  <2>3. sock = [sock EXCEPT !["server"] = c]
    BY <1>1
  <2>4. AcceptFailed("server") => sock' = [sock EXCEPT !["server"] = s] /\ Return("server", "error")
    BY DEF AcceptFailed
  <2>5. result' = result => Return("server", "busy")
    BY <2>0, TwoEnds DEF Return, OwnInv, Types
  <2> HIDE DEF s, c
  <2>6. CASE o.out = "done" /\ Return("server", "ok") /\ net' = o.net /\ sock' = sock
    <3>1. AcceptsOn("ok", c, o)
      BY <1>1, <1>5, <2>0, <2>1, <2>6 DEF AcceptsOn, c
    <3>2. AcceptMoves("ok", c)
      BY <2>3, <2>6, <3>1 DEF AcceptMoves
    <3> QED BY <3>2
  <2>7. CASE AcceptFailed("server") /\ net' = Hangup("server", o.net)
    <3>1. AcceptsOn("error", s, o)
      BY <1>1, <1>5, <2>0, <2>1, <2>2, <2>7 DEF AcceptsOn, c
    <3>2. AcceptMoves("error", s)
      BY <2>4, <2>7, <3>1 DEF AcceptMoves
    <3> QED BY <3>2
  <2>8. CASE net' = o.net /\ sock' = sock /\ result' = result
    <3>1. AcceptsOn("busy", c, o)
      BY <1>1, <1>5, <2>0, <2>1, <2>8 DEF AcceptsOn, c
    <3>2. AcceptMoves("busy", c)
      BY <2>3, <2>5, <2>8, <3>1 DEF AcceptMoves
    <3> QED BY <3>2
  <2> QED BY <2>1, <2>6, <2>7, <2>8
<1> QED BY <1>3, <1>4, <1>5 DEF AcceptCall

LEMMA AcceptLink == ASSUME OwnInv, OwnInv', LinkInv, AcceptCall PROVE LinkInv'
<1>1. /\ phase["server"] = "accept" /\ Types /\ net \in Connections /\ sock \in [Ends -> Sockets]
      /\ hs \in [Ends -> 0 .. Len(Script)]
      /\ UNCHANGED <<tls, wnum, sent, got, timed, proxied, conn>>
      /\ LinkOK /\ ProxyOK /\ EndOK("client") /\ EndOK("server") /\ Len(Script) = 7
  BY TwoEnds, ScriptIs DEF AcceptCall, Accept, SslAccept, SocketAcceptNb, Quiet, connectVars,
                           OwnInv, Types, NetOK, LinkInv
<1>2. PICK r, s : AcceptMoves(r, s)
  BY AcceptCallMoves
<1>3. Return("server", r) /\ sock' = [sock EXCEPT !["server"] = s]
      /\ r \in {"ok", "error", "try_again", "busy"}
  BY <1>2 DEF AcceptMoves
<1>4. PICK next \in {"transfer", "handshake"} :
        Then("server", next) /\ (next = "transfer" <=> Blocking("server"))
  BY DEF AcceptCall
<1>5. /\ phase'["server"] = (IF r = "ok" THEN next
                             ELSE IF r \in {"try_again", "busy"} THEN "accept" ELSE "deinit")
      /\ result'["server"] = r
      /\ result'["client"] = result["client"] /\ phase'["client"] = phase["client"]
      /\ api' = api /\ writer' = writer
  BY <1>1, <1>3, <1>4, TwoEnds, ThenFacts DEF Results, Phases
<1>6. sock'["server"] = s /\ sock'["client"] = sock["client"]
  BY <1>1, <1>3, TwoEnds
<1>7. /\ Blocking("server")' = Blocking("server") /\ Carried' = Carried
      /\ Dialing' = Dialing /\ (net'.host = net.host => Fresh' = Fresh)
  BY <1>1, <1>5 DEF Blocking, Carried, Dialing, Fresh
<1>8. Empty.handshake_done = FALSE /\ Empty.io_want = "none"
  BY DEF Empty
<1>9. Unclaimed \in Connections /\ Unclaimed.host = net.host /\ Unclaimed.answer = net.answer
      /\ Unclaimed.link = net.link /\ Unclaimed.fin = net.fin /\ Unclaimed.backlog = FALSE
  BY <1>1 DEF Unclaimed, Connections
(* What happens to the connection.                                         *)
<1>10. /\ hs'["client"] = hs["client"]
       /\ \/ net' = net /\ r \in {"error", "try_again"} /\ hs' = hs /\ s = Empty
          \/ /\ Reached
             /\ net'.host = net.host /\ net'.answer = net.answer
             /\ net'.link = net.link \/ net'.link = "reset"
             /\ net'.fin["client"] = net.fin["client"]
             /\ net'.fin["server"] => net.fin["server"] \/ r = "error"
  <2>1. CASE AcceptsNothing(r, s)
    BY <2>1 DEF AcceptsNothing
  <2>2. CASE AcceptsInVain(r, s)
    <3>1. HungUp("server", Unclaimed, net')
      BY <1>9, <2>2, HangsUp, TwoEnds DEF AcceptsInVain
    <3> QED BY <1>1, <1>9, <2>2, <3>1, TwoEnds DEF AcceptsInVain, HungUp, LinkOK
  <2>3. CASE AcceptsOne(r, s)
    BY <1>1, <1>9, <2>3 DEF AcceptsOne, LinkOK
  <2>4. CASE \E o \in Handshakes("server") : AcceptsOn(r, s, o)
    <3>1. PICK o \in Handshakes("server") : AcceptsOn(r, s, o)
      BY <2>4
    <3>2. sock["server"].sd # NoFd /\ Reached
      BY <1>1, <3>1 DEF AcceptsOn, LinkOK
    <3>3. Passes(o.net) /\ o.net \in Connections
      BY <1>1, <3>2, HandshakesPass, HandshakeOKs, TwoEnds DEF NetOK
    <3>4. hs'["client"] = hs["client"]
      BY <1>1, <3>1, TwoEnds DEF AcceptsOn
    <3>5. CASE net' = o.net
      BY <3>2, <3>3, <3>4, <3>5 DEF Passes
    <3>6. CASE r = "error" /\ net' = Hangup("server", o.net)
      <4>1. HungUp("server", o.net, net')
        BY <3>3, <3>6, HangsUp, TwoEnds
      <4> QED BY <3>2, <3>3, <3>4, <3>6, <4>1, TwoEnds DEF Passes, HungUp
    <3> QED BY <3>1, <3>5, <3>6 DEF AcceptsOn
  <2> QED BY <1>2, <2>1, <2>2, <2>3, <2>4 DEF AcceptMoves
<1>11. EndOK("client")'
  BY <1>1, <1>5, <1>6, <1>10, TwoEnds, EndStays
<1>12. /\ tls /\ s.handshake_done => hs'["server"] = 7
       /\ tls /\ r = "ok" /\ Blocking("server") => hs'["server"] = 7
       /\ ~tls => hs'["server"] = 0
       /\ Blocking("server") => s.io_want = "none" /\ ~s.handshake_done
  <2>1. CASE AcceptsNothing(r, s) \/ AcceptsInVain(r, s)
    BY <1>1, <1>8, <2>1, TwoEnds DEF AcceptsNothing, AcceptsInVain, EndOK
  <2>2. CASE AcceptsOne(r, s)
    BY <1>1, <2>2, TwoEnds DEF AcceptsOne, EndOK
  <2>3. CASE \E o \in Handshakes("server") : AcceptsOn(r, s, o)
    <3>1. PICK o \in Handshakes("server") : AcceptsOn(r, s, o)
      BY <2>3
    <3>2. PICK t, k \in Nat : Moves("server", o, t, k)
      BY <1>1, TwoEnds, HandshakeMoves
    <3>3. o.out = "done" => o.hs = 7
      BY <3>2 DEF Moves
    <3>4. hs'["server"] = o.hs /\ tls /\ Blocking("server") /\ ~sock["server"].handshake_done
          /\ sock["server"].io_want = "none"
      BY <1>1, <3>1, TwoEnds DEF AcceptsOn, EndOK
    <3>5. r = "ok" => o.out = "done"
      BY <3>1 DEF AcceptsOn
    <3> QED BY <3>1, <3>3, <3>4, <3>5 DEF AcceptsOn
  <2> QED BY <1>2, <2>1, <2>2, <2>3 DEF AcceptMoves
<1>13. EndOK("server")'
  BY <1>1, <1>4, <1>5, <1>6, <1>7, <1>12, TwoEnds DEF EndOK
<1>14. ProxyOK'
  BY <1>1, <1>10 DEF ProxyOK, Grant
<1>15. LinkOK'
  <2>1. CASE net' = net /\ r \in {"error", "try_again"} /\ hs' = hs /\ s = Empty
    <3>1. Empty.sd = NoFd
      BY DEF Empty
    <3> QED BY <1>1, <1>5, <1>6, <1>7, <2>1, <3>1, TwoEnds DEF LinkOK, Reached
  <2>2. CASE /\ Reached
             /\ net'.host = net.host /\ net'.answer = net.answer
             /\ net'.link = net.link \/ net'.link = "reset"
             /\ net'.fin["client"] = net.fin["client"]
             /\ net'.fin["server"] => net.fin["server"] \/ r = "error"
    <3>1. Reached'
      BY <2>2 DEF Reached
    <3>2. ~Fresh'
      <4>1. net # NoConnection
        BY <2>2 DEF Reached, NoConnection
      <4> QED BY <1>1, <1>7, <2>2, <4>1 DEF LinkOK
    <3>3. net'.link # "none"
      BY <3>1 DEF Reached
    <3>4. net'.fin["server"] => phase'["server"] = "deinit"
      BY <1>1, <1>5, <2>2 DEF LinkOK
    <3>5. sock'["server"].sd # NoFd => ~net'.fin["server"]
      <4>1. net'.fin["server"] => r = "error"
        BY <1>1, <2>2 DEF LinkOK
      <4>2. r = "error" => sock'["server"].sd = NoFd
        <5>1. CASE AcceptsNothing(r, s) \/ AcceptsInVain(r, s)
          BY <1>6, <5>1 DEF AcceptsNothing, AcceptsInVain, Empty
        <5>2. CASE AcceptsOne(r, s)
          BY <5>2 DEF AcceptsOne, Blocking
        <5>3. CASE \E o \in Handshakes("server") : AcceptsOn(r, s, o)
          BY <1>6, <5>3 DEF AcceptsOn
        <5> QED BY <1>2, <5>1, <5>2, <5>3 DEF AcceptMoves
      <4> QED BY <4>1, <4>2
    <3> QED BY <1>1, <1>5, <1>6, <1>7, <2>2, <3>1, <3>2, <3>3, <3>4, <3>5, TwoEnds DEF LinkOK
  <2> QED BY <1>10, <2>1, <2>2
<1> QED BY <1>11, <1>13, <1>14, <1>15, TwoEnds DEF LinkInv
LEMMA LinkInit == PairInit => LinkInv
<1> SUFFICES ASSUME PairInit PROVE LinkInv
  OBVIOUS
<1>1. /\ net = NoConnection /\ sock = [e \in Ends |-> Empty] /\ hs = [e \in Ends |-> 0]
      /\ wnum = [e \in Ends |-> 0] /\ sent = 0 /\ result = [e \in Ends |-> "ok"]
      /\ phase = [e \in Ends |-> "init"] /\ conn.pc = "none" /\ writer \in Ends
      /\ tls \in BOOLEAN
  BY DEF PairInit, SocketsInit, ConnectInit
<1>2. /\ Empty.sd = NoFd /\ ~Empty.handshake_done /\ Empty.io_want = "none"
      /\ net.link = "none" /\ ~net.backlog /\ net.host = "none" /\ net.answer = <<>>
      /\ ~net.fin["client"] /\ ~net.fin["server"]
  BY <1>1, TwoEnds DEF Empty, NoConnection
<1>3. Carried = 0
  BY <1>1 DEF Carried
<1>4. LinkOK
  BY <1>1, <1>2, <1>3, TwoEnds DEF LinkOK, Dialing
<1>5. ASSUME NEW e \in Ends PROVE EndOK(e)
  BY <1>1, <1>2, <1>3 DEF EndOK
<1>6. ProxyOK
  <2>1. /\ net.host # "proxy" /\ net.answer = <<>> /\ conn.pc # "answer" /\ net.host # "server"
        /\ Len(net.answer) = 0
    BY <1>1, <1>2
  <2>2. \E a \in Answers : Len(net.answer) <= Len(a) /\ net.answer = SubSeq(a, 1, Len(net.answer))
    <3>1. Grant \in Answers /\ Grant \in Seq(Int)
      BY DEF Grant, Answers, Terminator, Granted, CR, LF
    <3>2. Len(Grant) \in Nat /\ SubSeq(Grant, 1, 0) = <<>>
      BY <3>1
    <3> QED BY <2>1, <3>1, <3>2
  <2> QED BY <2>1, <2>2 DEF ProxyOK
<1> QED BY <1>4, <1>5, <1>6 DEF LinkInv

LEMMA LinkStays == ASSUME LinkInv, UNCHANGED pairVars PROVE LinkInv'
<1>1. /\ UNCHANGED <<tls, sock, listener, open, heap, net, hs, wnum, result, sent, got>>
      /\ UNCHANGED <<timed, proxied, conn>> /\ UNCHANGED <<api, writer, phase>>
  BY DEF pairVars, vars, connectVars, appVars
<1>2. LinkOK'
  BY <1>1 DEF LinkInv, LinkOK, Reached, Carried, Fresh, Dialing
<1>3. ProxyOK'
  BY <1>1 DEF LinkInv, ProxyOK
<1>4. \A e \in Ends : EndOK(e)'
  BY <1>1, EndStays DEF LinkInv
<1> QED BY <1>2, <1>3, <1>4 DEF LinkInv

LEMMA LinkStep == OwnInv /\ LinkInv /\ [PairNext]_pairVars => LinkInv'
<1> SUFFICES ASSUME OwnInv, LinkInv, [PairNext]_pairVars PROVE LinkInv'
  OBVIOUS
<1>0. OwnInv'
  BY OwnInvStep
<1>1. ASSUME NEW e \in Ends, Call(e) PROVE LinkInv'
  <2>1. CASE Init_client \/ ConnectCall \/ Begin \/ Continue
    BY <1>0, <2>1, InitClientLink, ConnectCallLink, BeginLink, ContinueLink
  <2>2. CASE Init_server \/ AcceptCall \/ CloseListener
    BY <1>0, <2>2, InitServerLink, AcceptLink, CloseListenerLink
  <2>3. CASE Handshake(e) \/ WriteCall(e) \/ ReadCall(e) \/ DeinitCall(e)
    BY <2>3, HandshakeLink, WriteLink, ReadLink, DeinitLink
  <2> QED BY <1>1, <2>1, <2>2, <2>3 DEF Call
<1>2. CASE ConnectDone \/ ProxyStep \/ ConnectionLost
  BY <1>2, KernelLink
<1>3. CASE Time
  BY <1>3, TimeLink
<1>4. CASE UNCHANGED pairVars
  BY <1>4, LinkStays
<1> QED BY <1>1, <1>2, <1>3, <1>4 DEF PairNext

(* Along every behaviour the descriptors, the positions in the handshake,  *)
(* io_want and the proxy's answer agree with the state of the connection.  *)
THEOREM ConnectionIsKnown == PairSpec => [](OwnInv /\ LinkInv)
<1>1. PairInit => OwnInv /\ LinkInv
  BY OwnInvInit, LinkInit
<1>2. OwnInv /\ LinkInv /\ [PairNext]_pairVars => (OwnInv /\ LinkInv)'
  BY OwnInvStep, LinkStep
<1> QED BY <1>1, <1>2, PTL DEF PairSpec
-----------------------------------------------------------------------------
(* The content of one direction: what is unread of what was said, h more   *)
(* segments of the handshake, d bytes after the given ones and the end.    *)
Content(pipe, said, given, a, h, d, fin, q, w) ==
  /\ h >= 0
  /\ tls /\ d > 0 => q = Len(Script)
  /\ \E t \in 0 .. 1 : /\ Consists(pipe, said, given, a, h, d, t)
                       /\ t = 1 => fin /\ tls /\ q = Len(Script) /\ w = 0

LEMMA UnderwayIs ==
  ASSUME NEW e, NEW p
  PROVE  Underway(e, p) <=> Content(net.pipe[e], net.answer, Len(got), Unread(e), Untaken(e, p),
                                    Undelivered(e), net.fin[e], Place(e, p), wnum[e])
BY DEF Underway, Content

LEMMA ContentGrows ==
  ASSUME NEW pipe, NEW said, NEW given, NEW a, NEW h, NEW d, NEW q, NEW fin, NEW fin2, NEW w, NEW w2,
         Content(pipe, said, given, a, h, d, fin, q, w), fin => fin2, w2 = w \/ w2 = 0
  PROVE  Content(pipe, said, given, a, h, d, fin2, q, w2)
BY DEF Content

LEMMA ContentAside ==
  ASSUME NEW pipe \in Seq(Int), NEW said, NEW given, NEW a \in Nat, NEW h \in Int, NEW d \in Nat,
         NEW q, NEW fin, NEW w, NEW said2, NEW given2,
         Content(pipe, said, given, a, h, d, fin, q, w),
         a = 0 \/ said2 = said, d = 0 \/ given2 = given
  PROVE  Content(pipe, said2, given2, a, h, d, fin, q, w)
<1>1. PICK t \in 0 .. 1 : /\ Consists(pipe, said, given, a, h, d, t)
                          /\ t = 1 => fin /\ tls /\ q = Len(Script) /\ w = 0
  BY DEF Content
<1>2. \A i \in 1 .. Len(pipe) : pipe[i] = Segment(said, given, a, h, d, i)
  BY <1>1 DEF Consists
<1>3. ASSUME NEW i \in 1 .. Len(pipe)
      PROVE  Segment(said2, given2, a, h, d, i) = Segment(said, given, a, h, d, i)
  <2>1. CASE i <= a
    <3>1. said2 = said
      BY <2>1
    <3> QED BY <2>1, <3>1 DEF Segment
  <2>2. CASE ~(i <= a) /\ i <= a + h
    BY <2>2 DEF Segment
  <2>3. CASE ~(i <= a) /\ ~(i <= a + h) /\ i <= a + h + d
    <3>1. given2 = given
      BY <2>3
    <3> QED BY <2>3, <3>1 DEF Segment
  <2>4. CASE ~(i <= a) /\ ~(i <= a + h) /\ ~(i <= a + h + d)
    BY <2>4 DEF Segment
  <2> QED BY <2>1, <2>2, <2>3, <2>4
<1>4. Consists(pipe, said2, given2, a, h, d, t)
  BY <1>1, <1>2, <1>3 DEF Consists
<1> QED BY <1>1, <1>4 DEF Content

LEMMA SaysHellos ==
  ASSUME NEW pipe \in Seq(Int), NEW said, NEW given \in Nat, NEW a \in Nat, NEW h \in Int,
         NEW d \in Nat, NEW q, NEW q2, NEW fin, NEW w, NEW k \in Nat,
         Content(pipe, said, given, a, h, d, fin, q, w), tls, ~fin, q # Len(Script)
  PROVE  Content(pipe \o Hellos(k), said, given, a, h + k, d, fin, q2, w)
<1>1. h \in Nat /\ d = 0 /\ Consists(pipe, said, given, a, h, 0, 0)
  BY DEF Content
<1>2. Consists(pipe \o Hellos(k), said, given, a, h + k, 0, 0)
  BY <1>1, AppendHellos
<1> QED BY <1>1, <1>2 DEF Content

LEMMA SaysData ==
  ASSUME NEW pipe \in Seq(Int), NEW said, NEW given \in Nat, NEW a \in Nat, NEW h \in Int,
         NEW d \in Nat, NEW q, NEW fin, NEW w, NEW w2, NEW data \in Seq(Int),
         Content(pipe, said, given, a, h, d, fin, q, w), tls => q = Len(Script), ~fin,
         \A i \in 1 .. Len(data) : data[i] = given + d + i
  PROVE  Content(pipe \o data, said, given, a, h, d + Len(data), fin, q, w2)
<1>1. h \in Nat /\ Consists(pipe, said, given, a, h, d, 0)
  BY DEF Content
<1>2. Consists(pipe \o data, said, given, a, h, d + Len(data), 0)
  BY <1>1, AppendData
<1> QED BY <1>1, <1>2 DEF Content

LEMMA SaysNotify ==
  ASSUME NEW pipe \in Seq(Int), NEW said, NEW given \in Nat, NEW a \in Nat, NEW h \in Int,
         NEW d \in Nat, Content(pipe, said, given, a, h, d, FALSE, Len(Script), 0), tls
  PROVE  Content(pipe \o <<CloseNotify>>, said, given, a, h, d, TRUE, Len(Script), 0)
<1>1. h \in Nat /\ Consists(pipe, said, given, a, h, d, 0)
  BY DEF Content
<1>2. Consists(pipe \o <<CloseNotify>>, said, given, a, h, d, 1)
  BY <1>1, AppendNotify
<1> QED BY <1>1, <1>2 DEF Content

LEMMA SaysAnswer ==
  ASSUME NEW pipe \in Seq(Int), NEW said \in Seq(Int), NEW given \in Nat, NEW a \in Nat,
         NEW q, NEW fin, NEW w, NEW x \in Int, a <= Len(said),
         Content(pipe, said, given, a, 0, 0, fin, q, w), ~fin
  PROVE  Content(Append(pipe, x), Append(said, x), given, a + 1, 0, 0, fin, q, w)
<1>1. Consists(pipe, said, given, a, 0, 0, 0)
  BY DEF Content
<1>2. Consists(Append(pipe, x), Append(said, x), given, a + 1, 0, 0, 0)
  BY <1>1, AppendAnswer
<1> QED BY <1>2 DEF Content

LEMMA HearsHellos ==
  ASSUME NEW pipe \in Seq(Int), NEW said, NEW given \in Nat, NEW h \in Int,
         NEW d \in Nat, NEW q, NEW fin, NEW w, NEW k \in Nat, k <= Len(pipe),
         Content(pipe, said, given, 0, h, d, fin, q, w), tls, q = Len(Script) => k <= h
  PROVE  Content(SubSeq(pipe, k + 1, Len(pipe)), said, given, 0, h - k, d, fin, q, w)
<1>1. PICK t \in 0 .. 1 : /\ Consists(pipe, said, given, 0, h, d, t)
                          /\ t = 1 => fin /\ tls /\ q = Len(Script) /\ w = 0
  BY DEF Content
<1>2. h \in Nat /\ t \in Nat /\ Len(pipe) = 0 + h + d + t
  BY <1>1 DEF Consists, Content
<1>3. k <= h
  <2>1. CASE d > 0 \/ t = 1
    BY <1>1, <2>1 DEF Content
  <2>2. CASE d = 0 /\ t = 0
    BY <1>2, <2>2
  <2> QED BY <2>1, <2>2
<1>4. Consists(SubSeq(pipe, k + 1, Len(pipe)), said, given, 0, h - k, d, t)
  BY <1>1, <1>2, <1>3, TakeHellos
<1>5. h - k >= 0
  BY <1>2, <1>3
<1> QED BY <1>1, <1>4, <1>5 DEF Content

LEMMA HearsByte ==
  ASSUME NEW pipe \in Seq(Int), NEW said, NEW given \in Nat, NEW d \in Nat,
         NEW q, NEW fin, NEW w, Content(pipe, said, given, 0, 0, d, fin, q, w), pipe # <<>>
  PROVE  \/ /\ d > 0 /\ Head(pipe) = given + 1
            /\ Content(SubSeq(pipe, 1 + 1, Len(pipe)), said, given + 1, 0, 0, d - 1, fin, q, w)
         \/ d = 0 /\ tls /\ fin /\ Head(pipe) = CloseNotify
<1>1. PICK t \in 0 .. 1 : /\ Consists(pipe, said, given, 0, 0, d, t)
                          /\ t = 1 => fin /\ tls /\ q = Len(Script) /\ w = 0
  BY DEF Content
<1>2. CASE d > 0
  <2>1. /\ Head(pipe) = given + 1
        /\ Consists(SubSeq(pipe, 1 + 1, Len(pipe)), said, given + 1, 0, 0, d - 1, t)
    BY <1>1, <1>2, TakeByte
  <2>2. tls /\ d - 1 > 0 => q = Len(Script)
    BY <1>2 DEF Content
  <2> QED BY <1>1, <1>2, <2>1, <2>2 DEF Content
<1>3. CASE d = 0
  <2>1. Len(pipe) = t /\ Len(pipe) >= 1 /\ Head(pipe) = pipe[1]
    BY <1>1, <1>3 DEF Consists
  <2>2. t = 1 /\ pipe[1] = Segment(said, given, 0, 0, d, 1)
    BY <1>1, <2>1 DEF Consists
  <2>3. Segment(said, given, 0, 0, 0, 1) = CloseNotify
    BY DEF Segment
  <2> QED BY <1>1, <1>3, <2>1, <2>2, <2>3
<1> QED BY <1>2, <1>3

LEMMA HearsAnswer ==
  ASSUME NEW pipe \in Seq(Int), NEW said \in Seq(Int), NEW given \in Nat, NEW a \in Nat, NEW h \in Int,
         NEW d \in Nat, NEW q, NEW fin, NEW w, NEW k \in Nat, k <= a,
         Content(pipe, said, given, a, h, d, fin, q, w)
  PROVE  Content(SubSeq(pipe, k + 1, Len(pipe)), said, given, a - k, h, d, fin, q, w)
<1>1. PICK t \in 0 .. 1 : /\ Consists(pipe, said, given, a, h, d, t)
                          /\ t = 1 => fin /\ tls /\ q = Len(Script) /\ w = 0
  BY DEF Content
<1>2. h \in Nat /\ t \in Nat /\ Len(said) \in Nat
  BY DEF Content
<1>3. Consists(SubSeq(pipe, k + 1, Len(pipe)), said, given, a - k, h, d, t)
  BY <1>1, <1>2, TakeAnswer
<1> QED BY <1>1, <1>3 DEF Content
-----------------------------------------------------------------------------
(* Bounds of what Underway is made of.                                     *)
LEMMA Bounds ==
  ASSUME OwnInv, LinkInv, Heard, NEW p \in 0 .. 7, NEW e \in Ends
  PROVE  /\ Peer(e) \in Ends /\ Peer(Peer(e)) = e /\ Len(Script) = 7
         /\ Place(e, p) \in 0 .. 7 /\ Untaken(e, p) \in Int
         /\ Undelivered(e) \in Nat /\ (e # writer => Undelivered(e) = 0)
         /\ Unread(e) \in Nat /\ net.pipe[e] \in Seq(Int) /\ Len(got) \in Nat
         /\ Unread("client") = 0 /\ (~Dialing => Unread(e) = 0)
         /\ net.answer \in Seq(Int) /\ hs["server"] \in 0 .. 7
<1>1. Len(Script) = 7 /\ net \in Connections /\ got \in Seq(Int) /\ hs["server"] \in 0 .. 7
      /\ conn \in Calls /\ writer \in Ends
  BY ScriptIs, TwoEnds DEF OwnInv, Types, NetOK, Heard
<1>2. Place(e, p) \in 0 .. 7 /\ Place(Peer(e), p) \in 0 .. 7
  BY <1>1 DEF Place
<1>3. Untaken(e, p) \in Int
  BY <1>2, SentByOK, PeerOK DEF Untaken
<1>4. Carried \in Nat /\ Len(got) <= Carried /\ Len(got) \in Nat
  <2>1. sent \in Nat /\ wnum[writer] \in Nat
    BY SocketAssumption DEF OwnInv, Types
  <2> QED BY <1>1, <2>1 DEF Carried, Heard
<1>5. Undelivered(e) \in Nat /\ (e # writer => Undelivered(e) = 0)
  BY <1>4 DEF Undelivered
<1>6. net.answer \in Seq(Int) /\ net.pipe[e] \in Seq(Int) /\ Len(net.answer) \in Nat
  BY <1>1 DEF Connections
<1>7. conn.answer \in Seq(Int) /\ Len(conn.answer) \in Nat
  BY <1>1 DEF Calls
<1>8. Unread(e) \in Nat
  BY <1>6, <1>7 DEF Unread, Heard
<1>9. Unread("client") = 0 /\ (~Dialing => Unread(e) = 0)
  BY DEF Unread
<1> QED BY <1>1, <1>2, <1>3, <1>4, <1>5, <1>6, <1>8, <1>9, PeerOK

(* An end that listens was not closed.                                     *)
LEMMA ListensOpen ==
  ASSUME OwnInv, LinkInv, NEW e \in Ends, Listens(e)
  PROVE  ~net.fin[e]
<1>1. CASE e = "server"
  BY <1>1 DEF Listens
<1>2. CASE e = "client" /\ sock["client"].sd # NoFd
  BY <1>2, TwoEnds DEF LinkInv, LinkOK
<1>3. CASE e = "client" /\ Dialing
  BY <1>3 DEF Dialing, LinkInv, LinkOK, OwnInv, Ownership, ClientOwns
<1> QED BY <1>1, <1>2, <1>3, TwoEnds DEF Listens

(* One direction of a step that moves nothing in it.                       *)
Still(e, p, q) ==
  /\ net'.pipe[e] = net.pipe[e] /\ net'.answer = net.answer
  /\ net.fin[e] => net'.fin[e]
  /\ Unread(e)' = Unread(e) /\ Untaken(e, q)' = Untaken(e, p) /\ Place(e, q)' = Place(e, p)
LEMMA DirectionStays ==
  ASSUME NEW e \in Ends, NEW p, NEW q, Lost(e) \/ Underway(e, p), Still(e, p, q),
         UNCHANGED <<tls, writer, wnum, sent, got>>, net.link = "reset" => net'.link = "reset"
  PROVE  (Lost(e) \/ Underway(e, q))'
<1>1. CASE Lost(e)
  BY <1>1 DEF Lost, Still
<1>2. CASE Underway(e, p)
  <2>1. Undelivered(e)' = Undelivered(e)
    BY DEF Undelivered, Carried
  <2> QED BY <1>2, <2>1 DEF Still, Underway
<1> QED BY <1>1, <1>2

LEMMA TrafficStays ==
  ASSUME Traffic, UNCHANGED <<tls, writer, wnum, sent, got, hs>>,
         net'.pipe = net.pipe, net'.answer = net.answer,
         \A e \in Ends : net.fin[e] => net'.fin[e],
         net.link = "reset" => net'.link = "reset",
         Dialing' => Dialing /\ Unread("server")' = Unread("server"),
         sock'["client"].sd # NoFd => sock["client"].sd # NoFd /\ ~Dialing
  PROVE  Traffic'
<1>1. PICK p \in 0 .. Len(Script) :
        Reaches(p) /\ \A e \in Ends : Listens(Peer(e)) => Lost(e) \/ Underway(e, p)
  BY DEF Traffic
<1>2. Reaches(p)'
  BY <1>1 DEF Reaches
<1>3. ASSUME NEW e \in Ends, Listens(Peer(e))' PROVE (Lost(e) \/ Underway(e, p))'
  <2>1. Listens(Peer(e))
    BY <1>3, TwoEnds DEF Listens
  <2>2. Unread(e)' = Unread(e)
    <3>1. CASE e = "client"
      BY <3>1 DEF Unread
    <3>2. CASE e = "server"
      <4>1. Dialing' \/ sock'["client"].sd # NoFd
        BY <1>3, <3>2, TwoEnds DEF Listens
      <4> QED BY <3>2, <4>1 DEF Unread
    <3> QED BY <3>1, <3>2, TwoEnds
  <2>3. Still(e, p, p)
    BY <2>2 DEF Still, Untaken, Place
  <2> QED BY <1>1, <2>1, <2>3, DirectionStays
<1> QED BY <1>2, <1>3 DEF Traffic

LEMMA HeardStays ==
  ASSUME Heard, UNCHANGED <<sent, got, writer, wnum>>, net'.answer = net.answer,
         conn'.pc = "answer" => conn'.answer = <<>> \/ (conn.pc = "answer" /\ conn'.answer = conn.answer),
         net.answer \in Seq(Int),
         sock'["client"].sd # NoFd /\ net'.host = "proxy" => sock["client"].sd # NoFd /\ net.host = "proxy"
  PROVE  Heard'
<1>1. Carried' = Carried
  BY DEF Carried
<1>2. conn'.pc = "answer" => Len(conn'.answer) <= Len(net.answer)
                             /\ conn'.answer = SubSeq(net.answer, 1, Len(conn'.answer))
  <2>1. CASE conn'.answer = <<>>
    <3>1. Len(conn'.answer) = 0 /\ SubSeq(net.answer, 1, 0) = <<>> /\ Len(net.answer) \in Nat
      BY <2>1
    <3> QED BY <2>1, <3>1
  <2>2. CASE conn.pc = "answer" /\ conn'.answer = conn.answer
    BY <2>2 DEF Heard
  <2> QED BY <2>1, <2>2
<1> QED BY <1>1, <1>2 DEF Heard
(* Steps that move nothing.                                                *)
LEMMA DialingHasNone ==
  ASSUME OwnInv
  PROVE  /\ Dialing => phase["client"] = "connect" /\ sock["client"].sd = NoFd
         /\ sock["client"].sd # NoFd => ~Dialing
         /\ net \in Connections /\ sock \in [Ends -> Sockets] /\ net.answer \in Seq(Int)
BY DEF Dialing, OwnInv, Ownership, ClientOwns, Types, NetOK, Connections

LEMMA FlowStays ==
  ASSUME OwnInv, Traffic, Heard, UNCHANGED <<tls, writer, wnum, sent, got, hs>>,
         net'.pipe = net.pipe, net'.answer = net.answer,
         \A e \in Ends : net.fin[e] => net'.fin[e],
         net.link = "reset" => net'.link = "reset",
         Dialing' => Dialing, conn'.pc = "answer" => conn.pc = "answer" /\ conn'.answer = conn.answer,
         conn'.pc = "connecting" => conn.pc = "connecting",
         net'.host = "proxy" => net.host = "proxy",
         sock'["client"].sd # NoFd => sock["client"].sd # NoFd
  PROVE  Traffic' /\ Heard'
<1>1. Heard'
  BY HeardStays, DialingHasNone
<1>2. Dialing' => Dialing /\ Unread("server")' = Unread("server")
  BY DEF Unread, Dialing
<1>3. Traffic'
  BY <1>2, TrafficStays, DialingHasNone
<1> QED BY <1>1, <1>3

LEMMA InitClientFlow == ASSUME OwnInv, Traffic, Heard, Init_client PROVE Traffic' /\ Heard'
<1>1. UNCHANGED <<tls, net, hs, wnum, sent, got, conn, writer>>
  BY DEF Init_client, InitClient, Quiet, connectVars, Then
<1>2. sock'["client"].sd = sock["client"].sd
  BY TwoEnds DEF Init_client, InitClient, OwnInv, Types, Sockets
<1> QED BY <1>1, <1>2, FlowStays DEF Dialing

LEMMA InitServerFlow == ASSUME OwnInv, Traffic, Heard, Init_server PROVE Traffic' /\ Heard'
<1>1. UNCHANGED <<tls, sock, net, hs, wnum, sent, got, conn, writer>>
  BY DEF Init_server, InitListener, Quiet, connectVars, Then
<1> QED BY <1>1, FlowStays DEF Dialing

LEMMA TimeFlow == ASSUME OwnInv, Traffic, Heard, Time PROVE Traffic' /\ Heard'
<1>1. /\ UNCHANGED <<tls, sock, net, hs, wnum, sent, got, writer>>
      /\ conn'.pc = conn.pc /\ conn'.answer = conn.answer
  BY DEF Time, Clock, Tick, Interrupted, Waiting, Unchanged, appVars, OwnInv, Types, Calls, LeftOver
<1> QED BY <1>1, FlowStays DEF Dialing

LEMMA StutterFlow == ASSUME OwnInv, Traffic, Heard, UNCHANGED pairVars PROVE Traffic' /\ Heard'
<1>1. UNCHANGED <<tls, sock, net, hs, wnum, sent, got, conn, writer>>
  BY DEF pairVars, vars, connectVars, appVars
<1> QED BY <1>1, FlowStays DEF Dialing

LEMMA ContinueFlow == ASSUME OwnInv, Traffic, Heard, Continue PROVE Traffic' /\ Heard'
<1>1. /\ UNCHANGED <<tls, net, hs, wnum, sent, got, conn, writer>>
      /\ sock["client"].sd # NoFd
  BY DEF Continue, At, ConnectNbContinue, Quiet, connectVars, Then, OwnInv, Ownership, ClientOwns
<1> QED BY <1>1, FlowStays DEF Dialing

LEMMA CloseListenerFlow == ASSUME OwnInv, LinkInv, Traffic, Heard, CloseListener PROVE Traffic' /\ Heard'
<1>1. /\ net' = (IF net.backlog THEN [net EXCEPT !.link = "reset", !.backlog = FALSE] ELSE net)
      /\ UNCHANGED <<tls, sock, hs, wnum, sent, got, conn, writer>>
  BY DEF CloseListener, DeinitListener, Quiet, connectVars, appVars
<1>2. /\ net'.host = net.host /\ net'.answer = net.answer /\ net'.fin = net.fin /\ net'.pipe = net.pipe
      /\ net'.link = net.link \/ net'.link = "reset"
  BY <1>1, DialingHasNone DEF Connections
<1> QED BY <1>1, <1>2, FlowStays DEF Dialing

LEMMA LostFlow == ASSUME OwnInv, LinkInv, Traffic, Heard, ConnectDone \/ ConnectionLost
                  PROVE Traffic' /\ Heard'
<1>1. UNCHANGED <<tls, sock, hs, wnum, sent, got, conn, writer>>
  BY DEF ConnectDone, ConnectionLost, Kernel, connectVars, appVars
<1>2. CASE ConnectDone \/ (ConnectionLost /\ Breaks)
  <2>1. /\ net'.host = net.host /\ net'.answer = net.answer /\ net'.fin = net.fin
        /\ net'.pipe = net.pipe /\ net.link # "reset"
    BY <1>2, DialingHasNone DEF ConnectDone, ConnectEnds, Breaks, Connections
  <2> QED BY <1>1, <2>1, FlowStays DEF Dialing
<1>3. CASE Loses
  <2>1. PICK e \in Ends : net.link = "reset" /\ net' = [net EXCEPT !.pipe[e] = <<>>]
    BY <1>3 DEF Loses
  <2>2. /\ net'.host = net.host /\ net'.answer = net.answer /\ net'.fin = net.fin
        /\ net'.link = "reset" /\ net'.pipe[e] = <<>>
        /\ \A f \in Ends : f # e => net'.pipe[f] = net.pipe[f]
    BY <2>1, DialingHasNone DEF Connections
  <2>3. Heard'
    BY <1>1, <2>2, HeardStays, DialingHasNone
  <2>4. PICK p \in 0 .. Len(Script) :
          Reaches(p) /\ \A f \in Ends : Listens(Peer(f)) => Lost(f) \/ Underway(f, p)
    BY DEF Traffic
  <2>5. Reaches(p)'
    BY <1>1, <2>4 DEF Reaches, Dialing
  <2>6. ASSUME NEW f \in Ends, Listens(Peer(f))' PROVE (Lost(f) \/ Underway(f, p))'
    <3>1. CASE f = e
      BY <2>2, <3>1 DEF Lost
    <3>2. CASE f # e
      <4>1. Listens(Peer(f))
        BY <1>1, <2>2, <2>6 DEF Listens, Dialing
      <4>2. Still(f, p, p)
        BY <1>1, <2>2, <3>2 DEF Still, Unread, Untaken, Place, Dialing
      <4> QED BY <1>1, <2>2, <2>4, <4>1, <4>2, DirectionStays
    <3> QED BY <3>1, <3>2
  <2> QED BY <2>3, <2>5, <2>6 DEF Traffic
<1> QED BY <1>2, <1>3 DEF ConnectionLost

(* Before there is a connection to the server nothing is under way.        *)
LEMMA ConsistsOfNothing ==
  ASSUME NEW said, NEW given PROVE Consists(<<>>, said, given, 0, 0, 0, 0)
BY DEF Consists

LEMMA SilenceFlow ==
  ASSUME Heard, Carried = 0, UNCHANGED <<got, sent, wnum, writer>>,
         \A e \in Ends : net'.pipe[e] = <<>>, net'.answer = <<>>, conn'.pc # "answer",
         hs'["server"] = 0, sock'["client"].sd # NoFd => hs'["client"] = 0 /\ net'.host # "proxy"
  PROVE  Traffic' /\ Heard'
<1>1. Carried' = 0 /\ got \in Seq(Int) /\ Len(got) = 0 /\ got' = got
  BY DEF Carried, Heard
<1>2. Heard'
  BY <1>1 DEF Heard
<1>3. Reaches(0)' /\ 0 \in 0 .. Len(Script)
  BY ScriptIs DEF Reaches
<1>4. ASSUME NEW e \in Ends PROVE Underway(e, 0)'
  <2>1. Place("client", 0)' = 0 /\ Place("server", 0)' = 0 /\ Peer(e) \in {"client", "server"}
    BY TwoEnds DEF Place, Peer
  <2>2. Untaken(e, 0)' = 0
    BY <2>1, TwoEnds DEF Untaken, SentBy
  <2>3. Undelivered(e)' = 0
    BY <1>1 DEF Undelivered
  <2>4. Unread(e)' = 0
    BY DEF Unread
  <2>5. Consists(net'.pipe[e], net'.answer, Len(got'), 0, 0, 0, 0)
    BY ConsistsOfNothing
  <2> QED BY <2>2, <2>3, <2>4, <2>5 DEF Underway
<1> QED BY <1>2, <1>3, <1>4 DEF Traffic

LEMMA NotReached ==
  ASSUME OwnInv, LinkInv, ~Reached, phase["client"] \in {"init", "connect", "begin"}
  PROVE  hs["server"] = 0 /\ Carried = 0
<1>1. writer \in Ends /\ Carried \in Nat
  BY SocketAssumption DEF OwnInv, Types, Carried
<1>2. CASE writer = "client"
  BY <1>1, <1>2, TwoEnds DEF LinkInv, LinkOK, EndOK
<1>3. CASE writer = "server"
  BY <1>1, <1>3, TwoEnds DEF LinkInv, LinkOK
<1> QED BY <1>1, <1>2, <1>3, TwoEnds
-----------------------------------------------------------------------------
(* Steps of socket_connect.                                                *)
LEMMA CutFlow ==
  ASSUME OwnInv, LinkInv, Traffic, Heard, phase["client"] = "connect", Unchanged, writer' = writer,
         net' = Cut(net), hs' = hs, sock'["client"].sd = NoFd, conn'.pc \in {"none", "next"}
  PROVE  Traffic' /\ Heard'
<1>1. UNCHANGED <<tls, wnum, sent, got>> /\ ~Dialing'
  BY DEF Unchanged, Dialing
<1>2. CASE Reached
  <2>1. net' = Hangup("client", net)
    BY <1>2 DEF Cut, Reached
  <2>2. HungUp("client", net, net')
    BY <2>1, HangsUp, TwoEnds, DialingHasNone
  <2>3. /\ net'.pipe = net.pipe /\ net'.answer = net.answer /\ net'.host = net.host
        /\ \A e \in Ends : net.fin[e] => net'.fin[e]
        /\ net.link = "reset" => net'.link = "reset"
    BY <2>2, TwoEnds DEF HungUp
  <2> QED BY <1>1, <2>3, FlowStays
<1>3. CASE ~Reached
  <2>1. net' = NoConnection
    BY <1>3 DEF Cut, Reached
  <2>2. (\A e \in Ends : net'.pipe[e] = <<>>) /\ net'.answer = <<>>
    BY <2>1 DEF NoConnection
  <2>3. hs["server"] = 0 /\ Carried = 0
    BY <1>3, NotReached
  <2> QED BY <1>1, <2>2, <2>3, SilenceFlow
<1> QED BY <1>2, <1>3

LEMMA AbandonFlow ==
  ASSUME OwnInv, LinkInv, Traffic, Heard, phase["client"] = "connect", Unchanged, writer' = writer,
         conn.pc \in {"connecting", "answer"}, Abandon
  PROVE  Traffic' /\ Heard'
<1>1. conn' = NextAddress /\ net' = Cut(net) /\ UNCHANGED <<sock, hs>>
  BY DEF Abandon
<1>2. conn \in Calls /\ sock["client"].sd = NoFd
  BY Connecting
<1>3. conn'.pc = "next"
  BY <1>1, <1>2 DEF NextAddress, Calls
<1> QED BY <1>1, <1>2, <1>3, CutFlow

LEMMA BeginsFlow ==
  ASSUME OwnInv, LinkInv, Traffic, Heard, phase["client"] = "connect", writer' = writer,
         ConnectBegin \/ Exhausted
  PROVE  Traffic' /\ Heard'
<1>1. conn \in Calls /\ UNCHANGED <<tls, wnum, sent, got, sock, net, hs>>
  BY Connecting DEF ConnectBegin, Exhausted, Unchanged
<1>2. conn'.pc \in {"none", "next"}
  <2>1. CASE ConnectBegin
    <3>1. conn.pc = "none"
      BY <2>1 DEF ConnectBegin, Unchanged
    <3>2. conn' = conn \/ \E k : conn' = [conn EXCEPT !.pc = "next", !.left = k]
      BY <2>1 DEF ConnectBegin, Unchanged
    <3> QED BY <1>1, <3>1, <3>2 DEF Calls
  <2>2. CASE Exhausted
    <3>1. conn' = [conn EXCEPT !.pc = "none"]
      BY <2>2 DEF Exhausted
    <3> QED BY <1>1, <3>1 DEF Calls
  <2> QED BY <2>1, <2>2
<1> QED BY <1>1, <1>2, FlowStays DEF Dialing

LEMMA CandidateFlow ==
  ASSUME OwnInv, LinkInv, Traffic, Heard, phase["client"] = "connect", writer' = writer, Candidate
  PROVE  Traffic' /\ Heard'
<1>1. /\ Unchanged /\ UNCHANGED <<sock, hs, tls, wnum, sent, got>> /\ conn \in Calls /\ conn.pc = "next"
      /\ sock["client"].sd = NoFd
  <2>1. conn.pc = "next" /\ Unchanged /\ UNCHANGED <<sock, hs>>
    BY DEF Candidate, Unchanged
  <2>2. UNCHANGED <<tls, wnum, sent, got>>
    BY <2>1 DEF Unchanged
  <2> QED BY <2>1, <2>2, Connecting
<1>2. CASE conn' = NextAddress /\ UNCHANGED net
  <2>1. conn'.pc = "next"
    BY <1>1, <1>2 DEF NextAddress, Calls
  <2> QED BY <1>1, <1>2, <2>1, FlowStays DEF Dialing
<1>3. CASE \E h \in Hosts :
             /\ conn' = [conn EXCEPT !.pc = "connecting", !.sockfd = LowestFree(open),
                                     !.modes = [Modes EXCEPT !.nonblocking = timed],
                                     !.remaining = Timeout, !.spent = 0]
             /\ open' = Opened(open)
             /\ net' = [NoConnection EXCEPT !.link = "progress", !.host = h]
  <2>1. conn'.pc = "connecting"
    BY <1>1, <1>3 DEF Calls
  <2>2. (\A e \in Ends : net'.pipe[e] = <<>>) /\ net'.answer = <<>>
    BY <1>3 DEF NoConnection
  <2>3. ~Reached
    BY <1>3 DEF Hosts, Reached
  <2>4. hs["server"] = 0 /\ Carried = 0
    BY <2>3, NotReached
  <2> QED BY <1>1, <2>1, <2>2, <2>4, SilenceFlow
<1> QED BY <1>2, <1>3 DEF Candidate, Unchanged

(* The socket takes over the descriptor when the answer was read.          *)
LEMMA UsableFlow ==
  ASSUME OwnInv, LinkInv, Traffic, Heard, phase["client"] = "connect", Unchanged, writer' = writer,
         Dialing, NEW c \in Calls, NEW n \in Connections, Passes(n), n.link = net.link, Usable(c, n),
         n.pipe["client"] = net.pipe["client"],
         \/ n.link = "reset" /\ n.pipe["server"] = <<>>
         \/ Content(n.pipe["server"], net.answer, Len(got), 0, Untaken("server", 0),
                    Undelivered("server"), net.fin["server"], Place("server", 0), wnum["server"]),
         net.host = "proxy" => net.answer = Grant
  PROVE  Traffic' /\ Heard'
<1>1. /\ hs \in [Ends -> 0 .. Len(Script)] /\ sock \in [Ends -> Sockets] /\ "client" \in Ends
      /\ "server" \in Ends /\ "client" # "server" /\ tls \in BOOLEAN
      /\ UNCHANGED <<tls, wnum, sent, got>>
      /\ conn.pc \in {"connecting", "answer"} /\ Len(Script) = 7
      /\ ~tls => hs["client"] = 0
  BY Connecting, TwoEnds, ScriptIs DEF Dialing, Unchanged, LinkInv, EndOK
<1>2. CASE Abandon
  BY <1>1, <1>2, AbandonFlow
<1>3. CASE ~Abandon
  <2>1. /\ net' = n /\ hs'["server"] = hs["server"] /\ hs'["client"] = 0
        /\ conn'.pc \in {"none", "tls"}
    <3>1. CASE ~tls
      <4>1. conn' = [c EXCEPT !.pc = "none", !.sockfd = NoFd] /\ net' = n /\ hs' = hs
        BY <1>3, <3>1 DEF Usable
      <4> QED BY <1>1, <3>1, <4>1 DEF Calls
    <3>2. CASE tls
      <4>1. /\ conn' = [c EXCEPT !.pc = "tls", !.sockfd = NoFd, !.modes = HandshakeModes(@)]
            /\ hs' = [hs EXCEPT !["client"] = 0] /\ net' = n
        BY <1>3, <3>2 DEF Usable
      <4> QED BY <1>1, <4>1 DEF Calls
    <3> QED BY <3>1, <3>2
  <2>2. ~Dialing' /\ \A e \in Ends : Unread(e)' = 0
    BY <2>1 DEF Dialing, Unread
  <2>3. /\ net'.answer = net.answer /\ net'.fin = net.fin /\ net'.host = net.host
        /\ net'.link = net.link
    BY <2>1 DEF Passes
  <2>4. PICK p \in 0 .. 7 : Reaches(p) /\ \A e \in Ends : Listens(Peer(e)) => Lost(e) \/ Underway(e, p)
    BY <1>1 DEF Traffic
  <2>5. p = 0
    BY <2>4 DEF Reaches
  <2>6. Reaches(0)'
    BY <2>1 DEF Reaches
  <2>7. /\ \A e \in Ends : Untaken(e, 0)' = Untaken(e, 0) /\ Place(e, 0)' = Place(e, 0)
        /\ \A e \in Ends : Undelivered(e)' = Undelivered(e)
    BY <1>1, <2>1 DEF Untaken, Place, Undelivered, Carried
  <2>8. Listens("server")' => (Lost("client") \/ Underway("client", 0))'
    <3>1. ASSUME Listens("server")' PROVE (Lost("client") \/ Underway("client", 0))'
      <4>1. Listens("server")
        BY <2>3, <3>1, TwoEnds DEF Listens
      <4>2. Lost("client") \/ Underway("client", 0)
        BY <2>4, <2>5, <4>1, TwoEnds
      <4>3. Unread("client") = 0
        BY DEF Unread
      <4>4. Still("client", 0, 0)
        BY <1>1, <2>1, <2>2, <2>3, <2>7, <4>3 DEF Still
      <4> QED BY <1>1, <2>3, <4>2, <4>4, DirectionStays
    <3> QED BY <3>1
  <2>9. (Lost("server") \/ Underway("server", 0))'
    <3>1. CASE n.link = "reset" /\ n.pipe["server"] = <<>>
      BY <2>1, <3>1 DEF Lost
    <3>2. CASE Content(n.pipe["server"], net.answer, Len(got), 0, Untaken("server", 0),
                       Undelivered("server"), net.fin["server"], Place("server", 0), wnum["server"])
      BY <1>1, <2>1, <2>2, <2>3, <2>7, <3>2 DEF Underway, Content
    <3> QED BY <3>1, <3>2
  <2>10. Traffic'
    <3>1. \A e \in Ends : Listens(Peer(e))' => (Lost(e) \/ Underway(e, 0))'
      BY <2>8, <2>9, TwoEnds
    <3>2. 0 \in 0 .. Len(Script)
      BY <1>1
    <3> QED BY <2>6, <3>1, <3>2 DEF Traffic
  <2>11. Heard'
    BY <1>1, <2>1, <2>3 DEF Heard, Carried, Grant
  <2> QED BY <2>10, <2>11
<1> QED BY <1>2, <1>3

LEMMA ConnectedFlow ==
  ASSUME OwnInv, LinkInv, Traffic, Heard, phase["client"] = "connect", writer' = writer, Connected
  PROVE  Traffic' /\ Heard'
<1>1. conn.pc = "connecting" /\ Unchanged /\ Dialing
  BY DEF Connected, Unchanged, Dialing
<1>2. conn \in Calls /\ net \in Connections /\ sock["client"].sd = NoFd /\ Passes(net) /\ Len(Script) = 7
      /\ UNCHANGED <<tls, wnum, sent, got>>
  BY <1>1, Connecting, ScriptIs DEF NetOK, Passes, Unchanged
<1>3. CASE Abandon
  BY <1>1, <1>3, AbandonFlow
<1>4. CASE /\ conn' = [NextAddress EXCEPT !.pc = "none"]
           /\ open' = Closed(open, conn.sockfd) /\ net' = Cut(net)
           /\ Return("client", "invalid_argument") /\ UNCHANGED <<sock, heap, hs>>
  <2>1. conn'.pc = "none"
    BY <1>2, <1>4 DEF NextAddress, Calls
  <2> QED BY <1>1, <1>2, <1>4, <2>1, CutFlow
<1>5. CASE ~proxied /\ Usable([conn EXCEPT !.modes = Restored], net)
  <2>1. Restored \in [nonblocking : BOOLEAN, rcvtimeo : BOOLEAN, sndtimeo : BOOLEAN]
    BY <1>2 DEF Restored, Calls, OwnInv, Types
  <2>2. [conn EXCEPT !.modes = Restored] \in Calls
    BY <1>2, <2>1 DEF Calls
  <2>3. net.host # "proxy" /\ net.answer = <<>>
    BY <1>5 DEF LinkInv, ProxyOK
  <2>4. Unread("server") = 0 /\ Listens("client")
    BY <1>1, <2>3 DEF Unread, Listens
  <2>5. PICK p \in 0 .. 7 : Reaches(p) /\ \A e \in Ends : Listens(Peer(e)) => Lost(e) \/ Underway(e, p)
    BY <1>2 DEF Traffic
  <2>6. Lost("server") \/ Underway("server", 0)
    BY <1>1, <2>4, <2>5, TwoEnds DEF Reaches
  <2>7. \/ net.link = "reset" /\ net.pipe["server"] = <<>>
        \/ Content(net.pipe["server"], net.answer, Len(got), 0, Untaken("server", 0),
                   Undelivered("server"), net.fin["server"], Place("server", 0), wnum["server"])
    BY <2>4, <2>6, UnderwayIs DEF Lost
  <2> QED BY <1>1, <1>2, <1>5, <2>2, <2>3, <2>7, UsableFlow
<1>6. CASE /\ proxied
           /\ conn' = [conn EXCEPT !.pc = "answer", !.answer = <<>>, !.modes = Restored,
                                   !.remaining = Timeout, !.spent = 0]
           /\ UNCHANGED <<sock, open, heap, net, hs, result>>
  <2>1. conn'.pc = "answer" /\ conn'.answer = <<>> /\ Len(conn'.answer) = 0
    BY <1>2, <1>6 DEF Calls
  <2>2. Dialing' /\ Unread("server")' = Unread("server")
    BY <1>1, <1>2, <1>6, <2>1 DEF Dialing, Unread, Connections
  <2>3. Traffic'
    BY <1>1, <1>2, <1>6, <2>2, TrafficStays
  <2>4. Heard'
    BY <1>2, <1>6, <2>1, HeardStays, DialingHasNone
  <2> QED BY <2>3, <2>4
<1> QED BY <1>3, <1>4, <1>5, <1>6 DEF Connected, Unchanged
(* What socket_connect has of the answer, with what it sees after it.      *)
LEMMA Peeked ==
  ASSUME NEW had \in Seq(Int), NEW pipe \in Seq(Int), NEW q \in Nat, q <= Len(pipe)
  PROVE  /\ had \o SubSeq(pipe, 1, q) \in Seq(Int)
         /\ Len(had \o SubSeq(pipe, 1, q)) = Len(had) + q
         /\ \A i \in 1 .. Len(had) : (had \o SubSeq(pipe, 1, q))[i] = had[i]
         /\ \A j \in 1 .. q : (had \o SubSeq(pipe, 1, q))[Len(had) + j] = pipe[j]
<1> DEFINE s == SubSeq(pipe, 1, q)
<1>1. s \in Seq(Int)
  BY ElementOfSeq
<1>2. Len(s) = q /\ \A j \in 1 .. q : s[j] = pipe[j]
  OBVIOUS
<1> HIDE DEF s
<1>3. /\ had \o s \in Seq(Int) /\ Len(had \o s) = Len(had) + Len(s)
      /\ \A i \in 1 .. Len(had) : (had \o s)[i] = had[i]
      /\ \A i \in 1 .. Len(s) : (had \o s)[Len(had) + i] = s[i]
  BY <1>1, Joined
<1>4. \A j \in 1 .. q : (had \o s)[Len(had) + j] = pipe[j]
  BY <1>2, <1>3
<1> QED BY <1>2, <1>3, <1>4 DEF s

LEMMA SamePrefix ==
  ASSUME NEW s \in Seq(Int), NEW said \in Seq(Int), Len(s) <= Len(said),
         \A i \in 1 .. Len(s) : s[i] = said[i]
  PROVE  s = SubSeq(said, 1, Len(s))
<1>1. Len(s) \in Nat /\ Len(said) \in Nat
  OBVIOUS
<1>2. Len(SubSeq(said, 1, Len(s))) = Len(s)
  BY <1>1
<1>3. \A i \in 1 .. Len(s) : SubSeq(said, 1, Len(s))[i] = said[i]
  BY <1>1
<1>4. SubSeq(said, 1, Len(s)) \in Seq(Int)
  BY <1>1, ElementOfSeq
<1> DEFINE u == SubSeq(said, 1, Len(s))
<1> HIDE DEF u
<1>5. u \in Seq(Int) /\ Len(u) = Len(s) /\ \A i \in 1 .. Len(s) : u[i] = s[i]
  BY <1>2, <1>3, <1>4 DEF u
<1>6. s = u
  BY <1>5, SeqEqual
<1> QED BY <1>6 DEF u

LEMMA PrefixOf ==
  ASSUME NEW said \in Seq(Int), NEW n \in Nat, n <= Len(said), NEW s, s = SubSeq(said, 1, n)
  PROVE  s \in Seq(Int) /\ Len(s) = n /\ \A i \in 1 .. n : s[i] = said[i]
<1>1. SubSeq(said, 1, n) \in Seq(Int)
  BY ElementOfSeq
<1> QED BY <1>1

LEMMA GrantIs ==
  /\ Grant \in Seq(Int) /\ Len(Grant) = 5 /\ Grant[1] = Granted
  /\ Grant[2] = CR /\ Grant[3] = LF /\ Grant[4] = CR /\ Grant[5] = LF
BY DEF Grant, Terminator, Granted, CR, LF

LEMMA Terminated ==
  ASSUME NEW s \in Seq(Int), NEW i \in Nat \ {0}, i + 3 <= Len(s)
  PROVE  SubSeq(s, i, i + 3) = Terminator
           <=> s[i] = CR /\ s[i + 1] = LF /\ s[i + 2] = CR /\ s[i + 3] = LF
<1> DEFINE u == SubSeq(s, i, i + 3)
<1>1. Len(u) = 4 /\ u[1] = s[i] /\ u[2] = s[i + 1] /\ u[3] = s[i + 2] /\ u[4] = s[i + 3]
  OBVIOUS
<1>2. u \in Seq(Int)
  BY ElementOfSeq
<1> HIDE DEF u
<1>3. Terminator \in Seq(Int) /\ Len(Terminator) = 4 /\ Terminator[1] = CR /\ Terminator[2] = LF
      /\ Terminator[3] = CR /\ Terminator[4] = LF
  BY DEF Terminator, CR, LF
<1>4. u = Terminator <=> u[1] = CR /\ u[2] = LF /\ u[3] = CR /\ u[4] = LF
  <2>1. ASSUME u[1] = CR, u[2] = LF, u[3] = CR, u[4] = LF PROVE u = Terminator
    <3>1. \A j \in 1 .. 4 : u[j] = Terminator[j]
      <4> SUFFICES ASSUME NEW j \in {1, 2, 3, 4} PROVE u[j] = Terminator[j]
        OBVIOUS
      <4> QED BY <1>3, <2>1
    <3> QED BY <1>1, <1>2, <1>3, <3>1, SeqEqual
  <2>2. ASSUME u = Terminator PROVE u[1] = CR /\ u[2] = LF /\ u[3] = CR /\ u[4] = LF
    BY <1>3, <2>2
  <2> QED BY <2>1, <2>2
<1> QED BY <1>1, <1>4 DEF u

LEMMA FourOrFive == \A n, l \in Nat : n >= 4 /\ n <= l /\ l <= 5 /\ n # 4 => n = 5 /\ l = 5
OBVIOUS

(* An answer that begins with a grant and has been heard to its end.       *)
Begins(said, a) == Len(said) <= Len(a) /\ said = SubSeq(a, 1, Len(said))
Grants(heard) == /\ Len(heard) >= 4 /\ Head(heard) = Granted
                 /\ SubSeq(heard, Len(heard) - 3, Len(heard)) = Terminator
LEMMA GrantHeard ==
  ASSUME NEW a \in Answers, NEW said \in Seq(Int), Begins(said, a), NEW heard \in Seq(Int),
         Len(heard) <= Len(said), \A i \in 1 .. Len(heard) : heard[i] = said[i], Grants(heard)
  PROVE  said = Grant /\ Len(heard) = 5
<1> DEFINE n == Len(heard)
<1>1. n \in Nat /\ n >= 4 /\ heard[1] = Granted /\ Len(said) \in Nat /\ n <= Len(said)
  BY DEF Grants
<1>2. a \in Seq(Int) /\ Len(a) \in Nat
  BY AnswersOK
<1>3. \A i \in 1 .. Len(said) : said[i] = a[i]
  BY <1>1, <1>2, PrefixOf DEF Begins
<1>4. \A i \in 1 .. n : heard[i] = a[i] /\ i <= Len(a)
  <2> SUFFICES ASSUME NEW i \in 1 .. n PROVE heard[i] = a[i] /\ i <= Len(a)
    OBVIOUS
  <2>1. heard[i] = said[i]
    OBVIOUS
  <2>0. Len(said) <= Len(a)
    BY DEF Begins
  <2> HIDE DEF n
  <2>2. i \in 1 .. Len(said) /\ i <= Len(a)
    BY <1>1, <1>2, <2>0, SMTT(20)
  <2> QED BY <1>3, <2>1, <2>2
<1>5. heard[n - 3] = CR /\ heard[n] = LF
  <2>1. n - 3 \in Nat \ {0} /\ (n - 3) + 3 = n /\ n - 3 + 2 = n - 1
    <3> HIDE DEF n
    <3> QED BY <1>1
  <2>2. SubSeq(heard, n - 3, (n - 3) + 3) = Terminator /\ (n - 3) + 3 <= Len(heard)
    BY <2>1 DEF Grants
  <2>3. heard[n - 3] = CR /\ heard[(n - 3) + 3] = LF
    BY <2>1, <2>2, Terminated
  <2> QED BY <2>1, <2>3
<1> HIDE DEF n
<1>6. heard[1] = Granted /\ 1 \in 1 .. n /\ n - 3 \in 1 .. n /\ n \in 1 .. n
  BY <1>1 DEF n
<1>7. a[1] = Granted /\ a[n] = LF /\ a[n - 3] = CR /\ Granted # CR /\ Granted # LF /\ Granted # Denied
  <2>1. a[1] = heard[1] /\ a[n] = heard[n] /\ a[n - 3] = heard[n - 3]
    BY <1>4, <1>6
  <2> QED BY <1>5, <1>6, <2>1 DEF Granted, CR, LF, Denied
<1>8. CASE a = Grant
  <2>1. Len(said) <= 5
    BY <1>8, GrantIs DEF Begins
  <2>2. n # 4
    BY <1>7
  <2>0. n \in Nat /\ n >= 4 /\ n <= Len(said)
    BY <1>1 DEF n
  <2>l. Len(said) \in Nat
    OBVIOUS
  <2>3. n = 5 /\ Len(said) = 5
    BY <2>0, <2>1, <2>2, <2>l, FourOrFive
  <2>4. said = Grant
    BY <1>3, <1>8, <2>3, GrantIs, SeqEqual
  <2> QED BY <2>3, <2>4 DEF n
<1>9. CASE a = <<Denied>> \o Terminator
  <2>1. a[1] = Denied
    BY <1>9 DEF Denied, Terminator, CR, LF
  <2> QED BY <1>7, <2>1
<1>10. CASE a = [i \in 1 .. AnswerCapacity + 1 |-> Granted]
  <2>1. n \in 1 .. AnswerCapacity + 1
    <3>1. Len(a) = AnswerCapacity + 1
      BY <1>10, ConnectAssumption
    <3> QED BY <1>4, <1>6, <3>1
  <2> QED BY <1>7, <1>10, <2>1
<1> QED BY <1>8, <1>9, <1>10 DEF Answers, Grant
Agrees(s, n, said) == \A i \in 1 .. n : i <= Len(said) => s[i] = said[i]
LEMMA HeardIsSaid ==
  ASSUME NEW had \in Seq(Int), NEW said \in Seq(Int), NEW pipe \in Seq(Int), NEW given, NEW h, NEW d, NEW t,
         Agrees(had, Len(had), said),
         NEW a \in Nat, Len(had) + a = Len(said), Consists(pipe, said, given, a, h, d, t),
         NEW q \in Nat, q <= Len(pipe)
  PROVE  Agrees(had \o SubSeq(pipe, 1, q), Len(had) + q, said)
<1> DEFINE s == had \o SubSeq(pipe, 1, q)
           l == Len(had)
           m == Len(said)
<1>1. /\ \A i \in 1 .. l : s[i] = had[i]
      /\ \A j \in 1 .. q : s[l + j] = pipe[j]
  BY Peeked
<1>2. \A j \in 1 .. Len(pipe) : pipe[j] = Segment(said, given, a, h, d, j)
  BY DEF Consists
<1>3. l \in Nat /\ m \in Nat /\ l + a = m
  OBVIOUS
<1>4. \A i \in 1 .. l : had[i] = said[i]
  <2> SUFFICES ASSUME NEW i \in 1 .. l PROVE had[i] = said[i]
    OBVIOUS
  <2>1. i <= m
    BY <1>3
  <2> QED BY <2>1 DEF Agrees
<1>5. \A j \in 1 .. Len(pipe) : j <= a => pipe[j] = said[m - a + j]
  BY <1>2 DEF Segment
<1>6. Len(pipe) \in Nat /\ q <= Len(pipe)
  OBVIOUS
<1> HIDE DEF s, l, m
<1>7. ASSUME NEW i \in 1 .. l + q, i <= m PROVE s[i] = said[i]
  <2>1. CASE i <= l
    <3>1. i \in 1 .. l
      BY <1>3, <2>1
    <3> QED BY <1>1, <1>4, <3>1
  <2>2. CASE i > l
    <3> DEFINE j == i - l
    <3>1. j \in 1 .. q /\ l + j = i /\ j <= a /\ m - a + j = i /\ j \in 1 .. Len(pipe)
      BY <1>3, <1>6, <1>7, <2>2
    <3> HIDE DEF j
    <3>2. s[l + j] = pipe[j] /\ pipe[j] = said[m - a + j]
      BY <1>1, <1>5, <3>1
    <3> QED BY <3>1, <3>2
  <2> QED BY <1>3, <2>1, <2>2
<1> QED BY <1>7 DEF s, l, m, Agrees

(* A grant that is seen to its end ends where it does.                     *)
LEMMA GrantEnds ==
  ASSUME NEW seen \in Seq(Int), Len(seen) >= 5, \A i \in 1 .. 5 : seen[i] = Grant[i],
         NEW l \in Nat, l <= 4
  PROVE  5 \in Ended(seen, l)
<1>1. seen[2] = CR /\ seen[2 + 1] = LF /\ seen[2 + 2] = CR /\ seen[2 + 3] = LF /\ 2 + 3 <= Len(seen)
  BY GrantIs
<1>2. SubSeq(seen, 2, 2 + 3) = Terminator /\ 5 - 3 = 2 /\ 2 + 3 = 5
  BY <1>1, Terminated
<1>3. 5 \in SearchStart(l) + 4 .. Len(seen)
  BY DEF SearchStart
<1> QED BY <1>2, <1>3 DEF Ended

LEMMA DialingFlow ==
  ASSUME OwnInv, LinkInv, Traffic, Dialing
  PROVE  /\ Lost("server") \/ Underway("server", 0)
         /\ Listens("server") => Lost("client") \/ Underway("client", 0)
<1>1. PICK p \in 0 .. Len(Script) : Reaches(p) /\ \A e \in Ends : Listens(Peer(e)) => Lost(e) \/ Underway(e, p)
  BY DEF Traffic
<1>2. p = 0 /\ Listens("client")
  BY <1>1 DEF Reaches, Listens
<1> QED BY <1>1, <1>2, TwoEnds

(* What is taken out is part of the answer.                                *)
Heeds(k) ==
  LET heard == conn.answer \o SubSeq(Inbox("client"), 1, k) IN
  /\ k <= Unread("server") /\ heard \in Seq(Int) /\ Len(heard) = Len(conn.answer) + k
  /\ Len(heard) <= Len(net.answer) /\ \A i \in 1 .. Len(heard) : heard[i] = net.answer[i]

LEMMA AnswerHeeds ==
  ASSUME OwnInv, LinkInv, Traffic, Heard, phase["client"] = "connect", conn.pc = "answer",
         NEW q \in Nat, NEW k \in Nat, Hears(q, k)
  PROVE  Heeds(k)
<1> DEFINE had == conn.answer
           said == net.answer
           pipe == net.pipe["server"]
           a == Unread("server")
           seen == had \o SubSeq(pipe, 1, q)
           heard == had \o SubSeq(pipe, 1, k)
<1>1. /\ had \in Seq(Int) /\ said \in Seq(Int) /\ pipe \in Seq(Int)
      /\ Inbox("client") = pipe /\ Dialing
  BY TwoEnds, Connecting DEF NetOK, Connections, Calls, Inbox, Dialing
<1>2. /\ Len(had) <= Len(said) /\ had = SubSeq(said, 1, Len(had))
  BY DEF Heard
<1>3. \A i \in 1 .. Len(had) : had[i] = said[i]
  BY <1>1, <1>2, PrefixOf, SMTT(20)
<1>4. Len(had) + a = Len(said) /\ a \in Nat
  BY <1>1, <1>2 DEF Unread
<1>5. /\ q <= Len(pipe) /\ k <= q /\ \A j \in Ended(seen, Len(had)) : Len(had) + k <= j
  BY <1>1 DEF Hears
<1>l. Len(had) \in Nat /\ Len(said) \in Nat /\ Len(pipe) \in Nat
  BY <1>1
<1>t. had \in Seq(Int) /\ said \in Seq(Int) /\ pipe \in Seq(Int)
  BY <1>1
<1>a. Agrees(had, Len(had), said)
  BY <1>3 DEF Agrees
<1>q. q <= Len(pipe)
  BY <1>5
<1> HIDE DEF had, said, pipe, a
<1>6. heard \in Seq(Int) /\ Len(heard) = Len(had) + k /\ \A i \in 1 .. Len(had) : heard[i] = had[i]
  <2>1. k <= Len(pipe)
    BY <1>5, <1>l
  <2> QED BY <1>1, <2>1, Peeked
<1>s. seen \in Seq(Int) /\ Len(seen) = Len(had) + q
  BY <1>1, <1>5, Peeked
<1> HIDE DEF heard, seen
<1>7. CASE Lost("server")
  <2>1. pipe = <<>>
    BY <1>7 DEF Lost, pipe
  <2>2. k = 0
    BY <1>5, <2>1
  <2>3. k <= a /\ Len(heard) = Len(had) /\ \A i \in 1 .. Len(heard) : heard[i] = said[i]
    BY <1>3, <1>4, <1>6, <1>l, <2>2
  <2> QED BY <1>1, <1>2, <1>6, <2>3 DEF Heeds, had, said, a, heard
<1>8. CASE Underway("server", 0)
  <2> DEFINE h == Untaken("server", 0)
             d == Undelivered("server")
  <2>1. PICK t \in 0 .. 1 : /\ Consists(pipe, said, Len(got), a, h, d, t)
                            /\ t = 1 => net.fin["server"]
    BY <1>8 DEF Underway, pipe, said, a
  <2>2. h \in Nat /\ d \in Nat
    <3>1. 0 \in 0 .. 7 /\ "server" \in Ends
      BY TwoEnds
    <3> QED BY <1>8, <3>1, Bounds DEF Underway
  <2> HIDE DEF h, d
  <2>3. Len(pipe) = a + h + d + t
    BY <2>1 DEF Consists
  <2>4. k <= a
    <3>1. CASE net.host = "server"
      <4>1. said = Grant
        BY <3>1 DEF LinkInv, ProxyOK, said
      <4>2. Len(said) = 5 /\ \A i \in 1 .. 5 : Grant[i] = said[i]
        BY <4>1, GrantIs
      <4>3. Len(had) <= 4
        <5> SUFFICES ASSUME Len(had) = 5 PROVE FALSE
          BY <1>2, <1>l, <4>2
        <5>1. had[2] = CR /\ had[2 + 1] = LF /\ had[2 + 2] = CR /\ had[2 + 3] = LF
          BY <1>3, <4>1, GrantIs
        <5>2. SubSeq(had, 2, 2 + 3) = Terminator
          <6>1. 2 \in Nat \ {0} /\ 2 + 3 <= Len(had)
            BY <4>3
          <6> QED BY <1>t, <5>1, <6>1, Terminated
        <5>3. 2 \in 1 .. Len(had) - 3
          OBVIOUS
        <5> QED BY <5>2, <5>3 DEF OwnInv, ConnectOK, SplitTerminatorFound, had
      <4>4. SUFFICES ASSUME k > a PROVE FALSE
        BY <1>4
      <4>5. Len(seen) >= 5
        BY <1>4, <1>5, <1>l, <1>s, <4>2, <4>4
      <4>6. \A i \in 1 .. Len(had) + q : i <= Len(said) => seen[i] = said[i]
        <5>1. Agrees(had \o SubSeq(pipe, 1, q), Len(had) + q, said)
          BY <1>t, <1>a, <1>4, <1>q, <2>1, HeardIsSaid
        <5> QED BY <5>1 DEF seen, Agrees
      <4>7. \A i \in 1 .. 5 : seen[i] = Grant[i]
        <5>1. 5 <= Len(had) + q
          BY <1>s, <4>5
        <5> QED BY <1>l, <4>2, <4>6, <5>1
      <4>8. 5 \in Ended(seen, Len(had))
        BY <1>l, <1>s, <4>3, <4>5, <4>7, GrantEnds
      <4>9. Len(had) + k <= 5
        BY <1>5, <4>8
      <4> QED BY <1>4, <1>l, <4>2, <4>4, <4>9
    <3>2. CASE net.host # "server"
      <4>1. ~Reached
        BY <3>2 DEF Reached
      <4>2. hs["server"] = 0 /\ Carried = 0
        BY <4>1, NotReached
      <4>3. h = 0
        BY <4>2, TwoEnds DEF h, Untaken, Place, SentBy
      <4>4. d = 0
        <5>1. Len(got) \in Nat
          BY DEF Heard
        <5> QED BY <2>2, <4>2, <5>1 DEF d, Undelivered
      <4>5. t = 0
        BY <2>1, <4>1 DEF LinkInv, LinkOK
      <4> QED BY <1>5, <1>l, <1>4, <2>3, <4>3, <4>4, <4>5
    <3> QED BY <3>1, <3>2
  <2>5. k <= Len(pipe)
    BY <1>5, <1>l
  <2>6. \A i \in 1 .. Len(had) + k : i <= Len(said) => heard[i] = said[i]
    <3>1. Agrees(had \o SubSeq(pipe, 1, k), Len(had) + k, said)
      BY <1>t, <1>a, <1>4, <2>1, <2>5, HeardIsSaid
    <3> QED BY <3>1 DEF heard, Agrees
  <2>7. Len(had) + k <= Len(said)
    BY <1>4, <1>l, <2>4
  <2>8. Len(heard) <= Len(said) /\ \A i \in 1 .. Len(heard) : heard[i] = said[i]
    BY <1>6, <1>l, <2>6, <2>7
  <2> QED BY <1>1, <1>6, <2>4, <2>8 DEF Heeds, had, said, a, heard
<1> QED BY <1>1, <1>7, <1>8, DialingFlow
LEMMA TakenIs ==
  ASSUME Types, NEW e \in Ends, NEW k \in Nat, k <= Len(Inbox(e))
  PROVE  /\ Taken(e, k).pipe[Peer(e)] = SubSeq(net.pipe[Peer(e)], k + 1, Len(net.pipe[Peer(e)]))
         /\ Taken(e, k).pipe[e] = net.pipe[e]
<1>1. Peer(e) \in Ends /\ Peer(e) # e /\ net \in Connections
  BY PeerOK DEF Types, NetOK
<1> DEFINE Q == [net.pipe EXCEPT ![Peer(e)] = SubSeq(net.pipe[Peer(e)], k + 1, Len(net.pipe[Peer(e)]))]
<1>2. Taken(e, k) = [net EXCEPT !.pipe = Q]
  BY <1>1 DEF Taken, Connections
<1>3. Q[Peer(e)] = SubSeq(net.pipe[Peer(e)], k + 1, Len(net.pipe[Peer(e)])) /\ Q[e] = net.pipe[e]
  BY <1>1 DEF Connections
<1> HIDE DEF Q
<1>4. Taken(e, k).pipe = Q
  BY <1>1, <1>2 DEF Connections
<1> QED BY <1>3, <1>4

LEMMA Leaves ==
  \A n, l, k \in Nat : n - (l + k) = (n - l) - k /\ (l + k = n => (n - l) - k = 0)
OBVIOUS

LEMMA AnswerFlow ==
  ASSUME OwnInv, LinkInv, Traffic, Heard, phase["client"] = "connect", writer' = writer, Answer
  PROVE  Traffic' /\ Heard'
<1> DEFINE heard(k) == conn.answer \o SubSeq(Inbox("client"), 1, k)
           pipe == net.pipe["server"]
<1>1. conn.pc = "answer" /\ Unchanged /\ Dialing /\ UNCHANGED <<tls, wnum, sent, got>>
  BY DEF Answer, Unchanged, Dialing
<1>2. /\ conn \in Calls /\ net \in Connections /\ Types /\ "client" \in Ends /\ "server" \in Ends
      /\ sock["client"].sd = NoFd /\ Inbox("client") = pipe /\ pipe \in Seq(Int)
      /\ net.answer \in Seq(Int) /\ Len(Script) = 7 /\ 0 \in 0 .. 7
  BY <1>1, Connecting, ScriptIs, TwoEnds DEF NetOK, OwnInv, Inbox, Connections
<1>3. PICK q, k \in Nat : Hears(q, k)
  BY AnswerHears
<1>4. Heeds(k)
  BY <1>1, <1>3, AnswerHeeds
<1>5. k <= Len(pipe)
  <2>1. Len(pipe) \in Nat /\ q <= Len(pipe) /\ k <= q
    BY <1>2, <1>3 DEF Hears
  <2> QED BY <2>1
<1> DEFINE n == Taken("client", k)
           rest == SubSeq(pipe, k + 1, Len(pipe))
<1>6. /\ Passes(n) /\ n.link = net.link /\ n \in Connections
      /\ n.pipe["client"] = net.pipe["client"] /\ n.pipe["server"] = rest
  BY <1>2, <1>5, TwoEnds, TakenPasses, TakenIs DEF NetOK
<1>7. /\ Untaken("server", 0) \in Int /\ Undelivered("server") \in Nat /\ Unread("server") \in Nat
      /\ Len(got) \in Nat
  BY <1>2, Bounds
<1>8. Lost("server") => rest = <<>>
  BY <1>2, <1>5, Rests DEF Lost
<1>9. Underway("server", 0) =>
        Content(rest, net.answer, Len(got), Unread("server") - k, Untaken("server", 0),
                Undelivered("server"), net.fin["server"], Place("server", 0), wnum["server"])
  <2>1. k <= Unread("server")
    BY <1>4 DEF Heeds
  <2> QED BY <1>2, <1>7, <2>1, UnderwayIs, HearsAnswer
<1>10. /\ Lost("server") \/ Underway("server", 0)
       /\ Listens("server") => Lost("client") \/ Underway("client", 0)
  BY <1>1, DialingFlow
<1>11. /\ k <= Unread("server") /\ heard(k) \in Seq(Int) /\ Len(heard(k)) = Len(conn.answer) + k
       /\ Len(heard(k)) <= Len(net.answer) /\ \A i \in 1 .. Len(heard(k)) : heard(k)[i] = net.answer[i]
       /\ Unread("server") = Len(net.answer) - Len(conn.answer)
       /\ Len(conn.answer) \in Nat /\ Len(net.answer) \in Nat
  <2>1. Unread("server") = Len(net.answer) - Len(conn.answer)
    BY <1>1 DEF Unread
  <2>2. conn.answer \in Seq(Int)
    BY <1>2 DEF Calls
  <2>3. Len(conn.answer) \in Nat /\ Len(net.answer) \in Nat
    BY <1>2, <2>2
  <2>4. /\ k <= Unread("server")
        /\ Len(heard(k)) <= Len(net.answer) /\ \A i \in 1 .. Len(heard(k)) : heard(k)[i] = net.answer[i]
    BY <1>4 DEF Heeds
  <2>5. heard(k) \in Seq(Int) /\ Len(heard(k)) = Len(conn.answer) + k
    BY <1>4 DEF Heeds
  <2> QED BY <2>1, <2>3, <2>4, <2>5
<1>12. \/ Abandon
       \/ /\ conn' = [conn EXCEPT !.answer = heard(k)]
          /\ net' = n /\ UNCHANGED <<sock, open, heap, hs, result>>
       \/ Usable([conn EXCEPT !.answer = <<>>], n) /\ Grants(heard(k))
  BY <1>3 DEF Hears, Grants
<1> HIDE DEF heard, pipe, n, rest
<1>13. CASE Abandon
  BY <1>1, <1>13, AbandonFlow
<1>14. CASE /\ conn' = [conn EXCEPT !.answer = heard(k)]
            /\ net' = n /\ UNCHANGED <<sock, open, heap, hs, result>>
  <2>1. conn'.pc = "answer" /\ conn'.answer = heard(k)
    BY <1>1, <1>2, <1>14 DEF Calls
  <2>2. heard(k) = SubSeq(net.answer, 1, Len(heard(k)))
    BY <1>2, <1>11, SamePrefix
  <2>3. net'.answer = net.answer /\ net'.fin = net.fin /\ net'.host = net.host /\ net'.link = net.link
    BY <1>6, <1>14 DEF Passes
  <2>4. Heard'
    BY <1>1, <1>2, <1>11, <1>14, <2>1, <2>2, <2>3 DEF Heard, Carried
  <2>5. Dialing'
    BY <2>1 DEF Dialing
  <2>6. Unread("server")' = Unread("server") - k
    <3>1. Unread("server")' = Len(net'.answer) - Len(conn'.answer)
      BY <2>1, <2>5 DEF Unread
    <3>2. Len(conn'.answer) = Len(conn.answer) + k /\ Len(net'.answer) = Len(net.answer)
      BY <1>11, <2>1, <2>3
    <3>3. Unread("server") = Len(net.answer) - Len(conn.answer)
      BY <1>11
    <3>4. Len(net.answer) - (Len(conn.answer) + k) = (Len(net.answer) - Len(conn.answer)) - k
      <4>1. Len(conn.answer) \in Nat /\ Len(net.answer) \in Nat /\ k \in Nat
        BY <1>11
      <4> QED BY <4>1, Leaves
    <3> QED BY <3>1, <3>2, <3>3, <3>4
  <2>7. /\ Untaken("server", 0)' = Untaken("server", 0) /\ Place("server", 0)' = Place("server", 0)
        /\ Undelivered("server")' = Undelivered("server")
    BY <1>1, <1>14 DEF Untaken, Place, Undelivered, Carried
  <2>8. (Lost("server") \/ Underway("server", 0))'
    <3>1. CASE Lost("server")
      BY <1>6, <1>8, <1>14, <3>1 DEF Lost
    <3>2. CASE Underway("server", 0)
      <4>1. Content(rest, net.answer, Len(got), Unread("server") - k, Untaken("server", 0),
                    Undelivered("server"), net.fin["server"], Place("server", 0), wnum["server"])
        BY <1>9, <3>2
      <4> QED BY <1>1, <1>6, <1>14, <2>3, <2>6, <2>7, <4>1 DEF Underway, Content
    <3> QED BY <1>10, <3>1, <3>2
  <2>9. Listens("server")' => (Lost("client") \/ Underway("client", 0))'
    <3>1. ASSUME Listens("server")' PROVE (Lost("client") \/ Underway("client", 0))'
      <4>1. Listens("server")
        BY <2>3, <3>1, TwoEnds DEF Listens
      <4>2. Still("client", 0, 0)
        BY <1>1, <1>6, <1>14, <2>3 DEF Still, Unread, Untaken, Place
      <4> QED BY <1>1, <1>10, <2>3, <4>1, <4>2, DirectionStays, TwoEnds
    <3> QED BY <3>1
  <2>10. Reaches(0)'
    BY <1>2, <1>14 DEF Reaches
  <2>11. Traffic'
    <3>1. \A e \in Ends : Listens(Peer(e))' => (Lost(e) \/ Underway(e, 0))'
      BY <2>8, <2>9, TwoEnds
    <3> QED BY <1>2, <2>10, <3>1 DEF Traffic
  <2> QED BY <2>4, <2>11
<1>15. CASE Usable([conn EXCEPT !.answer = <<>>], n) /\ Grants(heard(k))
  <2>1. [conn EXCEPT !.answer = <<>>] \in Calls
    <3>1. <<>> \in Seq(Int)
      OBVIOUS
    <3> QED BY <1>2, <3>1 DEF Calls
  <2>2. PICK a \in Answers : Begins(net.answer, a)
    BY DEF LinkInv, ProxyOK, Begins
  <2>3. net.answer = Grant /\ Len(heard(k)) = 5
    BY <1>2, <1>11, <1>15, <2>2, GrantHeard
  <2>4. Unread("server") - k = 0
    <3>1. Len(net.answer) = 5 /\ Len(conn.answer) + k = 5
      BY <1>11, <2>3, GrantIs
    <3> QED BY <1>11, <3>1, Leaves
  <2>5. \/ n.link = "reset" /\ n.pipe["server"] = <<>>
        \/ Content(n.pipe["server"], net.answer, Len(got), 0, Untaken("server", 0),
                   Undelivered("server"), net.fin["server"], Place("server", 0), wnum["server"])
    <3>1. CASE Lost("server")
      BY <1>6, <1>8, <3>1 DEF Lost
    <3>2. CASE Underway("server", 0)
      BY <1>6, <1>9, <2>4, <3>2
    <3> QED BY <1>10, <3>1, <3>2
  <2> QED BY <1>1, <1>6, <1>15, <2>1, <2>3, <2>5, UsableFlow
<1> QED BY <1>12, <1>13, <1>14, <1>15
-----------------------------------------------------------------------------
(* An exchange of the handshake.                                           *)
LEMMA SaysNothing ==
  ASSUME NEW pipe \in Seq(Int)
  PROVE  pipe \o Hellos(0) = pipe
<1>1. Hellos(0) \in Seq(Int) /\ Len(Hellos(0)) = 0
  BY DEF Hellos, HelloSegment
<1> QED BY <1>1, Joined, SeqEqual

LEMMA ExchangeIs ==
  ASSUME Types, NEW e \in Ends, NEW o, NEW t \in Nat, NEW k \in Nat, Moves(e, o, t, k)
  PROVE  /\ o.net.pipe[Peer(e)] = SubSeq(net.pipe[Peer(e)], t + 1, Len(net.pipe[Peer(e)]))
         /\ ~net.fin[Peer(e)] => o.net.pipe[e] = net.pipe[e] \o Hellos(k) /\ o.net.link = net.link
         /\ o.net.answer = net.answer /\ o.net.fin = net.fin /\ o.net.host = net.host
         /\ net.link = "reset" => o.net.link = "reset"
         /\ o.net \in Connections
<1>1. /\ Peer(e) \in Ends /\ Peer(e) # e /\ net \in Connections
      /\ net.pipe[e] \in Seq(Int) /\ net.pipe[Peer(e)] \in Seq(Int)
  BY PeerOK DEF Types, NetOK, Connections
<1> DEFINE n == Taken(e, t)
           rest == SubSeq(net.pipe[Peer(e)], t + 1, Len(net.pipe[Peer(e)]))
<1>2. /\ t <= Len(Inbox(e))
      /\ o.net = IF k = 0 THEN n ELSE Sent(e, n, Hellos(k))
  BY DEF Moves
<1>3. /\ n.host = net.host /\ n.answer = net.answer /\ n.fin = net.fin /\ n.link = net.link
      /\ n \in Connections /\ n.pipe[Peer(e)] = rest /\ n.pipe[e] = net.pipe[e]
  BY <1>2, TakenPasses, TakenIs DEF Passes, NetOK
<1>4. Hellos(k) \in Seq(Int)
  BY DEF Hellos, HelloSegment
<1> HIDE DEF n, rest
<1>5. CASE k = 0
  <2>1. net.pipe[e] \o Hellos(k) = net.pipe[e]
    BY <1>1, <1>5, SaysNothing
  <2> QED BY <1>2, <1>3, <1>5, <2>1 DEF rest
<1>6. CASE k # 0
  <2>1. o.net = Sent(e, n, Hellos(k))
    BY <1>2, <1>6
  <2>2. CASE net.fin[Peer(e)]
    <3>1. o.net = [n EXCEPT !.link = "reset"]
      BY <1>3, <2>1, <2>2 DEF Sent
    <3> QED BY <1>3, <2>2, <3>1 DEF rest, Connections
  <2>3. CASE ~net.fin[Peer(e)]
    <3> DEFINE Q == [n.pipe EXCEPT ![e] = n.pipe[e] \o Hellos(k)]
    <3>1. o.net = [n EXCEPT !.pipe = Q]
      BY <1>3, <2>1, <2>3 DEF Sent
    <3>2. n.pipe \in [Ends -> Seq(Int)]
      BY <1>3 DEF Connections
    <3>3. Q[e] = net.pipe[e] \o Hellos(k) /\ Q[Peer(e)] = rest
      BY <1>1, <1>3, <3>2
    <3>4. Q \in [Ends -> Seq(Int)]
      BY <1>1, <1>3, <1>4, <3>2, Joined
    <3> HIDE DEF Q
    <3>5. /\ o.net.pipe = Q /\ o.net.link = n.link /\ o.net.answer = n.answer /\ o.net.fin = n.fin
          /\ o.net.host = n.host /\ o.net \in Connections
      BY <1>3, <3>1, <3>4 DEF Connections
    <3> QED BY <1>3, <3>3, <3>5 DEF rest
  <2> QED BY <2>2, <2>3
<1> QED BY <1>5, <1>6
(* An end moves on in the handshake, and may close its descriptor then.    *)
Exchanged(e, o) ==
  /\ UNCHANGED <<tls, writer, wnum, sent, got>> /\ hs' = [hs EXCEPT ![e] = o.hs]
  /\ net'.pipe = o.net.pipe /\ net'.answer = o.net.answer
  /\ net'.host = "proxy" => o.net.host = "proxy"
  /\ \A x \in Ends : o.net.fin[x] => net'.fin[x]
  /\ o.net.link = "reset" => net'.link = "reset"
  /\ sock'["client"].sd # NoFd => sock["client"].sd # NoFd
  /\ IF e = "client" THEN ~Dialing' ELSE conn' = conn

LEMMA Further ==
  ASSUME NEW x \in Int, NEW y \in Int, NEW k \in Nat
  PROVE  (x + k) - y = (x - y) + k /\ y - (x + k) = (y - x) - k
OBVIOUS

LEMMA ExchangeFlow ==
  ASSUME OwnInv, LinkInv, Traffic, Heard, NEW e \in Ends, sock[e].sd # NoFd, tls,
         NEW o \in Handshakes(e), Exchanged(e, o)
  PROVE  Traffic' /\ Heard'
<1> DEFINE r == Peer(e)
<1>1. PICK t, k \in Nat : Moves(e, o, t, k)
  BY HandshakeMoves DEF OwnInv
<1>2. /\ o.net.pipe[r] = SubSeq(net.pipe[r], t + 1, Len(net.pipe[r]))
      /\ ~net.fin[r] => o.net.pipe[e] = net.pipe[e] \o Hellos(k) /\ o.net.link = net.link
      /\ o.net.answer = net.answer /\ o.net.fin = net.fin /\ o.net.host = net.host
      /\ net.link = "reset" => o.net.link = "reset"
  BY <1>1, ExchangeIs DEF OwnInv
<1>3. /\ t <= Len(net.pipe[r]) /\ (net.fin[r] \/ k <= Room(e))
      /\ o.hs \in 0 .. 7 /\ o.hs = hs[e] + t + k
      /\ SentBy(e, o.hs) = SentBy(e, hs[e]) + k
      /\ SentBy(r, o.hs) = SentBy(r, hs[e]) + t
      /\ SentBy(r, hs[e]) + t <= SentBy(r, 7)
      /\ k > 0 => hs[e] < 7
  BY <1>1 DEF Moves, Inbox
<1>4. /\ r \in Ends /\ r # e /\ Peer(r) = e /\ hs \in [Ends -> 0 .. 7] /\ Len(Script) = 7 /\ ~net.fin[e]
      /\ e \in {"client", "server"} /\ (e = "client" => r = "server") /\ (e = "server" => r = "client")
  BY PeerOK, TwoEnds, ScriptIs DEF OwnInv, Types, LinkInv, LinkOK
<1>5. PICK p \in 0 .. 7 : Reaches(p) /\ \A x \in Ends : Listens(Peer(x)) => Lost(x) \/ Underway(x, p)
  BY <1>4 DEF Traffic
<1> DEFINE p2 == IF e = "client" THEN o.hs ELSE p
<1>6. Place(e, p) = hs[e] /\ Place(e, p2)' = o.hs /\ Place(r, p2)' = Place(r, p)
  <2>1. hs'[e] = o.hs /\ hs'[r] = hs[r]
    BY <1>4 DEF Exchanged
  <2> QED BY <1>4, <1>5, <2>1 DEF Place, Reaches
<1>7. Unread(r) = 0 /\ Unread(r)' = 0 /\ Unread(e)' = Unread(e) /\ Unread(e) \in Nat
  <2>1. CASE e = "client"
    <3>1. ~Dialing /\ ~Dialing'
      BY <2>1, DialingHasNone DEF Exchanged
    <3> QED BY <3>1 DEF Unread
  <2>2. CASE e = "server"
    <3>1. Unread("client") = 0 /\ Unread("client")' = 0
      BY DEF Unread
    <3>2. conn' = conn /\ net'.answer = net.answer
      BY <1>2, <2>2 DEF Exchanged
    <3>3. Unread("server")' = Unread("server")
      BY <3>2 DEF Unread, Dialing
    <3> QED BY <1>4, <1>5, <2>2, <3>1, <3>3, Bounds
  <2> QED BY <1>4, <2>1, <2>2
<1>8. /\ net'.pipe = o.net.pipe /\ net'.answer = net.answer /\ tls' = tls /\ wnum' = wnum /\ got' = got
      /\ (net.fin[e] => net'.fin[e]) /\ (net.fin[r] => net'.fin[r])
      /\ (net.link = "reset" => net'.link = "reset")
      /\ Undelivered(e)' = Undelivered(e) /\ Undelivered(r)' = Undelivered(r)
  BY <1>2, <1>4 DEF Exchanged, Undelivered, Carried
<1>9. /\ Listens("client")' => Listens("client")
      /\ Listens("server")' => Listens("server")
  BY <1>2, <1>4 DEF Exchanged, Listens, Dialing
<1>10. /\ Untaken(e, p) \in Int /\ Untaken(r, p) \in Int /\ Undelivered(e) \in Nat /\ Undelivered(r) \in Nat
       /\ Len(got) \in Nat /\ net.pipe[e] \in Seq(Int) /\ net.pipe[r] \in Seq(Int)
       /\ Place(r, p) \in 0 .. 7 /\ p2 \in 0 .. 7
  BY <1>3, <1>4, Bounds
<1>11. Untaken(e, p2)' = Untaken(e, p) + k /\ Untaken(r, p2)' = Untaken(r, p) - t
  <2>1. /\ Untaken(e, p2)' = SentBy(e, o.hs) - SentBy(e, Place(r, p))
        /\ Untaken(r, p2)' = SentBy(r, Place(r, p)) - SentBy(r, o.hs)
    BY <1>4, <1>6 DEF Untaken
  <2>2. /\ Untaken(e, p) = SentBy(e, hs[e]) - SentBy(e, Place(r, p))
        /\ Untaken(r, p) = SentBy(r, Place(r, p)) - SentBy(r, hs[e])
    BY <1>4, <1>6 DEF Untaken
  <2>3. /\ SentBy(e, hs[e]) \in Int /\ SentBy(e, Place(r, p)) \in Int
        /\ SentBy(r, hs[e]) \in Int /\ SentBy(r, Place(r, p)) \in Int
    <3>1. hs[e] \in 0 .. 7 /\ Place(r, p) \in 0 .. 7 /\ r \in Ends
      BY <1>4, <1>10
    <3>2. \A x \in Ends, i \in 0 .. 7 : SentBy(x, i) \in Int
      BY SentByOK
    <3> QED BY <3>1, <3>2
  <2> QED BY <1>3, <2>1, <2>2, <2>3, Further, SMTT(20)
<1> HIDE DEF r, p2
<1>12. Listens(r)' => (Lost(e) \/ Underway(e, p2))'
  <2> SUFFICES ASSUME Listens(r)' PROVE (Lost(e) \/ Underway(e, p2))'
    OBVIOUS
  <2>1. Listens(r)
    BY <1>4, <1>9
  <2>2. ~net.fin[r] /\ net'.pipe[e] = net.pipe[e] \o Hellos(k)
    BY <1>2, <1>4, <1>8, <2>1, ListensOpen
  <2>3. CASE Lost(e)
    <3>1. k = 0
      BY <1>3, <2>2, <2>3 DEF Lost, Room
    <3>2. net'.pipe[e] = <<>>
      BY <1>10, <2>2, <2>3, <3>1, SaysNothing DEF Lost
    <3> QED BY <1>8, <2>3, <3>2 DEF Lost
  <2>4. CASE Underway(e, p)
    <3>1. Content(net.pipe[e], net.answer, Len(got), Unread(e), Untaken(e, p), Undelivered(e),
                  net.fin[e], hs[e], wnum[e])
      BY <1>6, <2>4, UnderwayIs
    <3>2. Content(net.pipe[e] \o Hellos(k), net.answer, Len(got), Unread(e), Untaken(e, p) + k,
                  Undelivered(e), net.fin[e], o.hs, wnum[e])
      <4>1. CASE hs[e] # 7
        BY <1>4, <1>7, <1>10, <3>1, <4>1, SaysHellos
      <4>2. CASE hs[e] = 7
        <5>1. k = 0 /\ o.hs = hs[e]
          BY <1>3, <4>2
        <5>2. net.pipe[e] \o Hellos(k) = net.pipe[e]
          BY <1>10, <5>1, SaysNothing
        <5>3. Untaken(e, p) + k = Untaken(e, p)
          BY <1>10, <5>1
        <5> QED BY <3>1, <5>1, <5>2, <5>3
      <4> QED BY <4>1, <4>2
    <3>3. Content(net.pipe[e], net.answer, Len(got), Unread(e), Untaken(e, p2), Undelivered(e),
                  net.fin[e], Place(e, p2), wnum[e])'
      <4>1. Content(net.pipe[e] \o Hellos(k), net.answer, Len(got), Unread(e), Untaken(e, p) + k,
                    Undelivered(e), net'.fin[e], o.hs, wnum[e])
        BY <1>8, <3>2, ContentGrows
      <4> QED BY <1>6, <1>7, <1>8, <1>11, <2>2, <4>1 DEF Content
    <3> QED BY <3>3 DEF Underway, Content
  <2> QED BY <1>4, <1>5, <2>1, <2>3, <2>4 DEF r
<1>13. Listens(e)' => (Lost(r) \/ Underway(r, p2))'
  <2> SUFFICES ASSUME Listens(e)' PROVE (Lost(r) \/ Underway(r, p2))'
    OBVIOUS
  <2>1. Listens(e)
    BY <1>4, <1>9
  <2> DEFINE rest == SubSeq(net.pipe[r], t + 1, Len(net.pipe[r]))
  <2>2. net'.pipe[r] = rest
    BY <1>2, <1>8 DEF r
  <2>3. CASE Lost(r)
    <3>1. t = 0 /\ rest = <<>>
      BY <1>3, <1>10, <2>3, Rests DEF Lost, r
    <3> QED BY <1>8, <2>2, <2>3, <3>1 DEF Lost
  <2>4. CASE Underway(r, p)
    <3>1. Content(net.pipe[r], net.answer, Len(got), 0, Untaken(r, p), Undelivered(r),
                  net.fin[r], Place(r, p), wnum[r])
      BY <1>7, <2>4, UnderwayIs
    <3>2. Place(r, p) = Len(Script) => t <= Untaken(r, p)
      <4>1. Untaken(r, p) = SentBy(r, Place(r, p)) - SentBy(r, hs[e])
        BY <1>4, <1>6 DEF Untaken
      <4>2. SentBy(r, hs[e]) \in Int /\ SentBy(r, 7) \in Int
        BY <1>4, SentByOK
      <4> QED BY <1>3, <1>4, <4>1, <4>2 DEF r
    <3>3. Content(rest, net.answer, Len(got), 0, Untaken(r, p) - t, Undelivered(r),
                  net.fin[r], Place(r, p), wnum[r])
      BY <1>3, <1>10, <3>1, <3>2, HearsHellos DEF r
    <3>4. Content(rest, net.answer, Len(got), 0, Untaken(r, p) - t, Undelivered(r),
                  net'.fin[r], Place(r, p), wnum[r])
      BY <1>8, <3>3, ContentGrows
    <3>5. Content(net.pipe[r], net.answer, Len(got), Unread(r), Untaken(r, p2), Undelivered(r),
                  net.fin[r], Place(r, p2), wnum[r])'
      BY <1>6, <1>7, <1>8, <1>11, <2>2, <3>4 DEF Content
    <3> QED BY <3>5 DEF Underway, Content
  <2> QED BY <1>4, <1>5, <2>1, <2>3, <2>4 DEF r
<1>14. Reaches(p2)'
  <2>1. tls' /\ (sock'["client"].sd # NoFd => sock["client"].sd # NoFd)
    BY <1>8 DEF Exchanged
  <2>2. CASE e = "client"
    <3>1. p2 = o.hs /\ hs'["client"] = o.hs /\ ~Dialing'
      BY <1>4, <2>2 DEF p2, Exchanged
    <3> QED BY <2>1, <3>1 DEF Reaches
  <2>3. CASE e = "server"
    <3>1. p2 = p /\ hs'["client"] = hs["client"] /\ Dialing' = Dialing
      BY <1>4, <2>3 DEF p2, Exchanged, Dialing
    <3> QED BY <1>5, <2>1, <3>1 DEF Reaches
  <2> QED BY <1>4, <2>2, <2>3
<1>15. Traffic'
  <2>1. \A x \in Ends : Listens(Peer(x))' => (Lost(x) \/ Underway(x, p2))'
    BY <1>4, <1>12, <1>13, TwoEnds
  <2> QED BY <1>4, <1>10, <1>14, <2>1 DEF Traffic
<1>16. Heard'
  <2>1. conn'.pc = "answer" => conn.pc = "answer" /\ conn'.answer = conn.answer
    BY <1>4 DEF Exchanged, Dialing
  <2>2. sock'["client"].sd # NoFd /\ net'.host = "proxy" => sock["client"].sd # NoFd /\ net.host = "proxy"
    BY <1>2 DEF Exchanged
  <2>3. UNCHANGED <<sent, got, writer, wnum>>
    BY DEF Exchanged
  <2> QED BY <1>8, <2>1, <2>2, <2>3, HeardStays, DialingHasNone
<1> QED BY <1>15, <1>16
LEMMA KeepsDescriptor ==
  ASSUME Types, NEW e \in Ends,
         \/ sock' = sock
         \/ \E x : sock' = [sock EXCEPT ![e].io_want = x]
         \/ \E x, y : sock' = [sock EXCEPT ![e].handshake_done = x, ![e].io_want = y]
  PROVE  \A f \in Ends : sock'[f].sd = sock[f].sd
<1>1. sock \in [Ends -> Sockets] /\ sock[e] \in Sockets
  BY DEF Types
<1>2. ASSUME NEW s, sock' = [sock EXCEPT ![e] = s], s.sd = sock[e].sd
      PROVE  \A f \in Ends : sock'[f].sd = sock[f].sd
  BY <1>1, <1>2
<1>3. CASE \E x : sock' = [sock EXCEPT ![e].io_want = x]
  <2>1. PICK x : sock' = [sock EXCEPT ![e].io_want = x]
    BY <1>3
  <2> DEFINE s == [sock[e] EXCEPT !.io_want = x]
  <2>2. sock' = [sock EXCEPT ![e] = s] /\ s.sd = sock[e].sd
    BY <1>1, <2>1 DEF Sockets
  <2> HIDE DEF s
  <2> QED BY <1>2, <2>2
<1>4. CASE \E x, y : sock' = [sock EXCEPT ![e].handshake_done = x, ![e].io_want = y]
  <2>1. PICK x, y : sock' = [sock EXCEPT ![e].handshake_done = x, ![e].io_want = y]
    BY <1>4
  <2> DEFINE s == [sock[e] EXCEPT !.handshake_done = x, !.io_want = y]
  <2>2. sock' = [sock EXCEPT ![e] = s] /\ s.sd = sock[e].sd
    BY <1>1, <2>1 DEF Sockets
  <2> HIDE DEF s
  <2> QED BY <1>2, <2>2
<1> QED BY <1>3, <1>4

LEMMA HandshakeFlow ==
  ASSUME OwnInv, LinkInv, Traffic, Heard, NEW e \in Ends, Handshake(e)
  PROVE  Traffic' /\ Heard'
<1>1. /\ phase[e] = "handshake" /\ HandshakeNb(e)
      /\ UNCHANGED <<tls, conn, writer, wnum, sent, got>>
  BY DEF Handshake, At, HandshakeNb, Quiet, connectVars, Then
<1>2. sock[e].sd # NoFd /\ Types /\ Dialing' = Dialing /\ (e = "client" => ~Dialing)
  BY <1>1, TwoEnds, DialingHasNone DEF OwnInv, Ownership, ClientOwns, ServerOwns, Dialing
<1>3. CASE /\ ~tls \/ sock[e].handshake_done
           /\ sock' = [sock EXCEPT ![e].handshake_done = TRUE, ![e].io_want = "none"]
           /\ Return(e, "ok") /\ UNCHANGED <<hs, net>>
  <2>1. sock'["client"].sd = sock["client"].sd
    BY <1>2, <1>3, KeepsDescriptor, TwoEnds
  <2> QED BY <1>1, <1>2, <1>3, <2>1, FlowStays
<1>4. CASE /\ tls /\ ~sock[e].handshake_done
           /\ \E o \in Handshakes(e) :
                /\ hs' = [hs EXCEPT ![e] = o.hs] /\ net' = o.net
                /\ CASE o.out = "done" ->
                          /\ sock' = [sock EXCEPT ![e].handshake_done = TRUE, ![e].io_want = "none"]
                          /\ Return(e, "ok")
                     [] o.out = "fail" -> Return(e, "error") /\ UNCHANGED sock
                     [] OTHER -> TryAgain(e, o.out)
  <2>1. PICK o \in Handshakes(e) :
          /\ hs' = [hs EXCEPT ![e] = o.hs] /\ net' = o.net
          /\ \/ sock' = [sock EXCEPT ![e].handshake_done = TRUE, ![e].io_want = "none"]
             \/ sock' = sock
             \/ TryAgain(e, o.out)
    BY <1>4
  <2>2. sock'["client"].sd = sock["client"].sd
    BY <1>2, <2>1, KeepsDescriptor, TwoEnds DEF TryAgain
  <2>3. Exchanged(e, o)
    BY <1>1, <1>2, <2>1, <2>2, TwoEnds DEF Exchanged
  <2> QED BY <1>2, <1>4, <2>3, ExchangeFlow
<1> QED BY <1>1, <1>3, <1>4 DEF HandshakeNb

LEMMA SslConnectFlow ==
  ASSUME OwnInv, LinkInv, Traffic, Heard, phase["client"] = "connect", writer' = writer, SslConnect
  PROVE  Traffic' /\ Heard'
<1> DEFINE c == sock["client"]
<1>1. /\ conn.pc = "tls" /\ Unchanged /\ ~Dialing
      /\ UNCHANGED <<tls, wnum, sent, got>>
  BY DEF SslConnect, Unchanged, Dialing
<1>2. /\ conn \in Calls /\ net \in Connections /\ c \in Sockets /\ sock \in [Ends -> Sockets]
      /\ Types /\ tls /\ c.sd # NoFd /\ hs \in [Ends -> 0 .. Len(Script)]
  BY <1>1, Connecting DEF OwnInv, Ownership, ClientOwns, NetOK
<1>3. net.fin["server"] => Reached
  BY <1>2, TwoEnds, Actor DEF LinkInv
<1>4. PICK o \in Handshakes("client") :
        /\ hs' = [hs EXCEPT !["client"] = o.hs]
        /\ \/ /\ o.out = "done" /\ conn' = [conn EXCEPT !.pc = "none", !.modes.sndtimeo = FALSE]
              /\ Return("client", "ok") /\ net' = o.net /\ UNCHANGED <<sock, heap, open>>
           \/ net' = o.net /\ UNCHANGED <<sock, heap, open, conn, result>>
           \/ HandshakeFailed /\ net' = Cut(o.net)
  BY DEF SslConnect, Unchanged
<1>5. Passes(o.net) /\ o.net \in Connections
  BY <1>2, <1>3, TwoEnds, HandshakesPass, HandshakeOKs DEF NetOK
<1>6. CASE /\ o.out = "done" /\ conn' = [conn EXCEPT !.pc = "none", !.modes.sndtimeo = FALSE]
           /\ Return("client", "ok") /\ net' = o.net /\ UNCHANGED <<sock, heap, open>>
  <2>1. conn'.pc = "none"
    BY <1>2, <1>6 DEF Calls
  <2>2. ~Dialing'
    BY <2>1 DEF Dialing
  <2>3. Exchanged("client", o)
    BY <1>1, <1>4, <1>6, <2>2, TwoEnds DEF Exchanged
  <2> QED BY <1>2, <2>3, ExchangeFlow, TwoEnds
<1>7. CASE net' = o.net /\ UNCHANGED <<sock, heap, open, conn, result>>
  <2>1. ~Dialing'
    BY <1>1, <1>7 DEF Dialing
  <2>2. Exchanged("client", o)
    BY <1>1, <1>4, <1>7, <2>1, TwoEnds DEF Exchanged
  <2> QED BY <1>2, <2>2, ExchangeFlow, TwoEnds
<1>8. CASE HandshakeFailed /\ net' = Cut(o.net)
  <2> DEFINE s == [c EXCEPT !.sd = NoFd, !.ssl = FALSE]
  <2>1. sock' = [sock EXCEPT !["client"] = s] /\ s.sd = NoFd /\ conn' = NextAddress
    BY <1>2, <1>8 DEF HandshakeFailed, Sockets
  <2> HIDE DEF s
  <2>2. sock'["client"].sd = NoFd
    BY <1>2, <2>1, TwoEnds
  <2>3. conn'.pc = "next"
    BY <1>2, <2>1 DEF NextAddress, Calls
  <2>4. ~Dialing'
    BY <2>3 DEF Dialing
  <2>5. CASE Reached
    <3>1. net' = Hangup("client", o.net)
      BY <1>5, <1>8, <2>5 DEF Cut, Reached, Passes
    <3>2. HungUp("client", o.net, net')
      BY <1>5, <3>1, HangsUp, TwoEnds
    <3>3. Exchanged("client", o)
      BY <1>1, <1>4, <2>2, <2>4, <3>2, TwoEnds DEF Exchanged, HungUp
    <3> QED BY <1>2, <3>3, ExchangeFlow, TwoEnds
  <2>6. CASE ~Reached
    <3>1. net' = NoConnection
      BY <1>5, <1>8, <2>6 DEF Cut, Reached, Passes
    <3>2. (\A x \in Ends : net'.pipe[x] = <<>>) /\ net'.answer = <<>>
      BY <3>1 DEF NoConnection
    <3>3. hs["server"] = 0 /\ Carried = 0
      BY <2>6, NotReached
    <3>4. hs'["server"] = 0
      BY <1>2, <1>4, <3>3, TwoEnds
    <3> QED BY <1>1, <2>2, <2>3, <3>2, <3>3, <3>4, SilenceFlow
  <2> QED BY <2>5, <2>6
<1> QED BY <1>4, <1>6, <1>7, <1>8

LEMMA ConnectCallFlow == ASSUME OwnInv, LinkInv, Traffic, Heard, ConnectCall PROVE Traffic' /\ Heard'
<1>1. phase["client"] = "connect" /\ Connect /\ writer' = writer
  BY DEF ConnectCall, Then
<1>2. CASE TimedOut
  <2>1. conn.pc \in {"connecting", "answer"} /\ Abandon /\ Unchanged
    BY <1>2 DEF TimedOut, Polling, Unchanged
  <2> QED BY <1>1, <2>1, AbandonFlow
<1>3. CASE ConnectBegin \/ Exhausted
  BY <1>1, <1>3, BeginsFlow
<1>4. CASE Candidate
  BY <1>1, <1>4, CandidateFlow
<1>5. CASE Connected
  BY <1>1, <1>5, ConnectedFlow
<1>6. CASE Answer
  BY <1>1, <1>6, AnswerFlow
<1>7. CASE SslConnect
  BY <1>1, <1>7, SslConnectFlow
<1> QED BY <1>1, <1>2, <1>3, <1>4, <1>5, <1>6, <1>7 DEF Connect

LEMMA BeginFlow == ASSUME OwnInv, LinkInv, Traffic, Heard, Begin PROVE Traffic' /\ Heard'
<1>1. /\ phase["client"] = "begin" /\ conn.pc = "none" /\ conn' = conn /\ writer' = writer
      /\ UNCHANGED <<tls, hs, wnum, sent, got>>
      /\ sock \in [Ends -> Sockets] /\ net \in Connections
  BY TwoEnds DEF Begin, At, ConnectNbRefused, ConnectNbBegin, Quiet, connectVars, OwnInv, Ownership,
                 ClientOwns, Types, NetOK, Then
<1>2. net = NoConnection /\ hs["client"] = 0
  BY <1>1, TwoEnds DEF LinkInv, LinkOK, Fresh, EndOK
<1>3. hs["server"] = 0 /\ Carried = 0
  <2>1. ~Reached
    BY <1>2 DEF Reached, NoConnection
  <2> QED BY <1>1, <2>1, NotReached
<1>4. \/ UNCHANGED <<sock, net>>
      \/ \E l, b : net' = [net EXCEPT !.link = l, !.host = "server", !.backlog = b]
  <2>1. CASE proxied
    BY <2>1 DEF Begin, ConnectNbRefused
  <2>2. CASE ~proxied
    BY <2>2 DEF Begin, ConnectNbBegin
  <2> QED BY <2>1, <2>2
<1>5. CASE UNCHANGED <<sock, net>>
  <2>1. Dialing' = Dialing
    BY <1>1 DEF Dialing
  <2> QED BY <1>1, <1>5, <2>1, FlowStays
<1>6. CASE \E l, b : net' = [net EXCEPT !.link = l, !.host = "server", !.backlog = b]
  <2>1. net'.pipe = net.pipe /\ net'.answer = net.answer /\ net'.host = "server"
    BY <1>1, <1>6 DEF Connections
  <2>2. (\A e \in Ends : net'.pipe[e] = <<>>) /\ net'.answer = <<>>
    BY <1>2, <2>1 DEF NoConnection
  <2> QED BY <1>1, <1>2, <1>3, <2>1, <2>2, SilenceFlow
<1> QED BY <1>4, <1>5, <1>6
LEMMA AcceptFlow == ASSUME OwnInv, LinkInv, Traffic, Heard, AcceptCall PROVE Traffic' /\ Heard'
<1>1. /\ net \in Connections /\ sock \in [Ends -> Sockets] /\ conn' = conn /\ writer' = writer
      /\ UNCHANGED <<tls, wnum, sent, got>>
  BY DEF AcceptCall, Accept, SslAccept, SocketAcceptNb, Quiet, connectVars, OwnInv, Types, NetOK, Then
<1>2. PICK r, s : AcceptMoves(r, s)
  BY AcceptCallMoves
<1>3. sock' = [sock EXCEPT !["server"] = s]
  BY <1>2 DEF AcceptMoves
<1>4. sock'["client"].sd = sock["client"].sd /\ Dialing' = Dialing
  BY <1>1, <1>3, TwoEnds DEF Dialing
<1>5. /\ Unclaimed \in Connections /\ Unclaimed.host = net.host /\ Unclaimed.answer = net.answer
      /\ Unclaimed.link = net.link /\ Unclaimed.fin = net.fin /\ Unclaimed.pipe = net.pipe
  BY <1>1 DEF Unclaimed, Connections
<1>6. CASE AcceptsNothing(r, s)
  BY <1>1, <1>4, <1>6, FlowStays DEF AcceptsNothing
<1>7. CASE AcceptsInVain(r, s)
  <2>1. HungUp("server", Unclaimed, net') /\ hs' = hs
    BY <1>5, <1>7, HangsUp, TwoEnds DEF AcceptsInVain
  <2>2. /\ net'.pipe = net.pipe /\ net'.answer = net.answer /\ net'.host = net.host
        /\ \A e \in Ends : net.fin[e] => net'.fin[e]
        /\ net.link = "reset" => net'.link = "reset"
    BY <1>5, <2>1, TwoEnds DEF HungUp
  <2> QED BY <1>1, <1>4, <2>1, <2>2, FlowStays
<1>8. CASE AcceptsOne(r, s)
  BY <1>1, <1>4, <1>5, <1>8, FlowStays DEF AcceptsOne
<1>9. ASSUME NEW o \in Handshakes("server"), AcceptsOn(r, s, o) PROVE Traffic' /\ Heard'
  <2>1. /\ tls /\ sock["server"].sd # NoFd /\ hs' = [hs EXCEPT !["server"] = o.hs]
        /\ net' = o.net \/ net' = Hangup("server", o.net)
    BY <1>9 DEF AcceptsOn
  <2>2. o.net \in Connections
    BY TwoEnds, HandshakeOKs DEF NetOK, OwnInv
  <2>3. /\ net'.pipe = o.net.pipe /\ net'.answer = o.net.answer /\ net'.host = o.net.host
        /\ \A e \in Ends : o.net.fin[e] => net'.fin[e]
        /\ o.net.link = "reset" => net'.link = "reset"
    <3>1. CASE net' = Hangup("server", o.net)
      <4>1. HungUp("server", o.net, net')
        BY <2>2, <3>1, HangsUp, TwoEnds
      <4> QED BY <4>1, TwoEnds DEF HungUp
    <3> QED BY <2>1, <3>1
  <2>4. Exchanged("server", o)
    BY <1>1, <1>4, <2>1, <2>3, TwoEnds DEF Exchanged
  <2> QED BY <2>1, <2>4, TwoEnds, ExchangeFlow
<1> QED BY <1>2, <1>6, <1>7, <1>8, <1>9 DEF AcceptMoves
-----------------------------------------------------------------------------
(* A write: the next j bytes of the message are sent, w of them or of      *)
(* earlier ones are not reported yet.                                      *)
Bytes(c, j) == [i \in 1 .. j |-> c + i]
Says(e, j, w) ==
  /\ net' = IF j = 0 THEN net ELSE Sent(e, net, Bytes(Carried, j))
  /\ net.fin[Peer(e)] \/ j <= Room(e)
  /\ wnum' = [wnum EXCEPT ![e] = w] /\ sent' + w = Carried + j

LEMMA BytesOf ==
  ASSUME NEW data \in Seq(Int), NEW c \in Int, NEW n \in Nat, n <= Len(data),
         \A i \in 1 .. n : data[i] = c + i
  PROVE  SubSeq(data, 1, n) = Bytes(c, n)
<1>1. SubSeq(data, 1, n) \in Seq(Int) /\ Len(SubSeq(data, 1, n)) = n
      /\ \A i \in 1 .. n : SubSeq(data, 1, n)[i] = data[i]
  OBVIOUS
<1>2. Bytes(c, n) \in Seq(Int) /\ Len(Bytes(c, n)) = n /\ \A i \in 1 .. n : Bytes(c, n)[i] = c + i
  BY DEF Bytes
<1> QED BY <1>1, <1>2, SeqEqual

(* What one send() does with what is left of the message.                  *)
Counts(data, c) == \A i \in 1 .. Len(data) : data[i] = c + i
LEMMA RestBytes ==
  ASSUME OwnInv, NEW e \in Ends, e = writer
  PROVE  LET data == SubSeq(Rest, wnum[e] + 1, Len(Rest)) IN
         /\ data \in Seq(Int) /\ Len(data) = Len(Rest) - wnum[e] /\ Len(data) \in Nat
         /\ Counts(data, Carried)
         /\ Rest \in Seq(Int) /\ Len(Rest) \in Nat /\ wnum[e] \in 0 .. Len(Rest)
         /\ sent \in Nat /\ Carried = sent + wnum[e] /\ Carried \in Nat
<1> DEFINE data == SubSeq(Rest, wnum[e] + 1, Len(Rest))
<1>1. /\ Rest \in Seq(Int) /\ Len(Rest) = MessageLen - sent /\ wnum[e] \in 0 .. Len(Rest)
      /\ sent \in Nat /\ Carried = sent + wnum[e] /\ Len(Rest) \in Nat /\ Carried \in Nat
  BY RestOK, SocketAssumption, SMTT(20) DEF OwnInv, Types, WriteOK, Carried
<1>2. /\ data \in Seq(Int) /\ Len(data) = Len(Rest) - wnum[e]
      /\ \A i \in 1 .. Len(Rest) - wnum[e] : data[i] = Rest[wnum[e] + i]
  <2>1. wnum[e] \in Nat /\ wnum[e] <= Len(Rest) /\ Rest \in Seq(Int)
    BY <1>1
  <2> QED BY <2>1, Rests
<1> HIDE DEF data
<1>3. \A i \in 1 .. Len(data) : data[i] = Carried + i
  <2>1. \A i \in 1 .. Len(Rest) : Rest[i] = sent + i
    BY <1>1 DEF Rest
  <2>2. Len(Rest) \in Nat /\ wnum[e] \in Nat /\ wnum[e] <= Len(Rest) /\ sent \in Nat
    BY <1>1
  <2>3. ASSUME NEW i \in 1 .. Len(data) PROVE data[i] = Carried + i
    <3>1. i \in 1 .. Len(Rest) - wnum[e] /\ i \in Nat
      BY <1>2, <2>2, <2>3
    <3>2. wnum[e] + i \in 1 .. Len(Rest)
      BY <2>2, <3>1
    <3>3. data[i] = sent + (wnum[e] + i)
      BY <1>2, <2>1, <3>1, <3>2
    <3> QED BY <1>1, <2>2, <3>1, <3>3
  <2> QED BY <2>3
<1>4. Len(data) \in Nat
  BY <1>2
<1>5. Counts(data, Carried)
  BY <1>3 DEF Counts
<1> QED BY <1>1, <1>2, <1>4, <1>5 DEF data

LEMMA SendsBytes ==
  ASSUME Types, NEW e \in Ends, NEW data \in Seq(Int), NEW c \in Nat, Counts(data, c),
         NEW s \in Sends(e, data)
  PROVE  /\ s.n \in 0 .. Len(data)
         /\ s.net = IF s.n = 0 THEN net ELSE Sent(e, net, Bytes(c, s.n))
         /\ net.fin[Peer(e)] \/ s.n <= Room(e)
         /\ s.out = "error" => s.n = 0
         /\ s.out \in {"error", "again", "sent"}
<1> DEFINE k == IF net.fin[Peer(e)] THEN Len(data) ELSE Min({Len(data), Room(e)})
<1>1. Room(e) \in Nat /\ Len(data) \in Nat
  BY RoomOK, SocketAssumption
<1>2. k \in 0 .. Len(data) /\ (net.fin[Peer(e)] \/ k <= Room(e))
  BY <1>1, MinOfTwo
<1>3. s = IF Dead THEN [out |-> "error", n |-> 0, net |-> net]
          ELSE IF k = 0 THEN [out |-> "again", n |-> 0, net |-> net]
          ELSE [out |-> "sent", n |-> k, net |-> Sent(e, net, SubSeq(data, 1, k))]
  BY DEF Sends
<1> HIDE DEF k
<1>4. SubSeq(data, 1, k) = Bytes(c, k)
  <2>1. c \in Int /\ k \in Nat /\ k <= Len(data) /\ \A i \in 1 .. k : data[i] = c + i
    BY <1>1, <1>2 DEF Counts
  <2> QED BY <2>1, BytesOf
<1>5. CASE s.out = "sent"
  <2>1. s.n = k /\ k # 0 /\ s.net = Sent(e, net, Bytes(c, k))
    BY <1>3, <1>4, <1>5
  <2> QED BY <1>1, <1>2, <1>5, <2>1
<1>6. CASE s.out # "sent"
  <2>1. s.n = 0 /\ s.net = net /\ s.out \in {"error", "again"}
    BY <1>3, <1>6
  <2> QED BY <1>1, <1>2, <2>1
<1> QED BY <1>5, <1>6
LEMMA WriteSays ==
  ASSUME OwnInv, NEW e \in Ends, WriteCall(e)
  PROVE  \E j, w \in Nat : Says(e, j, w)
<1> DEFINE data == SubSeq(Rest, wnum[e] + 1, Len(Rest))
<1>1. e = writer /\ Types /\ WriteOK /\ wnum = [wnum EXCEPT ![e] = wnum[e]]
  BY DEF WriteCall, OwnInv, Types
<1>2. /\ data \in Seq(Int) /\ Len(data) = Len(Rest) - wnum[e] /\ Len(data) \in Nat
      /\ Counts(data, Carried)
      /\ Rest \in Seq(Int) /\ Len(Rest) \in Nat /\ wnum[e] \in 0 .. Len(Rest)
      /\ sent \in Nat /\ Carried = sent + wnum[e] /\ Carried \in Nat
  BY <1>1, RestBytes
<1>3. ~tls /\ ~Blocking(e) => wnum[e] = 0
  BY <1>1 DEF WriteOK
<1>4. ~tls /\ ~Blocking(e) => data = Rest
  BY <1>2, <1>3, SeqEqual
<1> HIDE DEF data
<1>5. ASSUME NEW s \in Sends(e, data)
      PROVE  /\ s.n \in 0 .. Len(data)
             /\ s.net = IF s.n = 0 THEN net ELSE Sent(e, net, Bytes(Carried, s.n))
             /\ net.fin[Peer(e)] \/ s.n <= Room(e)
             /\ s.out = "error" => s.n = 0
             /\ s.out \in {"error", "again", "sent"}
  BY <1>1, <1>2, <1>5, SendsBytes
<1>9. wnum[e] \in Nat /\ sent \in Nat /\ Len(Rest) \in Nat /\ Carried = sent + wnum[e]
  BY <1>2
<1>6. CASE Blocking(e)
  <2>1. PICK s \in Sends(e, data) :
          /\ net' = s.net
          /\ \/ s.out = "error" /\ UNCHANGED <<wnum, sent>>
             \/ wnum[e] + s.n = Len(Rest) /\ Reported(Len(Rest)) /\ wnum' = [wnum EXCEPT ![e] = 0]
             \/ wnum' = [wnum EXCEPT ![e] = wnum[e] + s.n] /\ UNCHANGED sent
    BY <1>6 DEF data, WriteCall, Write
  <2> HIDE DEF Says
  <2>2. CASE s.out = "error" /\ UNCHANGED <<wnum, sent>>
    <3>1. s.n = 0 /\ net' = net /\ wnum[e] \in Nat /\ sent' + wnum[e] = Carried + 0
      BY <1>2, <1>5, <2>1, <2>2
    <3>2. Says(e, 0, wnum[e])
      <4>1. net.fin[Peer(e)] \/ 0 <= Room(e)
        BY <1>5, <2>1, <3>1
      <4> QED BY <1>1, <2>2, <3>1, <4>1 DEF Says
    <3> QED BY <3>1, <3>2
  <2>3. CASE wnum[e] + s.n = Len(Rest) /\ Reported(Len(Rest)) /\ wnum' = [wnum EXCEPT ![e] = 0]
    <3>1. sent' + 0 = Carried + s.n
      <4>1. s.n \in Nat /\ sent' = sent + Len(Rest) /\ wnum[e] + s.n = Len(Rest)
        BY <1>2, <1>5, <2>1, <2>3 DEF Reported
      <4> QED BY <1>9, <4>1
    <3>2. Says(e, s.n, 0)
      BY <1>5, <2>1, <2>3, <3>1 DEF Says
    <3> QED BY <1>2, <1>5, <2>1, <3>2
  <2>4. CASE wnum' = [wnum EXCEPT ![e] = wnum[e] + s.n] /\ UNCHANGED sent
    <3>1. sent' + (wnum[e] + s.n) = Carried + s.n /\ wnum[e] + s.n \in Nat
      BY <1>2, <1>5, <2>1, <2>4, SMTT(20)
    <3>2. Says(e, s.n, wnum[e] + s.n)
      BY <1>5, <2>1, <2>4, <3>1 DEF Says
    <3> QED BY <1>2, <1>5, <2>1, <3>1, <3>2
  <2> QED BY <2>1, <2>2, <2>3, <2>4
<1>7. CASE ~Blocking(e) /\ ~tls
  <2>1. PICK s \in Sends(e, data) :
          /\ net' = s.net /\ UNCHANGED wnum
          /\ \/ s.out = "error" /\ UNCHANGED sent
             \/ s.out = "again" /\ UNCHANGED sent
             \/ Reported(s.n)
    <3>1. WriteNbPlain(e)
      BY <1>7 DEF WriteCall, WriteNb
    <3> QED BY <1>4, <1>7, <3>1 DEF WriteNbPlain
  <2>2. s.out = "again" => s.n = 0
    BY <1>7, <2>1 DEF Sends
  <2>3. sent' + wnum[e] = Carried + s.n
    BY <1>2, <1>5, <2>1, <2>2 DEF Reported
  <2>4. Says(e, s.n, wnum[e])
    BY <1>1, <1>5, <2>1, <2>3 DEF Says
  <2> QED BY <1>2, <1>5, <2>1, <2>4
<1>8. CASE ~Blocking(e) /\ tls
  <2>1. PICK x \in SslWrites(e, Rest) :
          /\ net' = x.net /\ wnum' = [wnum EXCEPT ![e] = x.wnum]
          /\ \/ x.out \in {"error", "want_write"} /\ UNCHANGED sent
             \/ x.out \notin {"error", "want_write"} /\ Reported(x.n)
    <3>1. WriteNbTls(e)
      BY <1>8 DEF WriteCall, WriteNb
    <3> QED BY <3>1 DEF WriteNbTls
  <2>2. PICK s \in Sends(e, data) :
          x = IF s.out = "error" THEN [out |-> "error", n |-> 0, wnum |-> wnum[e], net |-> net]
              ELSE IF wnum[e] + s.n = Len(Rest)
                   THEN [out |-> "sent", n |-> Len(Rest), wnum |-> 0, net |-> s.net]
              ELSE [out |-> "want_write", n |-> 0, wnum |-> wnum[e] + s.n, net |-> s.net]
    BY <2>1 DEF data, SslWrites
  <2>3. x.net = s.net
    BY <1>5, <2>2
  <2>n. s.n \in Nat
    BY <1>2, <1>5, <2>2
  <2>4. x.wnum \in Nat /\ sent' + x.wnum = Carried + s.n
    <3>1. CASE s.out = "error"
      <4>1. s.n = 0 /\ x.wnum = wnum[e] /\ sent' = sent
        BY <1>5, <2>1, <2>2, <3>1
      <4> QED BY <1>9, <4>1
    <3>2. CASE s.out # "error" /\ wnum[e] + s.n = Len(Rest)
      <4>1. x.wnum = 0 /\ sent' = sent + Len(Rest)
        BY <2>1, <2>2, <3>2 DEF Reported
      <4> QED BY <1>9, <2>n, <3>2, <4>1
    <3>3. CASE s.out # "error" /\ wnum[e] + s.n # Len(Rest)
      <4>1. x.wnum = wnum[e] + s.n /\ sent' = sent
        BY <2>1, <2>2, <3>3
      <4> QED BY <1>9, <2>n, <4>1
    <3> QED BY <3>1, <3>2, <3>3
  <2>5. Says(e, s.n, x.wnum)
    BY <1>5, <2>1, <2>2, <2>3, <2>4 DEF Says
  <2> QED BY <1>2, <1>5, <2>2, <2>4, <2>5, SMTT(20)
<1> QED BY <1>6, <1>7, <1>8
LEMMA SentIs ==
  ASSUME NEW n \in Connections, NEW e \in Ends, NEW segments \in Seq(Int)
  PROVE  LET m == Sent(e, n, segments) IN
         /\ m.pipe[Peer(e)] = n.pipe[Peer(e)]
         /\ m.pipe[e] = IF n.fin[Peer(e)] THEN n.pipe[e] ELSE n.pipe[e] \o segments
         /\ m.link = IF n.fin[Peer(e)] THEN "reset" ELSE n.link
         /\ m.answer = n.answer /\ m.fin = n.fin /\ m.host = n.host /\ m \in Connections
<1> DEFINE m == Sent(e, n, segments)
<1>1. n.pipe \in [Ends -> Seq(Int)] /\ Peer(e) \in Ends /\ Peer(e) # e
  BY PeerOK DEF Connections
<1>2. CASE n.fin[Peer(e)]
  <2>1. m = [n EXCEPT !.link = "reset"]
    BY <1>2 DEF Sent
  <2> HIDE DEF m
  <2>2. m.pipe = n.pipe /\ m.link = "reset" /\ m.answer = n.answer /\ m.fin = n.fin /\ m.host = n.host
        /\ m \in Connections
    BY <2>1 DEF Connections
  <2> QED BY <1>2, <2>2 DEF m
<1>3. CASE ~n.fin[Peer(e)]
  <2> DEFINE Q == [n.pipe EXCEPT ![e] = n.pipe[e] \o segments]
  <2>1. m = [n EXCEPT !.pipe = Q]
    BY <1>3 DEF Sent
  <2>2. Q[e] = n.pipe[e] \o segments /\ Q[Peer(e)] = n.pipe[Peer(e)] /\ Q \in [Ends -> Seq(Int)]
    BY <1>1, Joined
  <2> HIDE DEF m, Q
  <2>3. m.pipe = Q /\ m.link = n.link /\ m.answer = n.answer /\ m.fin = n.fin /\ m.host = n.host
        /\ m \in Connections
    BY <2>1, <2>2 DEF Connections
  <2> QED BY <1>3, <2>2, <2>3 DEF m
<1> QED BY <1>2, <1>3

(* A direction whose content, if it has any, goes on.                      *)
LEMMA GoesOn ==
  ASSUME NEW e, NEW p, NEW q, Lost(e) \/ Underway(e, p),
         Lost(e) => Lost(e)',
         Content(net.pipe[e], net.answer, Len(got), Unread(e), Untaken(e, p), Undelivered(e),
                 net.fin[e], Place(e, p), wnum[e]) =>
           Content(net.pipe[e], net.answer, Len(got), Unread(e), Untaken(e, q), Undelivered(e),
                   net.fin[e], Place(e, q), wnum[e])'
  PROVE  (Lost(e) \/ Underway(e, q))'
BY DEF Underway, Content

LEMMA WriteFlow ==
  ASSUME OwnInv, LinkInv, Traffic, Heard, NEW e \in Ends, WriteCall(e)
  PROVE  Traffic' /\ Heard'
<1> DEFINE r == Peer(e)
           data(j) == Bytes(Carried, j)
<1>1. /\ phase[e] = "transfer" /\ e = writer /\ UNCHANGED <<tls, conn, hs, got, writer>>
  BY DEF WriteCall, At, Write, WriteNb, Quiet, connectVars, Then
<1>2. /\ sock[e].sd # NoFd /\ Types /\ EndOK(e) /\ r \in Ends /\ r # e /\ Peer(r) = e
      /\ e \in {"client", "server"} /\ net \in Connections
  BY <1>1, TwoEnds, PeerOK DEF OwnInv, Ownership, ClientOwns, ServerOwns, Types, LinkInv, NetOK
<1>3. ~net.fin[e] /\ (tls => hs[e] = Len(Script))
  BY <1>1, <1>2 DEF LinkInv, LinkOK, EndOK
<1>4. PICK j, w \in Nat : Says(e, j, w)
  BY WriteSays
<1>5. sock'["client"].sd = sock["client"].sd
  <2>1. \/ sock' = sock \/ \E x : sock' = [sock EXCEPT ![e].io_want = x]
    BY DEF WriteCall, Write, WriteNb, WriteNbPlain, WriteNbTls, TryAgain
  <2> QED BY <1>2, <2>1, KeepsDescriptor, TwoEnds
<1>6. data(j) \in Seq(Int) /\ Len(data(j)) = j /\ Carried \in Nat /\ Carried' = Carried + j
      /\ \A i \in 1 .. j : data(j)[i] = Carried + i
  <2>1. Carried \in Nat
    BY <1>1, <1>2, SocketAssumption DEF Types, Carried
  <2>2. Carried' = Carried + j
    BY <1>1, <1>2, <1>4 DEF Says, Carried, Types
  <2> QED BY <2>1, <2>2 DEF Bytes
<1>7. /\ net'.pipe[r] = net.pipe[r] /\ net'.answer = net.answer /\ net'.fin = net.fin /\ net'.host = net.host
      /\ ~net.fin[r] => net'.pipe[e] = (IF j = 0 THEN net.pipe[e] ELSE net.pipe[e] \o data(j))
      /\ net.link = "reset" => net'.link = "reset"
      /\ wnum'[r] = wnum[r]
  <2>1. net' = IF j = 0 THEN net ELSE Sent(e, net, data(j))
    BY <1>4 DEF Says
  <2>2. wnum'[r] = wnum[r]
    BY <1>2, <1>4 DEF Says, Types
  <2> HIDE DEF data
  <2> QED BY <1>2, <1>6, <2>1, <2>2, SentIs
<1> HIDE DEF r, data
<1>8. PICK p \in 0 .. 7 : Reaches(p) /\ \A x \in Ends : Listens(Peer(x)) => Lost(x) \/ Underway(x, p)
  BY ScriptIs DEF Traffic
<1>9. Dialing' = Dialing /\ Reaches(p)' /\ Place(e, p)' = Place(e, p) /\ Place(r, p)' = Place(r, p)
  BY <1>1, <1>5, <1>8 DEF Dialing, Reaches, Place
<1>10. Place(e, p) = hs[e]
  BY <1>2, <1>8 DEF Reaches, Place
<1>11. /\ Unread(e)' = Unread(e) /\ Unread(r)' = Unread(r)
       /\ Untaken(e, p)' = Untaken(e, p) /\ Untaken(r, p)' = Untaken(r, p)
       /\ Undelivered(e) = Carried - Len(got) /\ Undelivered(e)' = Undelivered(e) + j
       /\ Undelivered(r)' = Undelivered(r)
       /\ Undelivered(e) \in Nat /\ Len(got) \in Nat /\ Unread(e) \in Nat /\ Untaken(e, p) \in Int
       /\ net.pipe[e] \in Seq(Int)
  <2>1. Unread(e)' = Unread(e) /\ Unread(r)' = Unread(r)
    BY <1>1, <1>7, <1>9 DEF Unread
  <2>2. Untaken(e, p)' = Untaken(e, p) /\ Untaken(r, p)' = Untaken(r, p)
    BY <1>2, <1>9 DEF Untaken, r
  <2>3. /\ Undelivered(e) \in Nat /\ Len(got) \in Nat /\ Unread(e) \in Nat /\ Untaken(e, p) \in Int
        /\ net.pipe[e] \in Seq(Int)
    BY Bounds
  <2>4. Undelivered(e) = Carried - Len(got) /\ Undelivered(r)' = Undelivered(r)
        /\ Undelivered(e)' = Carried' - Len(got)
    BY <1>1, <1>2 DEF Undelivered
  <2>5. Undelivered(e)' = Undelivered(e) + j
    BY <1>6, <2>3, <2>4
  <2> QED BY <2>1, <2>2, <2>3, <2>4, <2>5
<1>12. Listens(r)' => (Lost(e) \/ Underway(e, p))'
  <2> SUFFICES ASSUME Listens(r)' PROVE (Lost(e) \/ Underway(e, p))'
    OBVIOUS
  <2>1. Listens(r)
    BY <1>2, <1>5, <1>7, <1>9 DEF Listens
  <2>2. ~net.fin[r]
    BY <1>2, <2>1, ListensOpen
  <2>3. Lost(e) => Lost(e)'
    <3>1. Lost(e) => j = 0
      BY <1>4, <2>2 DEF Says, Lost, Room, r
    <3> QED BY <1>7, <2>2, <3>1 DEF Lost
  <2>4. ASSUME Content(net.pipe[e], net.answer, Len(got), Unread(e), Untaken(e, p), Undelivered(e),
                       net.fin[e], Place(e, p), wnum[e])
        PROVE  Content(net.pipe[e], net.answer, Len(got), Unread(e), Untaken(e, p), Undelivered(e),
                       net.fin[e], Place(e, p), wnum[e])'
    <3>1. Len(got) + Undelivered(e) = Carried
      BY <1>6, <1>11
    <3>2. \A i \in 1 .. Len(data(j)) : data(j)[i] = Len(got) + Undelivered(e) + i
      BY <1>6, <3>1
    <3>3. tls => Place(e, p) = Len(Script)
      BY <1>3, <1>10
    <3>4. Content(net.pipe[e] \o data(j), net.answer, Len(got), Unread(e), Untaken(e, p),
                  Undelivered(e) + Len(data(j)), net.fin[e], Place(e, p), wnum'[e])
      BY <1>3, <1>6, <1>11, <2>4, <3>2, <3>3, SaysData
    <3>5. net'.pipe[e] = net.pipe[e] \o data(j)
      <4>1. j = 0 => net.pipe[e] \o data(j) = net.pipe[e]
        BY <1>6, <1>11, Joined, SeqEqual
      <4> QED BY <1>7, <2>2, <4>1
    <3> QED BY <1>1, <1>6, <1>7, <1>9, <1>11, <3>4, <3>5 DEF Content
  <2> QED BY <1>2, <1>8, <2>1, <2>3, <2>4, GoesOn DEF r
<1>13. Listens(e)' => (Lost(r) \/ Underway(r, p))'
  <2> SUFFICES ASSUME Listens(e)' PROVE (Lost(r) \/ Underway(r, p))'
    OBVIOUS
  <2>1. Listens(e)
    BY <1>2, <1>5, <1>7, <1>9 DEF Listens
  <2>2. Lost(r) => Lost(r)'
    BY <1>7 DEF Lost
  <2>3. ASSUME Content(net.pipe[r], net.answer, Len(got), Unread(r), Untaken(r, p), Undelivered(r),
                       net.fin[r], Place(r, p), wnum[r])
        PROVE  Content(net.pipe[r], net.answer, Len(got), Unread(r), Untaken(r, p), Undelivered(r),
                       net.fin[r], Place(r, p), wnum[r])'
    BY <1>1, <1>7, <1>9, <1>11, <2>3 DEF Content
  <2> QED BY <1>2, <1>8, <2>1, <2>2, <2>3, GoesOn
<1>14. Traffic'
  <2>1. \A x \in Ends : Listens(Peer(x))' => (Lost(x) \/ Underway(x, p))'
    BY <1>2, <1>12, <1>13, TwoEnds DEF r
  <2> QED BY <1>9, <2>1, ScriptIs DEF Traffic
<1>15. Heard'
  BY <1>1, <1>5, <1>6, <1>7 DEF Heard
<1> QED BY <1>14, <1>15
-----------------------------------------------------------------------------
(* A read.  The reader has the whole handshake and the proxy's answer: what*)
(* is under way to it are the bytes of the message and the end.            *)
LEMMA ReaderIsReady ==
  ASSUME OwnInv, LinkInv, Heard, NEW e \in Ends, e # writer, phase[e] = "transfer",
         NEW p \in 0 .. 7, Reaches(p), Underway(Peer(e), p)
  PROVE  Unread(Peer(e)) = 0 /\ Untaken(Peer(e), p) = 0
<1> DEFINE r == Peer(e)
<1>1. /\ sock[e].sd # NoFd /\ EndOK(e) /\ EndOK("client") /\ EndOK("server") /\ r \in Ends /\ r # e
      /\ Peer(r) = e /\ e \in {"client", "server"} /\ (e = "client" => r = "server")
      /\ (e = "server" => r = "client") /\ Len(Script) = 7
  BY TwoEnds, PeerOK, ScriptIs DEF OwnInv, Ownership, ClientOwns, ServerOwns, LinkInv
<1> HIDE DEF r
<1>2. Unread(r) = 0
  <2>1. CASE e = "client"
    <3>1. ~Dialing
      BY <1>1, <2>1, DialingHasNone
    <3> QED BY <3>1 DEF Unread
  <2>2. CASE e = "server"
    BY <1>1, <2>2, TwoEnds DEF Unread
  <2> QED BY <1>1, <2>1, <2>2
<1>3. Untaken(r, p) >= 0 /\ Place(r, p) \in 0 .. 7
  BY <1>1, Bounds DEF Underway, r
<1>4. CASE tls
  <2>1. Place(e, p) = 7
    BY <1>1, <1>4 DEF EndOK, Place, Reaches
  <2>2. Untaken(r, p) = SentBy(r, Place(r, p)) - SentBy(r, 7)
    BY <1>1, <2>1 DEF Untaken
  <2>3. SentBy(r, Place(r, p)) <= SentBy(r, 7)
    BY <1>1, <1>3, SentByGrows
  <2>4. SentBy(r, Place(r, p)) \in Nat /\ SentBy(r, 7) \in Nat
    BY <1>1, <1>3, SentByOK
  <2>5. Untaken(r, p) = 0
    BY <1>3, <2>2, <2>3, <2>4
  <2> QED BY <1>2, <2>5 DEF r
<1>5. CASE ~tls
  <2>1. Place(e, p) = 0 /\ Place(r, p) = 0
    BY <1>1, <1>5 DEF EndOK, Place, Reaches
  <2>2. Untaken(r, p) = SentBy(r, 0) - SentBy(r, 0)
    BY <1>1, <2>1 DEF Untaken
  <2>3. SentBy(r, 0) = 0
    BY <1>1, SentByOK
  <2>4. Untaken(r, p) = 0
    BY <2>2, <2>3
  <2> QED BY <1>2, <2>4 DEF r
<1> QED BY <1>4, <1>5

LEMMA ReaderGets ==
  ASSUME OwnInv, LinkInv, Traffic, Heard, NEW e \in Ends, e # writer, phase[e] = "transfer"
  PROVE  /\ Peer(e) = writer /\ Len(got) \in Nat /\ Carried \in Nat
         /\ Inbox(e) # <<>> =>
              \/ Len(got) < Carried /\ Head(Inbox(e)) = Len(got) + 1
              \/ Len(got) = Carried /\ tls /\ net.fin[writer] /\ Head(Inbox(e)) = CloseNotify
         /\ Inbox(e) = <<>> /\ net.link # "reset" => Len(got) = Carried
<1> DEFINE r == Peer(e)
<1>1. /\ sock[e].sd # NoFd /\ r \in Ends /\ Peer(r) = e /\ r = writer /\ e \in {"client", "server"}
      /\ Carried \in Nat /\ Inbox(e) = net.pipe[r]
  BY TwoEnds, PeerOK, SocketAssumption DEF OwnInv, Ownership, ClientOwns, ServerOwns, Types, Carried, Inbox
<1>2. Listens(e)
  BY <1>1 DEF Listens, LinkInv, LinkOK
<1>3. PICK p \in 0 .. 7 : Reaches(p) /\ (Lost(r) \/ Underway(r, p))
  BY <1>1, <1>2, ScriptIs DEF Traffic
<1>4. Len(got) \in Nat /\ Undelivered(r) = Carried - Len(got) /\ Undelivered(r) \in Nat
      /\ net.pipe[r] \in Seq(Int)
  BY <1>1, <1>3, Bounds DEF Undelivered
<1>5. CASE Lost(r)
  BY <1>1, <1>4, <1>5 DEF Lost
<1>6. CASE Underway(r, p)
  <2>1. Unread(r) = 0 /\ Untaken(r, p) = 0
    BY <1>3, <1>6, ReaderIsReady
  <2>2. Content(net.pipe[r], net.answer, Len(got), 0, 0, Undelivered(r), net.fin[r], Place(r, p), wnum[r])
    BY <1>6, <2>1, UnderwayIs
  <2>3. CASE net.pipe[r] # <<>>
    <3>1. \/ Undelivered(r) > 0 /\ Head(net.pipe[r]) = Len(got) + 1
          \/ Undelivered(r) = 0 /\ tls /\ net.fin[r] /\ Head(net.pipe[r]) = CloseNotify
      BY <1>4, <2>2, <2>3, HearsByte
    <3> QED BY <1>1, <1>4, <2>3, <3>1
  <2>4. CASE net.pipe[r] = <<>>
    <3>1. PICK t \in 0 .. 1 : Consists(net.pipe[r], net.answer, Len(got), 0, 0, Undelivered(r), t)
      BY <2>2 DEF Content
    <3>2. 0 = Undelivered(r) + t
      BY <1>4, <2>4, <3>1 DEF Consists
    <3>3. Len(got) = Carried
      BY <1>1, <1>4, <3>2
    <3> QED BY <1>1, <1>4, <2>4, <3>3
  <2> QED BY <2>3, <2>4
<1> QED BY <1>3, <1>5, <1>6

(* What a read gets and what it says of it.                                *)
Gets(e, r) ==
  \/ /\ r \in {"error", "try_again"} /\ UNCHANGED <<net, got>>
  \/ /\ r = "end_of_data" /\ UNCHANGED <<net, got>>
     /\ \/ tls /\ Inbox(e) # <<>> /\ Head(Inbox(e)) = CloseNotify
        \/ ~tls /\ Inbox(e) = <<>> /\ Drained(e) = "eof"
  \/ /\ r = "ok" /\ Inbox(e) # <<>> /\ net' = Taken(e, 1) /\ got' = got \o <<Head(Inbox(e))>>
     /\ tls => Head(Inbox(e)) # CloseNotify

LEMMA ReadGets ==
  ASSUME OwnInv, LinkInv, Traffic, Heard, NEW e \in Ends, ReadCall(e)
  PROVE  \E r : Return(e, r) /\ Gets(e, r)
<1>1. Types /\ got \in Seq(Int)
  BY DEF OwnInv, Heard
<1>2. got \o <<>> = got
  BY <1>1
<1>3. ASSUME NEW r \in (IF tls THEN SslReads(e) ELSE Receives(e))
      PROVE  /\ r.out \in {"data", "again", "want_read", "eof", "zero_return", "error"}
             /\ r.out = "data" => /\ Inbox(e) # <<>> /\ r.data = <<Head(Inbox(e))>> /\ r.net = Taken(e, 1)
                                  /\ tls => Head(Inbox(e)) # CloseNotify
             /\ r.out # "data" => r.data = <<>> /\ r.net = net
             /\ r.out \in {"eof", "zero_return"} =>
                  \/ tls /\ Inbox(e) # <<>> /\ Head(Inbox(e)) = CloseNotify
                  \/ ~tls /\ Inbox(e) = <<>> /\ Drained(e) = "eof"
  <2>1. CASE tls
    BY <1>1, <1>3, <2>1, SslReadsOK
  <2>2. CASE ~tls
    BY <1>1, <1>3, <2>2, ReceivesOK
  <2> QED BY <2>1, <2>2
<1>4. PICK r \in (IF tls THEN SslReads(e) ELSE Receives(e)) :
        /\ net' = r.net /\ got' = got \o r.data
        /\ \/ r.out = "data" /\ Return(e, "ok")
           \/ r.out \in {"eof", "zero_return"} /\ Return(e, "end_of_data")
           \/ r.out \notin {"data", "eof", "zero_return"} /\ (Return(e, "try_again") \/ Return(e, "error"))
  <2>1. CASE Blocking(e)
    <3>1. PICK b : Read(e, b)
      BY <2>1 DEF ReadCall
    <3> QED BY <3>1 DEF Read
  <2>2. CASE ~Blocking(e)
    <3>1. ReadNb(e)
      BY <2>2 DEF ReadCall
    <3>2. PICK r \in (IF tls THEN SslReads(e) ELSE Receives(e)) :
            /\ net' = r.net /\ got' = got \o r.data
            /\ CASE r.out = "data" -> /\ sock' = [sock EXCEPT ![e].io_want = "none"]
                                      /\ Return(e, "ok")
                 [] r.out = "again" -> TryAgain(e, "want_read")
                 [] r.out = "want_read" -> TryAgain(e, "want_read")
                 [] r.out \in {"eof", "zero_return"} -> Return(e, "end_of_data") /\ UNCHANGED sock
                 [] r.out = "error" -> Return(e, "error") /\ UNCHANGED sock
      BY <3>1 DEF ReadNb
    <3>3. r.out \in {"data", "again", "want_read", "eof", "zero_return", "error"}
      BY <1>3
    <3> QED BY <3>2, <3>3 DEF TryAgain
  <2> QED BY <2>1, <2>2
<1>5. CASE r.out = "data" /\ Return(e, "ok")
  <2>1. Gets(e, "ok")
    BY <1>3, <1>4, <1>5 DEF Gets
  <2> QED BY <1>5, <2>1
<1>6. CASE r.out \in {"eof", "zero_return"} /\ Return(e, "end_of_data")
  <2>1. Gets(e, "end_of_data")
    BY <1>2, <1>3, <1>4, <1>6 DEF Gets
  <2> QED BY <1>6, <2>1
<1>7. CASE /\ r.out \notin {"data", "eof", "zero_return"}
           /\ Return(e, "try_again") \/ Return(e, "error")
  <2>1. Gets(e, "try_again") /\ Gets(e, "error")
    BY <1>2, <1>3, <1>4, <1>7 DEF Gets
  <2> QED BY <1>7, <2>1
<1> QED BY <1>4, <1>5, <1>6, <1>7
LEMMA ReadFlow ==
  ASSUME OwnInv, LinkInv, Traffic, Heard, NEW e \in Ends, ReadCall(e)
  PROVE  Traffic' /\ Heard'
<1> DEFINE r == Peer(e)
<1>1. /\ phase[e] = "transfer" /\ e # writer /\ UNCHANGED <<tls, conn, hs, wnum, sent, writer>>
  BY DEF ReadCall, At, Read, ReadNb, Quiet, connectVars, Then
<1>2. /\ Types /\ r \in Ends /\ r # e /\ Peer(r) = e /\ r = writer
      /\ e \in {"client", "server"} /\ net \in Connections /\ Inbox(e) = net.pipe[r]
      /\ net.pipe[r] \in Seq(Int) /\ net.pipe[e] \in Seq(Int)
  BY <1>1, TwoEnds, PeerOK DEF OwnInv, Types, NetOK, Connections, Inbox
<1>3. PICK x : Gets(e, x)
  BY ReadGets
<1>4. sock'["client"].sd = sock["client"].sd
  <2>1. \/ sock' = sock \/ \E y : sock' = [sock EXCEPT ![e].io_want = y]
    <3>1. CASE Blocking(e)
      BY <3>1 DEF ReadCall, Read
    <3>2. CASE ~Blocking(e)
      <4>1. PICK y \in (IF tls THEN SslReads(e) ELSE Receives(e)) :
            CASE y.out = "data" -> /\ sock' = [sock EXCEPT ![e].io_want = "none"]
                                      /\ Return(e, "ok")
                 [] y.out = "again" -> TryAgain(e, "want_read")
                 [] y.out = "want_read" -> TryAgain(e, "want_read")
                 [] y.out \in {"eof", "zero_return"} -> Return(e, "end_of_data") /\ UNCHANGED sock
                 [] y.out = "error" -> Return(e, "error") /\ UNCHANGED sock
        BY <3>2 DEF ReadCall, ReadNb
      <4>2. y.out \in {"error", "eof", "again", "data", "want_read", "zero_return"}
        BY <1>2, ReceivesOK, SslReadsOK
      <4> QED BY <4>1, <4>2 DEF TryAgain
    <3> QED BY <3>1, <3>2
  <2> QED BY <1>2, <2>1, KeepsDescriptor, TwoEnds
<1>5. Dialing' = Dialing
  BY <1>1 DEF Dialing
<1>6. CASE UNCHANGED <<net, got>>
  BY <1>1, <1>4, <1>5, <1>6, FlowStays
<1>7. CASE Inbox(e) # <<>> /\ net' = Taken(e, 1) /\ got' = got \o <<Head(Inbox(e))>>
           /\ (tls => Head(Inbox(e)) # CloseNotify)
  <2>1. Len(got) \in Nat /\ Carried \in Nat /\ Len(got) < Carried /\ Head(Inbox(e)) = Len(got) + 1
    BY <1>1, <1>7, ReaderGets
  <2>2. got \in Seq(Int) /\ got' \in Seq(Int) /\ Len(got') = Len(got) + 1
    <3>1. got \in Seq(Int) /\ <<Len(got) + 1>> \in Seq(Int) /\ Len(<<Len(got) + 1>>) = 1
      BY <2>1 DEF Heard
    <3>2. got' = got \o <<Len(got) + 1>>
      BY <1>7, <2>1
    <3> QED BY <3>1, <3>2, Joined
  <2>3. /\ net'.answer = net.answer /\ net'.fin = net.fin /\ net'.host = net.host /\ net'.link = net.link
        /\ net'.pipe[e] = net.pipe[e]
        /\ net'.pipe[r] = SubSeq(net.pipe[r], 1 + 1, Len(net.pipe[r]))
    <3>1. 1 <= Len(Inbox(e))
      BY <1>2, <1>7
    <3> QED BY <1>2, <1>7, <3>1, TakenPasses, TakenIs DEF Passes
  <2> HIDE DEF r
  <2>4. PICK p \in 0 .. 7 : Reaches(p) /\ \A y \in Ends : Listens(Peer(y)) => Lost(y) \/ Underway(y, p)
    BY ScriptIs DEF Traffic
  <2>5. /\ Reaches(p)' /\ Place(e, p)' = Place(e, p) /\ Place(r, p)' = Place(r, p)
        /\ Unread(e)' = Unread(e) /\ Unread(r)' = Unread(r)
        /\ Untaken(e, p)' = Untaken(e, p) /\ Untaken(r, p)' = Untaken(r, p)
    BY <1>1, <1>4, <1>5, <2>3, <2>4 DEF Reaches, Place, Unread, Untaken
  <2>6. /\ Undelivered(e) = 0 /\ Undelivered(e)' = 0
        /\ Undelivered(r) = Carried - Len(got) /\ Undelivered(r)' = Carried - Len(got')
        /\ Unread(e) \in Nat /\ Untaken(e, p) \in Int
    BY <1>1, <1>2, Bounds DEF Undelivered, Carried
  <2>7. Undelivered(r)' = Undelivered(r) - 1 /\ Undelivered(r) \in Nat
    BY <2>1, <2>2, <2>6
  <2>8. Listens(r)' => (Lost(e) \/ Underway(e, p))'
    <3> SUFFICES ASSUME Listens(r)' PROVE (Lost(e) \/ Underway(e, p))'
      OBVIOUS
    <3>1. Listens(r)
      BY <1>2, <1>4, <1>5, <2>3 DEF Listens
    <3>2. Lost(e) => Lost(e)'
      BY <2>3 DEF Lost
    <3>3. ASSUME Content(net.pipe[e], net.answer, Len(got), Unread(e), Untaken(e, p), Undelivered(e),
                         net.fin[e], Place(e, p), wnum[e])
          PROVE  Content(net.pipe[e], net.answer, Len(got), Unread(e), Untaken(e, p), Undelivered(e),
                         net.fin[e], Place(e, p), wnum[e])'
      <4>1. Content(net.pipe[e], net.answer, Len(got'), Unread(e), Untaken(e, p), Undelivered(e),
                    net.fin[e], Place(e, p), wnum[e])
        BY <1>2, <2>6, <3>3, ContentAside
      <4> QED BY <1>1, <2>3, <2>5, <2>6, <4>1 DEF Content
    <3> QED BY <1>2, <2>4, <3>1, <3>2, <3>3, GoesOn DEF r
  <2>9. Listens(e)' => (Lost(r) \/ Underway(r, p))'
    <3> SUFFICES ASSUME Listens(e)' PROVE (Lost(r) \/ Underway(r, p))'
      OBVIOUS
    <3>1. Listens(e)
      BY <1>2, <1>4, <1>5, <2>3 DEF Listens
    <3>2. Underway(r, p)
      BY <1>2, <1>7, <2>4, <3>1 DEF Lost
    <3>3. Unread(r) = 0 /\ Untaken(r, p) = 0
      BY <1>1, <2>4, <3>2, ReaderIsReady DEF r
    <3>4. Content(net.pipe[r], net.answer, Len(got), 0, 0, Undelivered(r), net.fin[r], Place(r, p), wnum[r])
      BY <3>2, <3>3, UnderwayIs
    <3>5. Content(net'.pipe[r], net.answer, Len(got) + 1, 0, 0, Undelivered(r) - 1, net.fin[r],
                  Place(r, p), wnum[r])
      <4>1. net.pipe[r] # <<>> /\ Undelivered(r) > 0
        BY <1>2, <1>7, <2>1, <2>6
      <4>2. Content(SubSeq(net.pipe[r], 1 + 1, Len(net.pipe[r])), net.answer, Len(got) + 1, 0, 0,
                    Undelivered(r) - 1, net.fin[r], Place(r, p), wnum[r])
        BY <1>2, <2>1, <2>7, <3>4, <4>1, HearsByte
      <4> QED BY <2>3, <4>2
    <3>6. Content(net.pipe[r], net.answer, Len(got), Unread(r), Untaken(r, p), Undelivered(r),
                  net.fin[r], Place(r, p), wnum[r])'
      BY <1>1, <2>2, <2>3, <2>5, <2>7, <3>3, <3>5 DEF Content
    <3> QED BY <3>6 DEF Underway, Content
  <2>10. Traffic'
    <3>1. \A y \in Ends : Listens(Peer(y))' => (Lost(y) \/ Underway(y, p))'
      BY <1>2, <2>8, <2>9, TwoEnds DEF r
    <3> QED BY <2>5, <3>1, ScriptIs DEF Traffic
  <2>11. Heard'
    <3>1. Len(got') <= Carried'
      BY <1>1, <2>1, <2>2 DEF Carried
    <3> QED BY <1>1, <1>4, <2>2, <2>3, <3>1 DEF Heard
  <2> QED BY <2>10, <2>11
<1> QED BY <1>3, <1>6, <1>7 DEF Gets

LEMMA ShutdownIs ==
  ASSUME NEW e \in Ends, NEW n \in Connections
  PROVE  \/ Shutdown(e, n) = n
         \/ /\ hs[e] = Len(Script) /\ n.link = "up" /\ wnum[e] = 0
            /\ Shutdown(e, n) = Sent(e, n, <<CloseNotify>>)
BY DEF Shutdown

LEMMA DeinitFlow ==
  ASSUME OwnInv, LinkInv, Traffic, Heard, NEW e \in Ends, DeinitCall(e)
  PROVE  Traffic' /\ Heard'
<1> DEFINE r == Peer(e)
           c == sock[e]
           s == [BackendDestroyed(c) EXCEPT !.sd = NoFd]
           n == IF c.backend /\ c.ssl THEN Shutdown(e, net) ELSE net
<1>1. /\ phase[e] = "deinit" /\ sock' = [sock EXCEPT ![e] = s]
      /\ net' = (IF c.sd # NoFd THEN Hangup(e, n) ELSE n)
      /\ UNCHANGED <<tls, hs, wnum, sent, got, conn, writer>>
  BY DEF DeinitCall, Deinit, Quiet, connectVars
<1>2. /\ sock \in [Ends -> Sockets] /\ c \in Sockets /\ net \in Connections
      /\ r \in Ends /\ r # e /\ Peer(r) = e /\ EndOK(e) /\ (c.ssl => c.sd # NoFd)
      /\ e \in {"client", "server"} /\ tls \in BOOLEAN /\ Len(Script) = 7
  BY PeerOK, TwoEnds, ScriptIs DEF OwnInv, Ownership, Accounted, Types, LinkInv, NetOK
<1>3. s.sd = NoFd
  BY <1>2 DEF Sockets, BackendDestroyed
<1> HIDE DEF s
<1>4. sock'[e].sd = NoFd /\ sock'[r].sd = sock[r].sd /\ Dialing' = Dialing
  BY <1>1, <1>2, <1>3 DEF Dialing
<1>5. sock'["client"].sd # NoFd => sock["client"].sd # NoFd
  BY <1>2, <1>4, TwoEnds
<1>6. CASE c.sd = NoFd
  <2>1. net' = net
    BY <1>1, <1>2, <1>6
  <2> QED BY <1>1, <1>4, <1>5, <2>1, FlowStays
<1>7. CASE c.sd # NoFd
  <2>1. ~net.fin[e] /\ (e = "client" => ~Dialing)
    BY <1>2, <1>7, DialingHasNone DEF LinkInv, LinkOK
  <2>2. /\ n \in Connections /\ n.answer = net.answer /\ n.fin = net.fin /\ n.host = net.host
        /\ \/ n = net
           \/ /\ hs[e] = Len(Script) /\ net.link = "up" /\ wnum[e] = 0
              /\ n.pipe[r] = net.pipe[r]
              /\ n.pipe[e] = IF net.fin[r] THEN net.pipe[e] ELSE net.pipe[e] \o <<CloseNotify>>
    <3>1. <<CloseNotify>> \in Seq(Int)
      BY SocketAssumption DEF CloseNotify
    <3>2. \/ n = net
          \/ /\ hs[e] = Len(Script) /\ net.link = "up" /\ wnum[e] = 0
             /\ n = Sent(e, net, <<CloseNotify>>)
      BY <1>2, ShutdownIs
    <3> HIDE DEF n
    <3>3. CASE n = net
      BY <1>2, <3>3
    <3>4. CASE /\ hs[e] = Len(Script) /\ net.link = "up" /\ wnum[e] = 0
               /\ n = Sent(e, net, <<CloseNotify>>)
      <4>1. /\ n \in Connections /\ n.answer = net.answer /\ n.fin = net.fin /\ n.host = net.host
            /\ n.pipe[r] = net.pipe[r]
            /\ n.pipe[e] = IF net.fin[r] THEN net.pipe[e] ELSE net.pipe[e] \o <<CloseNotify>>
        BY <1>2, <3>1, <3>4, SentIs
      <4> QED BY <3>4, <4>1
    <3> QED BY <3>2, <3>3, <3>4
  <2> HIDE DEF n
  <2>3. HungUp(e, n, net')
    BY <1>1, <1>7, <2>2, HangsUp
  <2>4. /\ net'.pipe = n.pipe /\ net'.answer = net.answer /\ net'.host = net.host
        /\ net'.fin[e] = TRUE /\ net'.fin[r] = net.fin[r]
        /\ n.link = "reset" => net'.link = "reset"
    BY <2>2, <2>3 DEF HungUp
  <2>5. ~Listens(e)'
    <3>1. CASE e = "client"
      BY <1>4, <2>1, <3>1 DEF Listens
    <3>2. CASE e = "server"
      BY <2>4, <3>2, TwoEnds DEF Listens
    <3> QED BY <1>2, <3>1, <3>2
  <2>6. PICK p \in 0 .. 7 : Reaches(p) /\ \A y \in Ends : Listens(Peer(y)) => Lost(y) \/ Underway(y, p)
    BY ScriptIs DEF Traffic
  <2> HIDE DEF r, c
  <2>7. /\ Reaches(p)' /\ Place(e, p)' = Place(e, p)
        /\ Unread(e)' = Unread(e) /\ Untaken(e, p)' = Untaken(e, p) /\ Undelivered(e)' = Undelivered(e)
    BY <1>1, <1>4, <1>5, <2>4, <2>6 DEF Reaches, Place, Unread, Untaken, Undelivered, Carried
  <2>8. Place(e, p) = hs[e]
    BY <1>2, <1>7, <2>6 DEF Reaches, Place, c
  <2>9. Listens(r)' => (Lost(e) \/ Underway(e, p))'
    <3> SUFFICES ASSUME Listens(r)' PROVE (Lost(e) \/ Underway(e, p))'
      OBVIOUS
    <3>1. Listens(r)
      BY <1>2, <1>4, <2>4, TwoEnds DEF Listens
    <3>2. ~net.fin[r]
      BY <1>2, <3>1, ListensOpen
    <3>3. Lost(e) => Lost(e)'
      BY <2>2, <2>4 DEF Lost
    <3>4. ASSUME Content(net.pipe[e], net.answer, Len(got), Unread(e), Untaken(e, p), Undelivered(e),
                         net.fin[e], Place(e, p), wnum[e])
          PROVE  Content(net.pipe[e], net.answer, Len(got), Unread(e), Untaken(e, p), Undelivered(e),
                         net.fin[e], Place(e, p), wnum[e])'
      <4>1. Content(n.pipe[e], net.answer, Len(got), Unread(e), Untaken(e, p), Undelivered(e),
                    TRUE, Place(e, p), wnum[e])
        <5>1. CASE n = net
          BY <3>4, <5>1, ContentGrows
        <5>2. CASE /\ hs[e] = Len(Script) /\ wnum[e] = 0
                   /\ n.pipe[e] = net.pipe[e] \o <<CloseNotify>>
          <6>1. tls
            BY <1>2, <5>2 DEF EndOK
          <6>2. /\ net.pipe[e] \in Seq(Int) /\ Len(got) \in Nat /\ Unread(e) \in Nat
                /\ Untaken(e, p) \in Int /\ Undelivered(e) \in Nat
            BY Bounds
          <6>3. Place(e, p) = Len(Script) /\ wnum[e] = 0 /\ ~net.fin[e]
            BY <2>1, <2>8, <5>2
          <6>4. Content(net.pipe[e], net.answer, Len(got), Unread(e), Untaken(e, p), Undelivered(e),
                        FALSE, Len(Script), 0)
            BY <3>4, <6>3 DEF Content
          <6>5. Content(net.pipe[e] \o <<CloseNotify>>, net.answer, Len(got), Unread(e), Untaken(e, p),
                        Undelivered(e), TRUE, Len(Script), 0)
            BY <6>1, <6>2, <6>4, SaysNotify
          <6> QED BY <5>2, <6>3, <6>5
        <5> QED BY <2>2, <3>2, <5>1, <5>2
      <4> QED BY <1>1, <2>4, <2>7, <4>1 DEF Content
    <3> QED BY <1>2, <2>6, <3>1, <3>3, <3>4, GoesOn DEF r
  <2>10. Traffic'
    <3>1. \A y \in Ends : Listens(Peer(y))' => (Lost(y) \/ Underway(y, p))'
      BY <1>2, <2>5, <2>9, TwoEnds DEF r
    <3> QED BY <2>6, <2>7, <3>1, ScriptIs DEF Traffic
  <2>11. Heard'
    BY <1>1, <1>5, <2>4, HeardStays, DialingHasNone
  <2> QED BY <2>10, <2>11
<1> QED BY <1>6, <1>7
LEMMA GrantIsAll ==
  ASSUME NEW a \in Answers, 5 < Len(a), NEW said \in Seq(Int), Len(said) <= Len(a), Len(said) >= 5,
         said = SubSeq(a, 1, Len(said))
  PROVE  said[2] # Grant[2]
<1>1. a = [i \in 1 .. AnswerCapacity + 1 |-> Granted]
  <2>1. Len(<<Granted>> \o Terminator) = 5 /\ Len(<<Denied>> \o Terminator) = 5
    BY DEF Terminator, Granted, Denied, CR, LF
  <2> QED BY <2>1 DEF Answers
<1>2. a \in Seq(Int)
  BY AnswersOK
<1>3. said[2] = a[2]
  BY <1>2
<1>4. a[2] = Granted
  <2>1. Len(a) = AnswerCapacity + 1
    BY <1>1, ConnectAssumption
  <2>2. 2 \in 1 .. AnswerCapacity + 1
    BY <2>1, ConnectAssumption
  <2> QED BY <1>1, <2>2
<1> QED BY <1>3, <1>4, GrantIs DEF Granted, CR

LEMMA ProxyFlow == ASSUME OwnInv, LinkInv, Traffic, Heard, ProxyStep PROVE Traffic' /\ Heard'
<1>1. UNCHANGED <<tls, sock, hs, wnum, sent, got, conn, writer>> /\ Dialing' = Dialing
  BY DEF ProxyStep, Kernel, connectVars, appVars, Dialing
<1>2. /\ net \in Connections /\ net.answer \in Seq(Int) /\ net.pipe["server"] \in Seq(Int)
      /\ conn \in Calls /\ Types
  BY TwoEnds DEF OwnInv, Types, NetOK, Connections
<1>3. PICK a \in Answers :
        LET said  == Append(net.answer, a[Len(net.answer) + 1])
            grant == said = <<Granted>> \o Terminator /\ Listening IN
        /\ Len(net.answer) < Len(a) /\ said = SubSeq(a, 1, Len(said))
        /\ net' = [net EXCEPT !.pipe["server"] = Append(@, Last(said)), !.answer = said,
                              !.host = IF grant THEN "server" ELSE @, !.backlog = grant]
  <2>1. ProxyAnswers
    BY DEF ProxyStep
  <2> QED BY <2>1, Zenon DEF ProxyAnswers
<1>4. net.host = "proxy" /\ net.link = "up"
  <2>1. ProxyAnswers
    BY DEF ProxyStep
  <2> QED BY <2>1, Zenon DEF ProxyAnswers
<1> DEFINE x == a[Len(net.answer) + 1]
           said == Append(net.answer, x)
           pipe == Append(net.pipe["server"], x)
<1>5. /\ x \in Int /\ said \in Seq(Int) /\ Len(said) = Len(net.answer) + 1 /\ Len(said) <= Len(a)
      /\ Last(said) = x /\ Len(net.answer) < Len(a) /\ said = SubSeq(a, 1, Len(said))
      /\ Len(net.answer) \in Nat
  BY <1>2, <1>3, LastOfAnswer
<1>6. /\ net'.answer = said /\ net'.fin = net.fin /\ net'.link = "up"
      /\ net'.pipe["server"] = pipe /\ net'.pipe["client"] = net.pipe["client"]
  <2> DEFINE grant == said = <<Granted>> \o Terminator /\ Listening
             Q == [net.pipe EXCEPT !["server"] = pipe]
  <2>1. net' = [net EXCEPT !.pipe = Q, !.answer = said,
                           !.host = IF grant THEN "server" ELSE @, !.backlog = grant]
    <3>1. Last(said) = x
      BY <1>5
    <3> QED BY <1>3, <3>1
  <2>2. Q["server"] = pipe /\ Q["client"] = net.pipe["client"]
    BY <1>2, TwoEnds DEF Connections
  <2> HIDE DEF said, grant, Q
  <2> QED BY <1>2, <1>4, <2>1, <2>2 DEF Connections
<1>7. sock["client"].sd = NoFd
  <2> SUFFICES ASSUME sock["client"].sd # NoFd PROVE FALSE
    OBVIOUS
  <2>1. net.answer = Grant
    BY <1>4 DEF Heard
  <2>2. Len(said) >= 5 /\ 5 < Len(a) /\ said[2] = Grant[2]
    BY <1>2, <1>5, <2>1, GrantIs
  <2> HIDE DEF said
  <2> QED BY <1>5, <2>2, GrantIsAll
<1> HIDE DEF x, said, pipe
<1>8. ~Reached
  BY <1>4 DEF Reached
<1>9. hs["server"] = 0 /\ ~net.fin["server"] /\ (writer = "server" => Carried = 0)
  <2>1. Carried \in Nat
    BY SocketAssumption DEF OwnInv, Types, Carried
  <2> QED BY <1>8, <2>1 DEF LinkInv, LinkOK
<1>10. PICK p \in 0 .. 7 : Reaches(p) /\ \A y \in Ends : Listens(Peer(y)) => Lost(y) \/ Underway(y, p)
  BY ScriptIs DEF Traffic
<1>11. /\ Reaches(p)' /\ \A e \in Ends : Place(e, p)' = Place(e, p) /\ Untaken(e, p)' = Untaken(e, p)
                                         /\ Undelivered(e)' = Undelivered(e)
       /\ Unread("client")' = Unread("client")
  BY <1>1, <1>10, TwoEnds DEF Reaches, Place, Untaken, Undelivered, Unread, Carried
<1>12. Unread("client") = 0 /\ Unread("server") \in Nat /\ Untaken("client", p) \in Int
       /\ Undelivered("client") \in Nat /\ Undelivered("server") = 0 /\ net.pipe["client"] \in Seq(Int)
       /\ Len(got) \in Nat
  <2>1. \A e \in Ends : /\ Unread("client") = 0 /\ Unread(e) \in Nat /\ Untaken(e, p) \in Int
                        /\ Undelivered(e) \in Nat /\ net.pipe[e] \in Seq(Int) /\ Len(got) \in Nat
                        /\ (e # writer => Undelivered(e) = 0)
    BY Bounds
  <2>2. writer = "server" => Undelivered("server") = 0
    <3>1. writer = "server" => Undelivered("server") = 0 - Len(got)
      BY <1>9 DEF Undelivered
    <3> QED BY <2>1, <3>1, TwoEnds
  <2> QED BY <2>1, <2>2, TwoEnds
<1>13. Listens("server")' => (Lost("client") \/ Underway("client", p))'
  <2> SUFFICES ASSUME Listens("server")' PROVE (Lost("client") \/ Underway("client", p))'
    OBVIOUS
  <2>1. Lost("client") \/ Underway("client", p)
    BY <1>6, <1>10, TwoEnds DEF Listens
  <2>2. ~Lost("client")
    BY <1>4 DEF Lost
  <2>3. ASSUME Content(net.pipe["client"], net.answer, Len(got), Unread("client"), Untaken("client", p),
                       Undelivered("client"), net.fin["client"], Place("client", p), wnum["client"])
        PROVE  Content(net.pipe["client"], net.answer, Len(got), Unread("client"), Untaken("client", p),
                       Undelivered("client"), net.fin["client"], Place("client", p), wnum["client"])'
    <3>1. Content(net.pipe["client"], said, Len(got), Unread("client"), Untaken("client", p),
                  Undelivered("client"), net.fin["client"], Place("client", p), wnum["client"])
      BY <1>12, <2>3, ContentAside
    <3> QED BY <1>1, <1>6, <1>11, <3>1, TwoEnds DEF Content
  <2> QED BY <2>1, <2>2, <2>3, GoesOn
<1>14. Dialing => Unread("server") <= Len(net.answer) /\ Unread("server")' = Unread("server") + 1
  <2> SUFFICES ASSUME Dialing
               PROVE  Unread("server") <= Len(net.answer) /\ Unread("server")' = Unread("server") + 1
    OBVIOUS
  <2> DEFINE had == IF conn.pc = "answer" THEN Len(conn.answer) ELSE 0
  <2>1. Unread("server") = Len(net.answer) - had /\ Unread("server")' = Len(said) - had
    BY <1>1, <1>6 DEF Unread
  <2>2. had \in Nat
    BY <1>2 DEF Calls
  <2> HIDE DEF had
  <2> QED BY <1>5, <2>1, <2>2
<1>15. Listens("client")' => (Lost("server") \/ Underway("server", p))'
  <2> SUFFICES ASSUME Listens("client")' PROVE (Lost("server") \/ Underway("server", p))'
    OBVIOUS
  <2>1. Dialing /\ Listens("client")
    BY <1>1, <1>7 DEF Listens
  <2>2. Lost("server") \/ Underway("server", p)
    BY <1>10, <2>1, TwoEnds
  <2>3. ~Lost("server")
    BY <1>4 DEF Lost
  <2>4. Untaken("server", p) = 0
    <3>1. p = 0
      BY <1>10, <2>1 DEF Reaches
    <3> QED BY <1>9, <3>1, TwoEnds, SentByOK DEF Untaken, Place
  <2>5. Content(net.pipe["server"], net.answer, Len(got), Unread("server"), 0, 0,
                net.fin["server"], Place("server", p), wnum["server"])
    BY <1>12, <2>2, <2>3, <2>4, UnderwayIs
  <2>6. Unread("server") <= Len(net.answer)
    BY <1>14, <2>1
  <2>7. Content(pipe, said, Len(got), Unread("server") + 1, 0, 0,
                net.fin["server"], Place("server", p), wnum["server"])
    BY <1>2, <1>5, <1>9, <1>12, <2>5, <2>6, SaysAnswer DEF pipe, said
  <2>8. Content(net.pipe["server"], net.answer, Len(got), Unread("server"), Untaken("server", p),
                Undelivered("server"), net.fin["server"], Place("server", p), wnum["server"])'
    BY <1>1, <1>6, <1>11, <1>12, <1>14, <2>1, <2>4, <2>7, TwoEnds DEF Content
  <2> QED BY <2>8 DEF Underway, Content
<1>16. Traffic'
  <2>1. \A y \in Ends : Listens(Peer(y))' => (Lost(y) \/ Underway(y, p))'
    BY <1>13, <1>15, TwoEnds
  <2> QED BY <1>11, <2>1, ScriptIs DEF Traffic
<1>17. Heard'
  <2>1. conn.pc = "answer" => Len(conn.answer) <= Len(said) /\ conn.answer = SubSeq(said, 1, Len(conn.answer))
    <3> SUFFICES ASSUME conn.pc = "answer"
                 PROVE  Len(conn.answer) <= Len(said) /\ conn.answer = SubSeq(said, 1, Len(conn.answer))
      OBVIOUS
    <3>1. conn.answer \in Seq(Int) /\ Len(conn.answer) \in Nat
      BY <1>2 DEF Calls
    <3>2. Len(conn.answer) <= Len(net.answer) /\ conn.answer = SubSeq(net.answer, 1, Len(conn.answer))
      BY DEF Heard
    <3>3. \A i \in 1 .. Len(conn.answer) : conn.answer[i] = net.answer[i]
      BY <1>2, <3>1, <3>2, PrefixOf
    <3>4. \A i \in 1 .. Len(net.answer) : said[i] = net.answer[i]
      BY <1>2, <1>5 DEF said
    <3>5. Len(conn.answer) <= Len(said)
      BY <1>5, <3>1, <3>2
    <3>6. \A i \in 1 .. Len(conn.answer) : conn.answer[i] = said[i]
      BY <1>5, <3>1, <3>2, <3>3, <3>4
    <3> QED BY <1>5, <3>1, <3>5, <3>6, SamePrefix
  <2> QED BY <1>1, <1>6, <1>7, <2>1 DEF Heard, Carried
<1> QED BY <1>16, <1>17
-----------------------------------------------------------------------------
(* The initial state, and all steps together.                              *)
LEMMA FlowInit == PairInit => Traffic /\ Heard
<1> SUFFICES ASSUME PairInit PROVE Traffic /\ Heard
  OBVIOUS
<1>1. /\ net = NoConnection /\ sock = [e \in Ends |-> Empty] /\ hs = [e \in Ends |-> 0]
      /\ wnum = [e \in Ends |-> 0] /\ sent = 0 /\ got = <<>> /\ conn.pc = "none" /\ writer \in Ends
  BY DEF PairInit, SocketsInit, ConnectInit
<1>2. /\ sock["client"].sd = NoFd /\ ~Dialing /\ net.answer = <<>> /\ Carried = 0
      /\ \A e \in Ends : net.pipe[e] = <<>> /\ hs[e] = 0
  BY <1>1, TwoEnds DEF Empty, NoConnection, Dialing, Carried
<1>3. Heard
  <2>1. got \in Seq(Int) /\ Len(got) = 0
    BY <1>1
  <2> QED BY <1>1, <1>2, <2>1 DEF Heard
<1>4. ASSUME NEW e \in Ends PROVE Underway(e, 0)
  <2>1. Place("client", 0) = 0 /\ Place("server", 0) = 0 /\ Peer(e) \in {"client", "server"}
    BY <1>2, TwoEnds DEF Place, Peer
  <2>2. Untaken(e, 0) = 0
    BY <2>1, TwoEnds DEF Untaken, SentBy
  <2>3. Undelivered(e) = 0 /\ Unread(e) = 0
    <3>1. Len(got) = 0
      BY <1>1
    <3>2. Undelivered(e) = 0
      BY <1>2, <3>1 DEF Undelivered
    <3> QED BY <1>2, <3>2 DEF Unread
  <2>4. Consists(net.pipe[e], net.answer, Len(got), 0, 0, 0, 0)
    BY <1>2, ConsistsOfNothing
  <2> QED BY <2>2, <2>3, <2>4 DEF Underway
<1>5. Reaches(0) /\ 0 \in 0 .. Len(Script)
  BY <1>2, ScriptIs DEF Reaches
<1> QED BY <1>3, <1>4, <1>5 DEF Traffic

LEMMA FlowStep == PairInv /\ [PairNext]_pairVars => Traffic' /\ Heard'
<1> SUFFICES ASSUME OwnInv, LinkInv, Traffic, Heard, [PairNext]_pairVars PROVE Traffic' /\ Heard'
  BY DEF PairInv
<1>1. ASSUME NEW e \in Ends, Call(e) PROVE Traffic' /\ Heard'
  <2>1. CASE Init_client \/ ConnectCall \/ Begin \/ Continue
    BY <2>1, InitClientFlow, ConnectCallFlow, BeginFlow, ContinueFlow
  <2>2. CASE Init_server \/ AcceptCall \/ CloseListener
    BY <2>2, InitServerFlow, AcceptFlow, CloseListenerFlow
  <2>3. CASE Handshake(e)
    BY <2>3, HandshakeFlow
  <2>4. CASE WriteCall(e)
    BY <2>4, WriteFlow
  <2>5. CASE ReadCall(e)
    BY <2>5, ReadFlow
  <2>6. CASE DeinitCall(e)
    BY <2>6, DeinitFlow
  <2> QED BY <1>1, <2>1, <2>2, <2>3, <2>4, <2>5, <2>6 DEF Call
<1>2. CASE ConnectDone \/ ConnectionLost
  BY <1>2, LostFlow
<1>3. CASE ProxyStep
  BY <1>3, ProxyFlow
<1>4. CASE Time
  BY <1>4, TimeFlow
<1>5. CASE UNCHANGED pairVars
  BY <1>5, StutterFlow
<1> QED BY <1>1, <1>2, <1>3, <1>4, <1>5 DEF PairNext

(* Along every behaviour what the two directions of the connection hold is *)
(* what was said and not yet heard: what is left of the proxy's answer,    *)
(* the segments of the handshake the peer has not taken, the bytes of the  *)
(* message that were not delivered, in order, and the close_notify; or the *)
(* connection broke and lost it.                                           *)
LEMMA PairInvInit == PairInit => PairInv
BY OwnInvInit, LinkInit, FlowInit DEF PairInv
LEMMA PairInvStep == PairInv /\ [PairNext]_pairVars => PairInv'
BY OwnInvStep, LinkStep, FlowStep DEF PairInv
THEOREM TrafficIsWhatWasSaid == PairSpec => []PairInv
BY PairInvInit, PairInvStep, PTL DEF PairSpec
-----------------------------------------------------------------------------
(* Two ends that wait on one live connection.  What an end waits for       *)
(* follows from where it is, and what it does not find from the kernel's   *)
(* buffers.                                                                *)
Waits(e) == /\ phase[e] \in {"handshake", "transfer"}
            /\ result[e] = "try_again" /\ ~Ready(e) /\ net.link = "up"
LEMMA WaitsFor ==
  ASSUME OwnInv, LinkInv, NEW e \in Ends, Waits(e)
  PROVE  /\ sock[e].sd # NoFd /\ ~net.fin[e] /\ hs[e] \in 0 .. 7 /\ phase[e] \in {"handshake", "transfer"}
         /\ phase[e] = "handshake" =>
              /\ tls /\ hs[e] \in 0 .. 6
              /\ sock[e].io_want = IF Script[hs[e] + 1] = e THEN "write" ELSE "read"
         /\ phase[e] = "transfer" => /\ tls => hs[e] = 7
                                     /\ sock[e].io_want = IF e = writer THEN "write" ELSE "read"
         /\ sock[e].io_want = "read" => net.pipe[Peer(e)] = <<>>
         /\ sock[e].io_want = "write" => net.pipe[e] # <<>>
         /\ sock[e].io_want \in {"read", "write"}
<1>1. /\ phase[e] \in {"handshake", "transfer"} /\ result[e] = "try_again" /\ ~Ready(e)
      /\ net.link = "up" /\ EndOK(e) /\ hs[e] \in 0 .. 7 /\ Len(Script) = 7 /\ Types
  BY ScriptIs DEF Waits, LinkInv, OwnInv, Types
<1>2. sock[e].sd # NoFd
  BY <1>1, TwoEnds DEF OwnInv, Ownership, ClientOwns, ServerOwns
<1>3. ~net.fin[e]
  BY <1>2 DEF LinkInv, LinkOK
<1>4. ~Blocking(e)
  BY <1>1 DEF EndOK, Ready
<1>5. phase[e] = "handshake" =>
        /\ tls /\ hs[e] \in 0 .. 6
        /\ sock[e].io_want = IF Script[hs[e] + 1] = e THEN "write" ELSE "read"
  <2>1. phase[e] = "handshake" =>
          /\ tls /\ hs[e] < Len(Script)
          /\ sock[e].io_want = IF Script[hs[e] + 1] = e THEN "write" ELSE "read"
    BY <1>1 DEF EndOK
  <2>2. hs[e] < Len(Script) => hs[e] \in 0 .. 6
    BY <1>1
  <2> QED BY <2>1, <2>2
<1>6. phase[e] = "transfer" => /\ tls => hs[e] = 7
                               /\ sock[e].io_want = IF e = writer THEN "write" ELSE "read"
  BY <1>1, <1>4 DEF EndOK
<1>7. sock[e].io_want \in {"read", "write"}
  BY <1>1, <1>5, <1>6
<1>8. sock[e].io_want = "read" => net.pipe[Peer(e)] = <<>>
  BY <1>1 DEF Ready, Readable, Inbox
<1>9. sock[e].io_want = "write" => net.pipe[e] # <<>>
  <2> SUFFICES ASSUME sock[e].io_want = "write" PROVE net.pipe[e] # <<>>
    OBVIOUS
  <2>1. ~(Room(e) > 0) /\ Room(e) = PipeRoom - Len(net.pipe[e])
    BY <1>1 DEF Ready, Writable, Room
  <2>2. net.pipe[e] = <<>> => Len(net.pipe[e]) = 0
    OBVIOUS
  <2> QED BY <2>1, <2>2, SocketAssumption
<1> QED BY <1>1, <1>2, <1>3, <1>5, <1>6, <1>7, <1>8, <1>9

(* On a live connection that neither end closed, a direction holds what is *)
(* left of the handshake and of the message.                               *)
LEMMA Holds ==
  ASSUME OwnInv, LinkInv, Traffic, Heard, NEW e \in Ends, net.link = "up",
         \A x \in Ends : sock[x].sd # NoFd /\ ~net.fin[x]
  PROVE  LET h == SentBy(e, hs[e]) - SentBy(e, hs[Peer(e)]) IN
         /\ h >= 0
         /\ net.pipe[e] = <<>> => h = 0
         /\ net.pipe[e] # <<>> => h > 0 \/ e = writer
         /\ net.pipe[e] # <<>> /\ h = 0 /\ tls => hs[e] = 7
<1>1. /\ Peer(e) \in Ends /\ e \in {"client", "server"} /\ Len(Script) = 7 /\ hs[e] \in 0 .. 7
      /\ hs[Peer(e)] \in 0 .. 7
  BY PeerOK, TwoEnds, ScriptIs DEF OwnInv, Types
<1>2. Listens(Peer(e))
  BY <1>1, TwoEnds DEF Listens
<1>3. PICK p \in 0 .. 7 : Reaches(p) /\ (Lost(e) \/ Underway(e, p))
  BY <1>1, <1>2 DEF Traffic
<1>4. p = hs["client"] /\ Place(e, p) = hs[e] /\ Place(Peer(e), p) = hs[Peer(e)]
  BY <1>1, <1>3, TwoEnds DEF Reaches, Place
<1>5. Unread(e) = 0 /\ Undelivered(e) \in Nat /\ (e # writer => Undelivered(e) = 0)
  BY <1>3, Bounds, DialingHasNone, TwoEnds
<1>6. Underway(e, p)
  BY <1>3 DEF Lost
<1> DEFINE h == SentBy(e, hs[e]) - SentBy(e, hs[Peer(e)])
<1>7. Untaken(e, p) = h /\ h >= 0
  BY <1>4, <1>6 DEF Untaken, Underway
<1>8. h \in Nat
  BY <1>1, <1>7, SentByOK
<1> HIDE DEF h
<1>9. Len(net.pipe[e]) = h + Undelivered(e)
  <2>1. PICK t \in 0 .. 1 :
          /\ Len(net.pipe[e]) = Unread(e) + Untaken(e, p) + Undelivered(e) + t
          /\ t = 1 => net.fin[e]
    BY <1>6 DEF Underway, Consists
  <2>2. t = 0
    BY <2>1
  <2> QED BY <1>5, <1>7, <1>8, <2>1, <2>2
<1>10. net.pipe[e] \in Seq(Int)
  BY DEF OwnInv, Types, NetOK, Connections
<1>11. net.pipe[e] = <<>> <=> Len(net.pipe[e]) = 0
  BY <1>10
<1>12. tls /\ Undelivered(e) > 0 => hs[e] = 7
  BY <1>1, <1>4, <1>6 DEF Underway
<1>13. /\ net.pipe[e] = <<>> => h = 0
       /\ net.pipe[e] # <<>> => h > 0 \/ Undelivered(e) > 0
       /\ net.pipe[e] # <<>> /\ h = 0 => Undelivered(e) > 0
  BY <1>5, <1>8, <1>9, <1>11
<1> QED BY <1>5, <1>7, <1>12, <1>13 DEF h

LEMMA NotBothWait == OwnInv /\ LinkInv /\ Traffic /\ Heard => NoMutualWait
<1> SUFFICES ASSUME OwnInv, LinkInv, Traffic, Heard, \A e \in Ends : Waits(e) PROVE FALSE
  BY DEF NoMutualWait, Waits
<1> DEFINE c == hs["client"]
           s == hs["server"]
<1>1. /\ net.link = "up" /\ c \in 0 .. 7 /\ s \in 0 .. 7
      /\ \A x \in Ends : sock[x].sd # NoFd /\ ~net.fin[x]
  BY WaitsFor, TwoEnds DEF Waits
<1>2. /\ SentBy("client", c) - SentBy("client", s) >= 0 /\ SentBy("server", s) - SentBy("server", c) >= 0
      /\ net.pipe["client"] = <<>> => SentBy("client", c) - SentBy("client", s) = 0
      /\ net.pipe["server"] = <<>> => SentBy("server", s) - SentBy("server", c) = 0
      /\ net.pipe["client"] # <<>> => SentBy("client", c) - SentBy("client", s) > 0 \/ "client" = writer
      /\ net.pipe["server"] # <<>> => SentBy("server", s) - SentBy("server", c) > 0 \/ "server" = writer
      /\ net.pipe["client"] # <<>> /\ SentBy("client", c) - SentBy("client", s) = 0 /\ tls => c = 7
      /\ net.pipe["server"] # <<>> /\ SentBy("server", s) - SentBy("server", c) = 0 /\ tls => s = 7
  BY <1>1, Holds, TwoEnds
<1>3. \A e \in Ends : SentBy(e, c) \in 0 .. 4 /\ SentBy(e, s) \in 0 .. 4
  BY <1>1, SentByOK
(* Both wait to read: neither has anything to take, so that both are at    *)
(* the same segment, which one of them has to send.                        *)
<1>4. CASE sock["client"].io_want = "read" /\ sock["server"].io_want = "read"
  <2>1. net.pipe["client"] = <<>> /\ net.pipe["server"] = <<>>
    BY <1>4, WaitsFor, TwoEnds
  <2>2. c = s
    <3>1. SentBy("client", c) = SentBy("client", s) /\ SentBy("server", c) = SentBy("server", s)
      BY <1>2, <1>3, <2>1, TwoEnds
    <3> QED BY <1>1, <3>1, SamePosition
  <2>3. CASE phase["client"] = "handshake"
    <3>1. phase["server"] = "handshake" /\ c \in 0 .. 6
      BY <2>2, <2>3, WaitsFor, TwoEnds
    <3>2. Script[c + 1] = "client" \/ Script[c + 1] = "server"
      BY <3>1, ScriptEnds, TwoEnds
    <3> QED BY <1>4, <2>2, <2>3, <3>1, <3>2, WaitsFor, TwoEnds
  <2>4. CASE phase["client"] = "transfer"
    <3>1. phase["server"] = "transfer"
      BY <2>2, <2>4, WaitsFor, TwoEnds
    <3>2. writer \in {"client", "server"}
      BY TwoEnds DEF OwnInv, Types
    <3> QED BY <1>4, <2>4, <3>1, <3>2, WaitsFor, TwoEnds
  <2> QED BY <2>3, <2>4, WaitsFor, TwoEnds
(* One waits to write into the pipe the other finds empty.                 *)
<1>5. CASE sock["client"].io_want # sock["server"].io_want
  BY <1>5, WaitsFor, TwoEnds
(* Both wait to write: each is ahead of the other in the handshake.        *)
<1>6. CASE sock["client"].io_want = "write" /\ sock["server"].io_want = "write"
  <2>1. net.pipe["client"] # <<>> /\ net.pipe["server"] # <<>>
    BY <1>6, WaitsFor, TwoEnds
  <2>2. ~(SentBy("client", c) - SentBy("client", s) > 0)
        \/ ~(SentBy("server", s) - SentBy("server", c) > 0)
    <3>1. c <= s => SentBy("client", c) <= SentBy("client", s)
      BY <1>1, SentByGrows, TwoEnds
    <3>2. s <= c => SentBy("server", s) <= SentBy("server", c)
      BY <1>1, SentByGrows, TwoEnds
    <3>3. c <= s \/ s <= c
      BY <1>1
    <3> QED BY <1>3, <3>1, <3>2, <3>3, TwoEnds
  <2>3. \/ writer = "client" /\ SentBy("client", c) - SentBy("client", s) = 0
        \/ writer = "server" /\ SentBy("server", s) - SentBy("server", c) = 0
    BY <1>2, <1>3, <2>1, <2>2, TwoEnds
  <2>4. CASE writer = "client" /\ SentBy("client", c) - SentBy("client", s) = 0
    <3>1. phase["server"] = "handshake" /\ tls /\ s # 7
      BY <1>6, <2>4, WaitsFor, TwoEnds
    <3>2. c = 7 /\ SentBy("server", s) - SentBy("server", c) > 0
      BY <1>2, <2>1, <2>4, <3>1, TwoEnds
    <3>3. SentBy("server", s) <= SentBy("server", 7)
      BY <1>1, SentByGrows, TwoEnds
    <3> QED BY <1>3, <3>2, <3>3, TwoEnds
  <2>5. CASE writer = "server" /\ SentBy("server", s) - SentBy("server", c) = 0
    <3>1. phase["client"] = "handshake" /\ tls /\ c # 7
      BY <1>6, <2>5, WaitsFor, TwoEnds
    <3>2. s = 7 /\ SentBy("client", c) - SentBy("client", s) > 0
      BY <1>2, <2>1, <2>5, <3>1, TwoEnds
    <3>3. SentBy("client", c) <= SentBy("client", 7)
      BY <1>1, SentByGrows, TwoEnds
    <3> QED BY <1>3, <3>2, <3>3, TwoEnds
  <2> QED BY <2>3, <2>4, <2>5
<1> QED BY <1>4, <1>5, <1>6, WaitsFor, TwoEnds

(* Two ends that both got try_again on one live connection never wait for  *)
(* each other: of what io_want names at the two ends one comes.            *)
THEOREM SomebodyGoesOn == PairSpec => []NoMutualWait
<1>1. PairInv => NoMutualWait
  BY NotBothWait DEF PairInv
<1> QED BY <1>1, TrafficIsWhatWasSaid, PTL
-----------------------------------------------------------------------------
(* The refinement.  A step other than a write or a read carries and        *)
(* delivers nothing, opens no closed end again, and no call but the read   *)
(* returns end_of_data.                                                    *)
Told == result[Peer(writer)] = "end_of_data"
Moot == /\ UNCHANGED <<sent, wnum, got, writer>>
        /\ \A e \in Ends : net.fin[e] => net'.fin[e]
        /\ \/ result' = result
           \/ \E e \in Ends : /\ phase[e] \notin {"deinit", "gone"}
                              /\ \E r \in Results \ {"end_of_data"} : Return(e, r)

LEMMA CutKeeps ==
  ASSUME OwnInv, LinkInv, NEW n \in Connections, Passes(n), net' = Cut(n),
         phase["client"] = "connect", conn.pc # "next"
  PROVE  \A e \in Ends : net.fin[e] => net'.fin[e]
<1>1. CASE Reached
  <2>1. net' = Hangup("client", n)
    BY <1>1 DEF Cut, Reached, Passes
  <2>2. HungUp("client", n, net')
    BY <2>1, HangsUp, TwoEnds
  <2> QED BY <2>2, TwoEnds DEF HungUp, Passes
<1>2. CASE ~Reached
  <2>1. ~net.fin["client"]
    BY TwoEnds DEF LinkInv, LinkOK
  <2>2. ~net.fin["server"]
    BY <1>2, TwoEnds DEF LinkInv, LinkOK
  <2> QED BY <2>1, <2>2, TwoEnds
<1> QED BY <1>1, <1>2

LEMMA UsableMoot ==
  ASSUME OwnInv, LinkInv, NEW c, NEW n, n.fin = net.fin, Usable(c, n), Unchanged, writer' = writer,
         phase["client"] = "connect", conn.pc # "next"
  PROVE  Moot
<1>1. UNCHANGED <<sent, wnum, got, writer>> /\ NetOK(net) /\ Passes(net)
  BY Connecting DEF Unchanged, Passes
<1>2. CASE Abandon
  <2>1. net' = Cut(net) /\ result' = result
    BY <1>2 DEF Abandon
  <2> QED BY <1>1, <2>1, CutKeeps DEF Moot, NetOK
<1>3. CASE ~Abandon
  <2>1. net' = n /\ (result' = result \/ Return("client", "ok"))
    BY <1>3 DEF Usable
  <2> QED BY <1>1, <2>1, TwoEnds DEF Moot, Results
<1> QED BY <1>2, <1>3

LEMMA SslConnectMoot ==
  ASSUME OwnInv, LinkInv, SslConnect, writer' = writer, phase["client"] = "connect"
  PROVE  Moot
<1>1. conn.pc = "tls" /\ UNCHANGED <<sent, wnum, got, writer>>
  BY DEF SslConnect, Unchanged
<1>2. sock["client"].sd # NoFd /\ Types
  BY <1>1 DEF OwnInv, Ownership, ClientOwns
<1>3. net.fin["server"] => Reached
  BY <1>2, TwoEnds, Actor DEF LinkInv
<1>4. PICK o \in Handshakes("client") :
        \/ Return("client", "ok") /\ net' = o.net
        \/ net' = o.net /\ result' = result
        \/ HandshakeFailed /\ net' = Cut(o.net)
  BY DEF SslConnect, Unchanged
<1>5. Passes(o.net) /\ o.net \in Connections
  BY <1>2, <1>3, TwoEnds, HandshakesPass, HandshakeOKs DEF NetOK
<1>6. CASE net' = o.net /\ (Return("client", "ok") \/ result' = result)
  BY <1>1, <1>5, <1>6, TwoEnds DEF Moot, Results, Passes
<1>7. CASE HandshakeFailed /\ net' = Cut(o.net)
  <2>1. result' = result
    BY <1>7 DEF HandshakeFailed
  <2> QED BY <1>1, <1>5, <1>7, <2>1, CutKeeps DEF Moot
<1> QED BY <1>4, <1>6, <1>7

LEMMA ConnectMoot == ASSUME OwnInv, LinkInv, ConnectCall PROVE Moot
<1>1. /\ phase["client"] = "connect" /\ Connect /\ writer' = writer /\ NetOK(net) /\ Passes(net)
      /\ Types /\ net \in Connections
  BY Connecting DEF ConnectCall, Then, Passes, OwnInv, NetOK
<1>2. CASE TimedOut
  <2>1. conn.pc # "next" /\ net' = Cut(net) /\ result' = result /\ UNCHANGED <<sent, wnum, got>>
    BY <1>2 DEF TimedOut, Polling, Abandon, Unchanged
  <2> QED BY <1>1, <2>1, CutKeeps DEF Moot
<1>3. CASE ConnectBegin \/ Exhausted
  <2>1. net' = net /\ UNCHANGED <<sent, wnum, got>>
    BY <1>3 DEF ConnectBegin, Exhausted, Unchanged
  <2>2. Return("client", "invalid_argument") \/ Return("client", "error") \/ Return("client", "busy")
    BY <1>3 DEF ConnectBegin, Exhausted, Unchanged
  <2> QED BY <1>1, <2>1, <2>2, TwoEnds DEF Moot, Results
<1>4. CASE Candidate
  <2>1. /\ conn.pc = "next" /\ result' = result /\ UNCHANGED <<sent, wnum, got>>
        /\ net' = net \/ \E h \in Hosts : net' = [NoConnection EXCEPT !.link = "progress", !.host = h]
    BY <1>4 DEF Candidate, Unchanged
  <2>2. CASE net' = net
    BY <1>1, <2>1, <2>2 DEF Moot
  <2>3. CASE \E h \in Hosts : net' = [NoConnection EXCEPT !.link = "progress", !.host = h]
    <3>1. Fresh
      BY <1>1, <2>1, <2>3 DEF Fresh, Hosts
    <3>2. net = NoConnection
      BY <3>1 DEF LinkInv, LinkOK
    <3>3. net'.fin = net.fin
      BY <2>3, <3>2 DEF NoConnection
    <3> QED BY <1>1, <2>1, <3>3 DEF Moot
  <2> QED BY <2>1, <2>2, <2>3
<1>5. CASE Connected
  <2>1. conn.pc = "connecting" /\ Unchanged
    BY <1>5 DEF Connected, Unchanged
  <2>2. UNCHANGED <<sent, wnum, got>>
    BY <2>1 DEF Unchanged
  <2>3. \/ Abandon
        \/ net' = Cut(net) /\ Return("client", "invalid_argument")
        \/ Usable([conn EXCEPT !.modes = Restored], net)
        \/ net' = net /\ result' = result
    BY <1>5 DEF Connected, Unchanged
  <2>4. CASE Abandon
    <3>1. net' = Cut(net) /\ result' = result
      BY <2>4 DEF Abandon
    <3> QED BY <1>1, <2>1, <2>2, <3>1, CutKeeps DEF Moot
  <2>5. CASE net' = Cut(net) /\ Return("client", "invalid_argument")
    BY <1>1, <2>1, <2>2, <2>5, CutKeeps, TwoEnds DEF Moot, Results
  <2>6. CASE Usable([conn EXCEPT !.modes = Restored], net)
    BY <1>1, <2>1, <2>6, UsableMoot
  <2>7. CASE net' = net /\ result' = result
    BY <1>1, <2>2, <2>7 DEF Moot
  <2> QED BY <2>3, <2>4, <2>5, <2>6, <2>7
<1>6. CASE Answer
  <2>1. conn.pc = "answer" /\ Unchanged
    BY <1>6 DEF Answer, Unchanged
  <2>2. UNCHANGED <<sent, wnum, got>>
    BY <2>1 DEF Unchanged
  <2>3. PICK q, k \in Nat : Hears(q, k)
    BY <1>1, <1>6, AnswerHears
  <2>4. Taken("client", k).fin = net.fin
    BY <1>1 DEF Taken, Connections
  <2>5. \/ Abandon
        \/ net' = Taken("client", k) /\ result' = result
        \/ Usable([conn EXCEPT !.answer = <<>>], Taken("client", k))
    BY <2>3 DEF Hears
  <2>6. CASE Abandon
    <3>1. net' = Cut(net) /\ result' = result
      BY <2>6 DEF Abandon
    <3> QED BY <1>1, <2>1, <2>2, <3>1, CutKeeps DEF Moot
  <2>7. CASE net' = Taken("client", k) /\ result' = result
    BY <1>1, <2>2, <2>4, <2>7 DEF Moot
  <2>8. CASE Usable([conn EXCEPT !.answer = <<>>], Taken("client", k))
    BY <1>1, <2>1, <2>4, <2>8, UsableMoot
  <2> QED BY <2>5, <2>6, <2>7, <2>8
<1>7. CASE SslConnect
  BY <1>1, <1>7, SslConnectMoot
<1> QED BY <1>1, <1>2, <1>3, <1>4, <1>5, <1>6, <1>7 DEF Connect
LEMMA InitMoot == ASSUME OwnInv, LinkInv, Init_client \/ Init_server \/ Begin \/ Continue PROVE Moot
<1>1. CASE Init_client
  <2>1. /\ UNCHANGED <<sent, wnum, got, writer, net>> /\ phase["client"] = "init"
        /\ Return("client", "ok") \/ Return("client", "error") \/ Return("client", "invalid_argument")
    BY <1>1 DEF Init_client, InitClient, Then
  <2> QED BY <2>1, TwoEnds DEF Moot, Results
<1>2. CASE Init_server
  <2>1. /\ UNCHANGED <<sent, wnum, got, writer, net>> /\ phase["server"] = "init"
        /\ Return("server", "ok") \/ Return("server", "error") \/ Return("server", "invalid_argument")
    BY <1>2 DEF Init_server, InitListener, Then
  <2> QED BY <2>1, TwoEnds DEF Moot, Results
<1>3. CASE Begin
  <2>1. /\ UNCHANGED <<sent, wnum, got, writer>> /\ phase["client"] = "begin"
        /\ Return("client", "ok") \/ Return("client", "error") \/ Return("client", "invalid_argument")
    <3>1. CASE proxied
      BY <1>3, <3>1 DEF Begin, At, ConnectNbRefused, Then
    <3>2. CASE ~proxied
      BY <1>3, <3>2 DEF Begin, At, ConnectNbBegin, Then
    <3> QED BY <3>1, <3>2
  <2>2. net' = net \/ \E l, b : net' = [net EXCEPT !.link = l, !.host = "server", !.backlog = b]
    <3>1. CASE proxied
      BY <1>3, <3>1 DEF Begin, ConnectNbRefused
    <3>2. CASE ~proxied
      BY <1>3, <3>2 DEF Begin, ConnectNbBegin
    <3> QED BY <3>1, <3>2
  <2>3. net'.fin = net.fin
    BY <2>2 DEF OwnInv, Types, NetOK, Connections
  <2> QED BY <2>1, <2>3, TwoEnds DEF Moot, Results
<1>4. CASE Continue
  <2>1. /\ UNCHANGED <<sent, wnum, got, writer, net>> /\ phase["client"] = "continue"
        /\ Return("client", "ok") \/ Return("client", "error")
    BY <1>4 DEF Continue, At, ConnectNbContinue, Prime, Then
  <2> QED BY <2>1, TwoEnds DEF Moot, Results
<1> QED BY <1>1, <1>2, <1>3, <1>4

LEMMA AcceptMoot == ASSUME OwnInv, LinkInv, AcceptCall PROVE Moot
<1>1. UNCHANGED <<wnum, sent, got, writer>> /\ net \in Connections /\ phase["server"] = "accept"
  BY DEF AcceptCall, Accept, SslAccept, SocketAcceptNb, OwnInv, Types, NetOK, Then
<1>2. PICK r, s : AcceptMoves(r, s)
  BY AcceptCallMoves
<1>3. \E x \in Ends : /\ phase[x] \notin {"deinit", "gone"}
                     /\ \E y \in Results \ {"end_of_data"} : Return(x, y)
  BY <1>1, <1>2, TwoEnds DEF AcceptMoves, Results
<1>4. Unclaimed \in Connections /\ Unclaimed.fin = net.fin
  BY <1>1 DEF Unclaimed, Connections
<1>5. \A e \in Ends : net.fin[e] => net'.fin[e]
  <2>1. CASE AcceptsNothing(r, s)
    BY <2>1 DEF AcceptsNothing
  <2>2. CASE AcceptsInVain(r, s)
    <3>1. HungUp("server", Unclaimed, net')
      BY <1>4, <2>2, HangsUp, TwoEnds DEF AcceptsInVain
    <3> QED BY <1>4, <3>1, TwoEnds DEF HungUp
  <2>3. CASE AcceptsOne(r, s)
    BY <1>4, <2>3 DEF AcceptsOne
  <2>4. ASSUME NEW o \in Handshakes("server"), AcceptsOn(r, s, o)
        PROVE  \A e \in Ends : net.fin[e] => net'.fin[e]
    <3>1. sock["server"].sd # NoFd /\ (net' = o.net \/ net' = Hangup("server", o.net))
      BY <2>4 DEF AcceptsOn
    <3>2. o.net \in Connections
      BY TwoEnds, HandshakeOKs DEF NetOK, OwnInv
    <3>3. o.net.fin = net.fin
      <4>1. net.fin[Peer("server")] => Reached
        BY <3>1, TwoEnds, Actor DEF LinkInv
      <4> QED BY <4>1, TwoEnds, HandshakesPass DEF Passes, OwnInv
    <3>4. CASE net' = Hangup("server", o.net)
      <4>1. HungUp("server", o.net, net')
        BY <3>2, <3>4, HangsUp, TwoEnds
      <4> QED BY <3>3, <4>1, TwoEnds DEF HungUp
    <3> QED BY <3>1, <3>3, <3>4
  <2> QED BY <1>2, <2>1, <2>2, <2>3, <2>4 DEF AcceptMoves
<1> QED BY <1>1, <1>3, <1>5 DEF Moot

LEMMA HandshakeMoot == ASSUME OwnInv, LinkInv, NEW e \in Ends, Handshake(e) PROVE Moot
<1>1. phase[e] = "handshake" /\ HandshakeNb(e) /\ UNCHANGED <<writer, wnum, sent, got>>
  BY DEF Handshake, At, HandshakeNb, Then
<1>2. sock[e].sd # NoFd /\ Types
  BY <1>1, TwoEnds DEF OwnInv, Ownership, ClientOwns, ServerOwns
<1>3. net.fin[Peer(e)] => Reached
  BY <1>2, Actor DEF LinkInv
<1>4. \/ net' = net /\ Return(e, "ok")
      \/ \E o \in Handshakes(e) : /\ net' = o.net
                                  /\ Return(e, "ok") \/ Return(e, "error") \/ Return(e, "try_again")
  BY <1>1 DEF HandshakeNb, TryAgain
<1>5. \A x \in Ends : net.fin[x] => net'.fin[x]
  BY <1>2, <1>3, <1>4, HandshakesPass DEF Passes
<1>6. Return(e, "ok") \/ Return(e, "error") \/ Return(e, "try_again")
  BY <1>4
<1> QED BY <1>1, <1>5, <1>6 DEF Moot, Results

LEMMA DeinitMoot == ASSUME OwnInv, LinkInv, NEW e \in Ends, DeinitCall(e) PROVE Moot
<1> DEFINE c == sock[e]
           n == IF c.backend /\ c.ssl THEN Shutdown(e, net) ELSE net
<1>1. /\ net' = (IF c.sd # NoFd THEN Hangup(e, n) ELSE n)
      /\ UNCHANGED <<wnum, sent, got, writer, result>> /\ net \in Connections
  BY DEF DeinitCall, Deinit, OwnInv, Types, NetOK
<1>2. n \in Connections /\ n.fin = net.fin
  <2>1. <<CloseNotify>> \in Seq(Int)
    BY SocketAssumption DEF CloseNotify
  <2>2. n = net \/ n = Sent(e, net, <<CloseNotify>>)
    BY <1>1, ShutdownIs
  <2> DEFINE m == Sent(e, net, <<CloseNotify>>)
  <2>3. m \in Connections /\ m.fin = net.fin
    BY <1>1, <2>1, SentIs
  <2> HIDE DEF n, m
  <2> QED BY <1>1, <2>2, <2>3 DEF m
<1> HIDE DEF n
<1>3. CASE net' = Hangup(e, n)
  <2>1. HungUp(e, n, net')
    BY <1>2, <1>3, HangsUp
  <2>2. \A x \in Ends : net.fin[x] => net'.fin[x]
    BY <1>2, <2>1, TwoEnds DEF HungUp
  <2> QED BY <1>1, <2>2 DEF Moot
<1> QED BY <1>1, <1>2, <1>3 DEF Moot

LEMMA KernelMoot ==
  ASSUME OwnInv, LinkInv,
         CloseListener \/ ConnectDone \/ ProxyStep \/ ConnectionLost \/ Time \/ UNCHANGED pairVars
  PROVE  Moot
<1>0. net \in Connections
  BY DEF OwnInv, Types, NetOK
<1>1. CASE CloseListener
  <2>1. /\ net' = (IF net.backlog THEN [net EXCEPT !.link = "reset", !.backlog = FALSE] ELSE net)
        /\ UNCHANGED <<wnum, sent, got, writer, result>>
    BY <1>1 DEF CloseListener, DeinitListener, appVars
  <2>2. net'.fin = net.fin
    BY <1>0, <2>1 DEF Connections
  <2> QED BY <2>1, <2>2 DEF Moot
<1>2. CASE ConnectDone \/ ProxyStep \/ ConnectionLost
  <2>1. UNCHANGED <<wnum, sent, got, writer, result>>
    BY <1>2 DEF ConnectDone, ProxyStep, ConnectionLost, Kernel, appVars
  <2>2. net'.fin = net.fin
    <3>1. CASE ConnectDone
      BY <1>0, <3>1 DEF ConnectDone, ConnectEnds, Connections
    <3>2. CASE ProxyStep
      <4>1. ProxyAnswers
        BY <3>2 DEF ProxyStep
      <4>2. PICK a \in Answers :
              LET said  == Append(net.answer, a[Len(net.answer) + 1])
                  grant == said = <<Granted>> \o Terminator /\ Listening IN
              /\ Len(net.answer) < Len(a) /\ said = SubSeq(a, 1, Len(said))
              /\ net' = [net EXCEPT !.pipe["server"] = Append(@, Last(said)), !.answer = said,
                                    !.host = IF grant THEN "server" ELSE @, !.backlog = grant]
        BY <4>1, Zenon DEF ProxyAnswers
      <4> DEFINE said == Append(net.answer, a[Len(net.answer) + 1])
                 grant == said = <<Granted>> \o Terminator /\ Listening
                 q == [net.pipe EXCEPT !["server"] = Append(@, Last(said))]
      <4>3. net' = [net EXCEPT !.pipe = q, !.answer = said,
                               !.host = IF grant THEN "server" ELSE @, !.backlog = grant]
        BY <4>2
      <4> HIDE DEF said, grant, q
      <4> QED BY <1>0, <4>3 DEF Connections
    <3>3. CASE ConnectionLost
      BY <1>0, <3>3 DEF ConnectionLost, Breaks, Loses, Connections
    <3> QED BY <1>2, <3>1, <3>2, <3>3
  <2> QED BY <2>1, <2>2 DEF Moot
<1>3. CASE Time
  <2>1. UNCHANGED <<wnum, sent, got, writer, result, net>>
    BY <1>3 DEF Time, Clock, Tick, Interrupted, Waiting, Unchanged, appVars
  <2> QED BY <2>1 DEF Moot
<1>4. CASE UNCHANGED pairVars
  <2>1. UNCHANGED <<wnum, sent, got, writer, result, net>>
    BY <1>4 DEF pairVars, vars, connectVars, appVars
  <2> QED BY <2>1 DEF Moot
<1> QED BY <1>1, <1>2, <1>3, <1>4
(* What such a step is to the stream: the writer's close, or nothing.      *)
StreamStep == Str!Next \/ UNCHANGED Str!vars
LEMMA MootStep == ASSUME OwnInv, OwnInv', LinkInv, LinkInv', Moot, Told' <=> Told PROVE StreamStep
<1>1. /\ UNCHANGED <<sent, wnum, got, writer>> /\ writer \in Ends
      /\ net.fin[writer] \in BOOLEAN /\ net'.fin[writer] \in BOOLEAN
      /\ net.fin[writer] => net'.fin[writer]
  BY DEF Moot, OwnInv, Types, NetOK, Connections
<1>2. UNCHANGED <<sent + wnum[writer], got>>
  BY <1>1
<1>3. (result[Peer(writer)] = "end_of_data")' = (result[Peer(writer)] = "end_of_data")
  BY DEF Told
<1>4. CASE net'.fin[writer] = net.fin[writer]
  BY <1>1, <1>2, <1>3, <1>4 DEF StreamStep, Str!vars
<1>5. CASE ~net.fin[writer] /\ net'.fin[writer]
  BY <1>1, <1>2, <1>3, <1>5 DEF StreamStep, Str!Next, Str!Close
<1> QED BY <1>1, <1>4, <1>5

LEMMA CallIsMoot == ASSUME OwnInv, OwnInv', LinkInv, LinkInv', Moot PROVE StreamStep
<1>1. writer' = writer /\ Peer(writer) \in Ends /\ result \in [Ends -> Results]
  BY PeerOK DEF Moot, OwnInv, Types
<1>2. CASE UNCHANGED result
  BY <1>1, <1>2, MootStep DEF Told
<1>3. ASSUME NEW e \in Ends, phase[e] \notin {"deinit", "gone"},
             NEW r \in Results \ {"end_of_data"}, Return(e, r)
      PROVE  StreamStep
  <2>1. result[e] # "end_of_data"
    BY <1>3 DEF LinkInv, EndOK
  <2>2. result'[e] = r /\ \A x \in Ends : x # e => result'[x] = result[x]
    BY <1>1, <1>3 DEF Return
  <2>3. Told' <=> Told
    BY <1>1, <1>3, <2>1, <2>2 DEF Told
  <2> QED BY <2>3, MootStep
<1> QED BY <1>2, <1>3 DEF Moot
(* A write carries what it sent, whether it reports it or not.             *)
LEMMA WriteCarries == ASSUME OwnInv, OwnInv', LinkInv, LinkInv', NEW e \in Ends, WriteCall(e) PROVE StreamStep
<1>1. /\ phase[e] = "transfer" /\ e = writer /\ UNCHANGED <<got, writer>>
      /\ net \in Connections /\ wnum \in [Ends -> 0 .. MessageLen] /\ result \in [Ends -> Results]
      /\ Types /\ Peer(e) \in Ends /\ Peer(e) # e
  BY PeerOK DEF WriteCall, At, Write, WriteNb, Then, OwnInv, Types, NetOK
<1>2. sock[e].sd # NoFd /\ ~net.fin[e]
  BY <1>1, TwoEnds, Actor DEF OwnInv, Ownership, ClientOwns, ServerOwns, LinkInv
<1>3. PICK j, w \in Nat : Says(e, j, w)
  BY WriteSays
<1>4. net'.fin = net.fin
  <2>1. Bytes(Carried, j) \in Seq(Int)
    <3>1. Carried \in Nat
      BY <1>1, SocketAssumption DEF Types, Carried
    <3> QED BY <3>1 DEF Bytes
  <2>2. Sent(e, net, Bytes(Carried, j)).fin = net.fin
    BY <1>1, <2>1, SentIs
  <2> QED BY <1>3, <2>2 DEF Says
<1>5. sent' + wnum'[writer] = sent + wnum[writer] + j
  BY <1>1, <1>3 DEF Says, Carried
<1>6. \E r : Return(e, r)
  <2>1. CASE Blocking(e)
    <3>1. Return(e, "ok") \/ Return(e, "error") \/ Return(e, "busy")
      BY <2>1 DEF WriteCall, Write
    <3> QED BY <3>1
  <2>2. CASE ~Blocking(e)
    <3>1. Return(e, "ok") \/ Return(e, "error") \/ Return(e, "try_again")
      <4>1. CASE tls
        BY <2>2, <4>1 DEF WriteCall, WriteNb, WriteNbTls, TryAgain
      <4>2. CASE ~tls
        BY <2>2, <4>2 DEF WriteCall, WriteNb, WriteNbPlain, TryAgain
      <4> QED BY <4>1, <4>2
    <3> QED BY <3>1
  <2> QED BY <2>1, <2>2
<1>7. result'[Peer(writer)] = result[Peer(writer)]
  BY <1>1, <1>6 DEF Return
<1>8. sent + wnum[writer] \in Nat
  BY <1>1, SocketAssumption DEF Types
<1>9. CASE j = 0
  <2>1. sent' + wnum'[writer] = sent + wnum[writer]
    BY <1>5, <1>8, <1>9
  <2> QED BY <1>1, <1>4, <1>7, <2>1 DEF StreamStep, Str!vars
<1>10. CASE j > 0
  <2>1. sent' + wnum'[writer] > sent + wnum[writer]
    BY <1>5, <1>8, <1>10
  <2> QED BY <1>1, <1>2, <1>4, <1>7, <2>1 DEF StreamStep, Str!Next, Str!Write
<1> QED BY <1>3, <1>9, <1>10

(* A read delivers the next byte, or is told of the end when it has all.   *)
LEMMA ReadDelivers ==
  ASSUME PairInv, OwnInv', LinkInv', NEW e \in Ends, ReadCall(e) PROVE StreamStep
<1>0. OwnInv /\ LinkInv /\ Traffic /\ Heard
  BY DEF PairInv
<1>1. /\ phase[e] = "transfer" /\ e # writer /\ UNCHANGED <<sent, wnum, writer>>
      /\ net \in Connections /\ result \in [Ends -> Results] /\ Types /\ WriteOK
      /\ Peer(writer) = e /\ Peer(e) = writer /\ writer \in Ends /\ got \in Seq(Int)
      /\ net.fin \in [Ends -> BOOLEAN]
  BY <1>0, TwoEnds DEF ReadCall, At, Read, ReadNb, Then, OwnInv, Types, NetOK, Connections, Heard
<1>2. ~Told
  BY <1>0, <1>1 DEF LinkInv, EndOK, Told
<1>3. /\ Len(got) \in Nat /\ Carried \in Nat
      /\ Inbox(e) # <<>> =>
           \/ Len(got) < Carried /\ Head(Inbox(e)) = Len(got) + 1
           \/ Len(got) = Carried /\ tls /\ net.fin[writer] /\ Head(Inbox(e)) = CloseNotify
      /\ Inbox(e) = <<>> /\ net.link # "reset" => Len(got) = Carried
  BY <1>0, <1>1, ReaderGets
<1>4. PICK r : Return(e, r) /\ Gets(e, r)
  BY <1>0, ReadGets
<1>5. result'[Peer(writer)] = r
  BY <1>1, <1>4 DEF Return
<1>6. CASE r \in {"error", "try_again"}
  <2>1. UNCHANGED <<net, got>>
    BY <1>4, <1>6 DEF Gets
  <2> QED BY <1>1, <1>2, <1>5, <1>6, <2>1 DEF StreamStep, Str!vars, Told
<1>7. CASE r = "ok"
  <2>1. /\ Inbox(e) # <<>> /\ net' = Taken(e, 1) /\ got' = got \o <<Head(Inbox(e))>>
        /\ tls => Head(Inbox(e)) # CloseNotify
    BY <1>4, <1>7 DEF Gets
  <2>2. Len(got) < Carried /\ Head(Inbox(e)) = Len(got) + 1
    BY <1>3, <2>1
  <2>3. got' = Append(got, Len(got) + 1)
    BY <1>1, <2>1, <2>2
  <2>4. net'.fin = net.fin
    BY <1>1, <2>1 DEF Taken, Connections
  <2> QED BY <1>1, <1>2, <1>5, <1>7, <2>2, <2>3, <2>4
          DEF StreamStep, Str!Next, Str!Deliver, Told, Carried
<1>8. CASE r = "end_of_data"
  <2>1. /\ UNCHANGED <<net, got>>
        /\ \/ tls /\ Inbox(e) # <<>> /\ Head(Inbox(e)) = CloseNotify
           \/ ~tls /\ Inbox(e) = <<>> /\ Drained(e) = "eof"
    BY <1>4, <1>8 DEF Gets
  <2>2. Len(got) = Carried /\ net.fin[writer]
    <3>1. CASE tls /\ Inbox(e) # <<>> /\ Head(Inbox(e)) = CloseNotify
      <4>1. Carried <= MessageLen
        BY <1>1, SocketAssumption DEF WriteOK, Types, Carried
      <4>2. ~(Len(got) < Carried /\ Head(Inbox(e)) = Len(got) + 1)
        BY <1>3, <3>1, <4>1, SocketAssumption DEF CloseNotify
      <4> QED BY <1>3, <3>1, <4>2
    <3>2. CASE ~tls /\ Inbox(e) = <<>> /\ Drained(e) = "eof"
      BY <1>1, <1>3, <3>2 DEF Drained, Dead
    <3> QED BY <2>1, <3>1, <3>2
  <2> QED BY <1>1, <1>2, <1>5, <1>8, <2>1, <2>2 DEF StreamStep, Str!Next, Str!End, Told, Carried
<1> QED BY <1>4, <1>6, <1>7, <1>8 DEF Gets

LEMMA EveryStep == PairInv /\ PairInv' /\ [PairNext]_pairVars => StreamStep
<1> SUFFICES ASSUME PairInv, PairInv', [PairNext]_pairVars PROVE StreamStep
  OBVIOUS
<1>0. OwnInv /\ LinkInv /\ OwnInv' /\ LinkInv'
  BY DEF PairInv
<1>1. ASSUME NEW e \in Ends, Call(e) PROVE StreamStep
  <2>1. CASE Init_client \/ Init_server \/ Begin \/ Continue
    BY <1>0, <2>1, InitMoot, CallIsMoot
  <2>2. CASE ConnectCall
    BY <1>0, <2>2, ConnectMoot, CallIsMoot
  <2>3. CASE AcceptCall
    BY <1>0, <2>3, AcceptMoot, CallIsMoot
  <2>4. CASE CloseListener
    BY <1>0, <2>4, KernelMoot, CallIsMoot
  <2>5. CASE Handshake(e)
    BY <1>0, <2>5, HandshakeMoot, CallIsMoot
  <2>6. CASE DeinitCall(e)
    BY <1>0, <2>6, DeinitMoot, CallIsMoot
  <2>7. CASE WriteCall(e)
    BY <1>0, <2>7, WriteCarries
  <2>8. CASE ReadCall(e)
    BY <1>0, <2>8, ReadDelivers
  <2> QED BY <1>1, <2>1, <2>2, <2>3, <2>4, <2>5, <2>6, <2>7, <2>8 DEF Call
<1>2. CASE ConnectDone \/ ProxyStep \/ ConnectionLost \/ Time \/ UNCHANGED pairVars
  BY <1>0, <1>2, KernelMoot, CallIsMoot
<1> QED BY <1>1, <1>2 DEF PairNext

(* The two sockets are a reliable stream: whatever is written in parts,    *)
(* retried, preceded by a proxy's answer or wrapped in TLS comes out in    *)
(* order and once, and end_of_data is returned only after all of it.       *)
THEOREM SocketsImplementStream == PairSpec => ImplementsStream
<1>1. PairInit => Str!Init
  <2> SUFFICES ASSUME PairInit PROVE Str!Init
    OBVIOUS
  <2>1. /\ wnum[writer] = 0 /\ sent = 0 /\ got = <<>> /\ result[Peer(writer)] = "ok"
    BY PeerOK DEF PairInit, SocketsInit
  <2>2. net.fin[writer] = FALSE
    BY DEF PairInit, SocketsInit, NoConnection
  <2> QED BY <2>1, <2>2 DEF Str!Init
<1>2. PairInv /\ PairInv' /\ [PairNext]_pairVars => [Str!Next]_Str!vars
  BY EveryStep DEF StreamStep
<1> QED BY <1>1, <1>2, TrafficIsWhatWasSaid, PTL DEF PairSpec, Str!Spec, ImplementsStream
=============================================================================

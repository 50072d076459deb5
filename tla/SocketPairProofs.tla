--------------------------- MODULE SocketPairProofs ---------------------------
(***************************************************************************)
(* The proofs about SocketPair.  First what the kernel's and OpenSSL's     *)
(* calls keep to, then one lemma per operation for what the process owns   *)
(* and what a socket_connect is at.                                        *)
(***************************************************************************)
EXTENDS SocketPairInv, FiniteSetTheorems, SequenceTheorems, TLAPS

(* A set of naturals that is not empty has a least element.                *)
LEMMA Least ==
  ASSUME NEW T \in SUBSET Nat, T # {}
  PROVE  Min(T) \in T /\ \A y \in T : Min(T) <= y
<1>1. PICK x \in T : \A y \in T : ~ (<<y, x>> \in OpToRel(<, Nat))
  BY NatLessThanWellFounded, WFMin
<1>2. \A y \in T : ~ (y < x)
  BY <1>1 DEF OpToRel
<1>3. \A y \in T : x <= y
  BY <1>2
<1> QED BY <1>3 DEF Min

LEMMA MinOfTwo ==
  ASSUME NEW a \in Nat, NEW b \in Nat
  PROVE  Min({a, b}) \in {a, b} /\ Min({a, b}) <= a /\ Min({a, b}) <= b
BY Least, {a, b} \in SUBSET Nat, {a, b} # {}

(* Where two descriptors are open a third one is free.                     *)
LEMMA Free ==
  ASSUME NEW S, NEW x, NEW y, S \subseteq {x, y}
  PROVE  LowestFree(S) \in Fds \ S /\ LowestFree(S) # NoFd
<1>1. {0, 1, 2} \subseteq Fds /\ Fds \subseteq Nat
  BY SocketAssumption DEF Fds
<1>2. Fds \ S \in SUBSET Nat /\ Fds \ S # {}
  <2>1. 0 \notin S \/ 1 \notin S \/ 2 \notin S
    OBVIOUS
  <2> QED BY <1>1, <2>1
<1>3. Min(Fds \ S) \in Fds \ S
  BY <1>2, Least
<1> QED BY <1>1, <1>3 DEF LowestFree, NoFd

(* The next segment of the script that e sends, or the script's end.       *)
LEMMA Turn ==
  ASSUME NEW e \in Ends, NEW p \in 0 .. Len(Script)
  PROVE  /\ NextOf(e, p) \in p .. Len(Script)
         /\ NextOf(e, p) = Len(Script) \/ Script[NextOf(e, p) + 1] = e
         /\ \A q \in p .. Len(Script) : q < NextOf(e, p) => Script[q + 1] # e
<1>1. Len(Script) = 7
  BY DEF Script
<1> DEFINE T == {q \in p .. Len(Script) : q = Len(Script) \/ Script[q + 1] = e}
<1>2. T \in SUBSET Nat /\ Len(Script) \in T
  BY <1>1
<1>3. Min(T) \in T /\ \A y \in T : Min(T) <= y
  BY <1>2, Least
<1>4. NextOf(e, p) = Min(T)
  BY DEF NextOf
<1>5. \A q \in p .. Len(Script) : q < Min(T) => q \notin T
  BY <1>1, <1>3
<1> QED BY <1>1, <1>3, <1>4, <1>5
-----------------------------------------------------------------------------
(* The kernel's calls.                                                     *)

LEMMA PeerOK == \A e \in Ends : Peer(e) \in Ends /\ Peer(e) # e /\ Peer(Peer(e)) = e
BY DEF Ends, Peer

LEMMA RoomOK ==
  ASSUME Types, NEW e \in Ends
  PROVE  /\ Room(e) \in 0 .. PipeRoom
         /\ Room(e) > 0 => net.link = "up" /\ Room(e) = PipeRoom - Len(net.pipe[e])
BY SocketAssumption DEF Types, NetOK, Connections, Room

LEMMA SentOK ==
  ASSUME NEW n, NetOK(n), NEW e \in Ends, NEW segments \in Seq(Int),
         n.fin[Peer(e)] \/ Len(n.pipe[e]) + Len(segments) <= PipeRoom
  PROVE  NetOK(Sent(e, n, segments))
<1>1. n.pipe[e] \in Seq(Int) /\ n.pipe[e] \o segments \in Seq(Int)
      /\ Len(n.pipe[e] \o segments) = Len(n.pipe[e]) + Len(segments)
  BY DEF NetOK, Connections
<1> QED BY <1>1 DEF NetOK, Connections, Sent

LEMMA TakenOK ==
  ASSUME Types, NEW e \in Ends, NEW k \in Nat, k <= Len(Inbox(e))
  PROVE  /\ NetOK(Taken(e, k))
         /\ Taken(e, k).fin = net.fin /\ Taken(e, k).link = net.link
         /\ Taken(e, k).pipe[e] = net.pipe[e]
<1> DEFINE P == net.pipe[Peer(e)]
<1>1. P \in Seq(Int) /\ Len(P) <= PipeRoom /\ k <= Len(P) /\ Peer(e) \in Ends /\ Peer(e) # e
  BY PeerOK DEF Types, NetOK, Connections, Inbox
<1>2. SubSeq(P, k + 1, Len(P)) \in Seq(Int) /\ Len(SubSeq(P, k + 1, Len(P))) = Len(P) - k
  BY <1>1
<1> DEFINE Q == [net.pipe EXCEPT ![Peer(e)] = SubSeq(P, k + 1, Len(P))]
<1>3. net \in Connections /\ Taken(e, k) = [net EXCEPT !.pipe = Q]
  BY DEF Taken, Types, NetOK, Connections
<1> HIDE DEF P
<1>4. net.pipe \in [Ends -> Seq(Int)] /\ \A f \in Ends : Len(net.pipe[f]) <= PipeRoom
  BY DEF Types, NetOK, Connections
<1>5. /\ Q \in [Ends -> Seq(Int)] /\ Q[Peer(e)] = SubSeq(P, k + 1, Len(P))
      /\ \A f \in Ends : f # Peer(e) => Q[f] = net.pipe[f]
  BY <1>1, <1>2, <1>4
<1>6. Len(SubSeq(P, k + 1, Len(P))) <= PipeRoom
  BY <1>1, <1>2, SocketAssumption
<1>7. \A f \in Ends : Len(Q[f]) <= PipeRoom
  BY <1>4, <1>5, <1>6
<1> HIDE DEF Q
<1> QED BY <1>1, <1>3, <1>5, <1>7 DEF NetOK, Connections

LEMMA HangupOK ==
  ASSUME NEW n, NetOK(n), NEW e \in Ends
  PROVE  NetOK(Hangup(e, n))
BY DEF NetOK, Connections, Hangup

LEMMA ShutdownOK ==
  ASSUME NEW n, NetOK(n), NEW e \in Ends
  PROVE  NetOK(Shutdown(e, n))
<1>1. <<CloseNotify>> \in Seq(Int) /\ Len(<<CloseNotify>>) = 1
  BY SocketAssumption DEF CloseNotify
<1>2. Len(n.pipe[e]) \in Nat /\ PipeRoom \in Nat
  BY SocketAssumption DEF NetOK, Connections
<1>3. ASSUME Len(n.pipe[e]) < PipeRoom PROVE NetOK(Sent(e, n, <<CloseNotify>>))
  <2>1. Len(n.pipe[e]) + Len(<<CloseNotify>>) <= PipeRoom
    BY <1>1, <1>2, <1>3
  <2> QED BY <1>1, <2>1, SentOK
<1> QED BY <1>3 DEF Shutdown

LEMMA SendsOK ==
  ASSUME Types, NEW e \in Ends, NEW data \in Seq(Int), NEW s \in Sends(e, data)
  PROVE  /\ s.out \in {"error", "again", "sent"} /\ s.n \in 0 .. Len(data)
         /\ s.out = "sent" => s.n > 0
         /\ s.out # "sent" => s.n = 0 /\ s.net = net
         /\ NetOK(s.net)
<1> DEFINE k == IF net.fin[Peer(e)] THEN Len(data) ELSE Min({Len(data), Room(e)})
<1>1. Room(e) \in Nat /\ Len(data) \in Nat
  BY RoomOK, SocketAssumption
<1>2. k \in 0 .. Len(data) /\ (net.fin[Peer(e)] \/ k <= Room(e))
  BY <1>1, MinOfTwo
<1>5. s = IF Dead THEN [out |-> "error", n |-> 0, net |-> net]
          ELSE IF k = 0 THEN [out |-> "again", n |-> 0, net |-> net]
          ELSE [out |-> "sent", n |-> k, net |-> Sent(e, net, SubSeq(data, 1, k))]
  BY DEF Sends
<1> HIDE DEF k
<1>3. SubSeq(data, 1, k) \in Seq(Int) /\ Len(SubSeq(data, 1, k)) = k
  BY <1>2
<1>4. k > 0 => NetOK(Sent(e, net, SubSeq(data, 1, k)))
  <2>1. NetOK(net) /\ Len(net.pipe[e]) \in Nat /\ PipeRoom \in Nat
    BY SocketAssumption DEF Types, NetOK, Connections
  <2>2. k > 0 => net.fin[Peer(e)] \/ Len(net.pipe[e]) + k <= PipeRoom
    BY <1>2, <2>1, RoomOK, SMTT(20)
  <2> QED BY <1>3, <2>1, <2>2, SentOK
<1> QED BY <1>2, <1>4, <1>5 DEF Types

LEMMA ReceivesOK ==
  ASSUME Types, NEW e \in Ends, NEW r \in Receives(e)
  PROVE  /\ r.out \in {"error", "eof", "again", "data"} /\ r.data \in Seq(Int) /\ NetOK(r.net)
         /\ r.out = "data" =>
              /\ Inbox(e) # <<>> /\ r.data = <<Head(Inbox(e))>> /\ r.net = Taken(e, 1)
         /\ r.out # "data" =>
              /\ Inbox(e) = <<>> /\ r.data = <<>> /\ r.net = net /\ r.out = Drained(e)
<1>1. Inbox(e) \in Seq(Int)
  BY PeerOK DEF Types, NetOK, Connections, Inbox
<1>2. CASE Inbox(e) = <<>>
  <2>1. r = [out |-> Drained(e), data |-> <<>>, net |-> net]
    BY <1>2 DEF Receives
  <2>2. Drained(e) \in {"error", "eof", "again"}
    BY DEF Drained
  <2> QED BY <1>2, <2>1, <2>2 DEF Types
<1>3. CASE Inbox(e) # <<>>
  <2>1. r = [out |-> "data", data |-> <<Head(Inbox(e))>>, net |-> Taken(e, 1)]
    BY <1>3 DEF Receives
  <2>2. Len(Inbox(e)) >= 1 /\ Head(Inbox(e)) \in Int
    BY <1>1, <1>3
  <2> QED BY <1>3, <2>1, <2>2, TakenOK
<1> QED BY <1>2, <1>3

LEMMA SslReadsOK ==
  ASSUME Types, NEW e \in Ends, NEW r \in SslReads(e)
  PROVE  /\ r.out \in {"error", "zero_return", "want_read", "data"}
         /\ r.data \in Seq(Int) /\ NetOK(r.net)
         /\ r.out = "data" =>
              /\ Inbox(e) # <<>> /\ r.data = <<Head(Inbox(e))>> /\ r.net = Taken(e, 1)
              /\ Head(Inbox(e)) # CloseNotify
         /\ r.out # "data" => r.data = <<>> /\ r.net = net
         /\ r.out = "zero_return" => Inbox(e) # <<>> /\ Head(Inbox(e)) = CloseNotify
         /\ r.out = "want_read" => Inbox(e) = <<>> /\ Drained(e) = "again"
<1>1. PICK x \in Receives(e) :
        r = CASE x.out = "data" /\ Head(x.data) = CloseNotify ->
                   [out |-> "zero_return", data |-> <<>>, net |-> net]
              [] x.out = "again" -> [x EXCEPT !.out = "want_read"]
              [] x.out = "eof" -> [x EXCEPT !.out = "error"]
              [] OTHER -> x
  BY DEF SslReads
<1>2. /\ x.out \in {"error", "eof", "again", "data"} /\ x.data \in Seq(Int) /\ NetOK(x.net)
      /\ x.out = "data" =>
           /\ Inbox(e) # <<>> /\ x.data = <<Head(Inbox(e))>> /\ x.net = Taken(e, 1)
      /\ x.out # "data" =>
           /\ Inbox(e) = <<>> /\ x.data = <<>> /\ x.net = net /\ x.out = Drained(e)
  BY ReceivesOK
<1>3. x \in [out : {"error", "eof", "again", "data"}, data : {x.data}, net : {x.net}]
  BY DEF Receives, Drained
<1> QED BY <1>1, <1>2, <1>3 DEF Types
(* A handshake takes t segments, up to the next one the end itself has to  *)
(* send, and, once it has them all, sends k.                               *)
Hellos(k) == [i \in 1 .. k |-> HelloSegment]
Exchanges(e, o, r, w, t, k) ==
  /\ r = NextOf(e, hs[e]) /\ w = NextOf(Peer(e), r)
  /\ r \in hs[e] .. Len(Script) /\ w \in r .. Len(Script)
  /\ t <= r - hs[e] /\ t <= Len(Inbox(e)) /\ (t < r - hs[e] => t = Len(Inbox(e)))
  /\ k <= w - r /\ (net.fin[Peer(e)] \/ k <= Room(e)) /\ (k > 0 => t = r - hs[e])
  /\ o.hs = hs[e] + t + k
  /\ o.net = IF k = 0 THEN Taken(e, t) ELSE Sent(e, Taken(e, t), Hellos(k))
  /\ o.out \in {"want_read", "want_write", "done", "fail"}
  /\ o.out = "want_read" =>
       \/ t < r - hs[e] /\ k = 0
       \/ t = r - hs[e] /\ k = w - r /\ w < Len(Script)
  /\ o.out = "want_write" => t = r - hs[e] /\ k < w - r
  /\ o.out = "done" => o.hs = Len(Script)

LEMMA HandshakeExchanges ==
  ASSUME Types, NEW e \in Ends, NEW o \in Handshakes(e)
  PROVE  \E r, w, t, k \in Nat : Exchanges(e, o, r, w, t, k)
<1> DEFINE r == NextOf(e, hs[e])
           w == NextOf(Peer(e), r)
           t == Min({r - hs[e], Len(Inbox(e))})
           after == Taken(e, t)
           k == IF after.fin[Peer(e)] THEN w - r ELSE Min({w - r, Room(e)})
           moved == Sent(e, after, Hellos(k))
           stop(out, p, n) == [out |-> out, hs |-> p, net |-> n]
<1>1. Len(Script) = 7 /\ hs[e] \in 0 .. 7 /\ Peer(e) \in Ends /\ Peer(e) # e
  BY PeerOK DEF Script, Types
<1>2. r \in hs[e] .. 7 /\ (r = 7 \/ Script[r + 1] = e)
  BY <1>1, Turn
<1>3. w \in r .. 7 /\ (w = 7 \/ Script[w + 1] = Peer(e))
  BY <1>1, <1>2, Turn
<1>4. w = r => r = 7
  BY <1>1, <1>2, <1>3
<1>5. Inbox(e) \in Seq(Int) /\ Len(Inbox(e)) \in Nat
  BY <1>1 DEF Types, NetOK, Connections, Inbox
<1>r. r = NextOf(e, hs[e]) /\ w = NextOf(Peer(e), r)
  OBVIOUS
<1> HIDE DEF r, w
<1>n. r \in Nat /\ w \in Nat /\ hs[e] \in Nat /\ w <= 7 /\ hs[e] <= r /\ r <= w
  BY <1>1, <1>2, <1>3
<1>6. r - hs[e] \in Nat /\ w - r \in Nat
  BY <1>1, <1>2, <1>3
<1>7. t \in Nat /\ t <= r - hs[e] /\ t <= Len(Inbox(e)) /\ (t < r - hs[e] => t = Len(Inbox(e)))
  BY <1>5, <1>6, MinOfTwo
<1> HIDE DEF t
<1>8. NetOK(after) /\ after.fin = net.fin /\ after.link = net.link
  BY <1>5, <1>7, TakenOK
<1> HIDE DEF after
<1>9. Room(e) \in Nat
  BY RoomOK, SocketAssumption
<1>10. k \in Nat /\ k <= w - r /\ (net.fin[Peer(e)] \/ k <= Room(e))
       /\ (net.fin[Peer(e)] => k = w - r)
  BY <1>6, <1>8, <1>9, MinOfTwo
<1> HIDE DEF k
<1>11. k = 0 /\ w > r => moved = after
  <2> SUFFICES ASSUME k = 0, w > r PROVE moved = after
    OBVIOUS
  <2>1. ~after.fin[Peer(e)]
    BY <1>2, <1>3, <1>8, <1>10
  <2>2. after.pipe[e] \o Hellos(0) = after.pipe[e]
    BY <1>8 DEF Hellos, NetOK, Connections
  <2> QED BY <1>8, <2>1, <2>2 DEF Sent, NetOK, Connections
<1> HIDE DEF moved
<1>12. o \in (IF hs[e] + t < r
              THEN {stop(IF Drained(e) = "again" THEN "want_read" ELSE "fail", hs[e] + t, after)}
              ELSE (IF t > 0 THEN {stop("fail", r, after)} ELSE {})
                   \cup
                   {IF w > r /\ Dead THEN stop("fail", r, after)
                    ELSE IF r + k < w THEN stop("want_write", r + k, moved)
                    ELSE IF w = Len(Script) THEN stop("done", w, IF k > 0 THEN moved ELSE after)
                    ELSE stop("want_read", w, moved)})
  BY DEF Handshakes, r, w, t, after, k, moved, Hellos
<1>13. CASE hs[e] + t < r
  <2>1. o.hs = hs[e] + t /\ o.net = after /\ o.out \in {"want_read", "fail"}
    BY <1>12, <1>13
  <2>2. t < r - hs[e] /\ 0 <= w - r /\ 0 <= Room(e) /\ o.hs = hs[e] + t + 0
        /\ o.net = Taken(e, t)
    BY <1>n, <1>7, <1>9, <1>13, <2>1 DEF after
  <2>3. Exchanges(e, o, r, w, t, 0)
    BY <1>1, <1>r, <1>2, <1>3, <1>7, <2>1, <2>2 DEF Exchanges
  <2> QED BY <1>n, <1>7, <2>3
<1>14. CASE ~(hs[e] + t < r)
  <2>0. hs[e] + t = r
    BY <1>1, <1>2, <1>7, <1>14, SMTT(20)
  <2>1. CASE o = stop("fail", r, after)
    <3>1. 0 <= w - r /\ 0 <= Room(e) /\ o.hs = hs[e] + t + 0 /\ o.net = Taken(e, t)
          /\ o.out = "fail"
      BY <1>n, <1>7, <1>9, <2>0, <2>1 DEF after
    <3>2. Exchanges(e, o, r, w, t, 0)
      BY <1>1, <1>r, <1>2, <1>3, <1>7, <3>1 DEF Exchanges
    <3> QED BY <1>n, <1>7, <3>2
  <2>2. CASE o = IF r + k < w THEN stop("want_write", r + k, moved)
                 ELSE IF w = Len(Script) THEN stop("done", w, IF k > 0 THEN moved ELSE after)
                 ELSE stop("want_read", w, moved)
    <3>0. r \in Nat /\ w \in Nat /\ r + k <= w /\ Len(Script) = 7 /\ w <= 7
      BY <1>1, <1>2, <1>3, <1>10
    <3>1. /\ o.hs = r + k /\ o.net = (IF k = 0 THEN after ELSE moved)
          /\ o.out = (IF r + k < w THEN "want_write" ELSE IF w = 7 THEN "done" ELSE "want_read")
      <4>1. CASE r + k < w
        <5>1. o = [out |-> "want_write", hs |-> r + k, net |-> moved]
          BY <2>2, <4>1
        <5>2. k = 0 => moved = after
          BY <1>11, <3>0, <4>1
        <5> QED BY <4>1, <5>1, <5>2
      <4>2. CASE r + k = w /\ w = 7
        <5>1. o = [out |-> "done", hs |-> w, net |-> IF k > 0 THEN moved ELSE after]
          BY <2>2, <3>0, <4>2
        <5> QED BY <1>10, <4>2, <5>1
      <4>3. CASE r + k = w /\ w # 7
        <5>1. o = [out |-> "want_read", hs |-> w, net |-> moved]
          BY <2>2, <3>0, <4>3
        <5>2. k # 0
          BY <1>4, <3>0, <4>3
        <5>3. o.hs = r + k /\ o.net = moved /\ o.out = "want_read" /\ ~(r + k < w)
          BY <3>0, <4>3, <5>1
        <5> QED BY <4>3, <5>2, <5>3
      <4> QED BY <1>10, <3>0, <4>1, <4>2, <4>3
    <3>2. /\ t = r - hs[e] /\ o.hs = hs[e] + t + k
          /\ o.out \in {"want_read", "want_write", "done", "fail"}
          /\ o.out = "want_read" => k = w - r /\ w < 7
          /\ o.out = "want_write" => k < w - r
          /\ o.out = "done" => o.hs = 7
      BY <1>n, <1>7, <1>10, <2>0, <3>0, <3>1
    <3>3. o.net = IF k = 0 THEN Taken(e, t) ELSE Sent(e, Taken(e, t), Hellos(k))
      BY <3>1 DEF after, moved
    <3>4. Exchanges(e, o, r, w, t, k)
      BY <1>1, <1>r, <1>2, <1>3, <1>7, <1>10, <3>2, <3>3 DEF Exchanges
    <3> QED BY <1>n, <1>7, <1>10, <3>4
  <2> QED BY <1>12, <1>14, <2>1, <2>2
<1> QED BY <1>13, <1>14

LEMMA HandshakeOKs ==
  ASSUME Types, NEW e \in Ends, NEW o \in Handshakes(e)
  PROVE  /\ o.hs \in 0 .. Len(Script) /\ NetOK(o.net)
         /\ o.out \in {"want_read", "want_write", "done", "fail"}
<1>1. Len(Script) = 7 /\ hs[e] \in 0 .. 7 /\ Peer(e) \in Ends
  BY PeerOK DEF Script, Types
<1>2. PICK r, w, t, k \in Nat : Exchanges(e, o, r, w, t, k)
  BY HandshakeExchanges
<1>3. NetOK(Taken(e, t)) /\ Taken(e, t).fin = net.fin /\ Taken(e, t).pipe[e] = net.pipe[e]
  BY <1>2, TakenOK DEF Exchanges
<1>4. Hellos(k) \in Seq(Int) /\ Len(Hellos(k)) = k
  BY DEF Hellos, HelloSegment
<1>5. k > 0 => NetOK(Sent(e, Taken(e, t), Hellos(k)))
  <2> SUFFICES ASSUME k > 0 PROVE NetOK(Sent(e, Taken(e, t), Hellos(k)))
    OBVIOUS
  <2>1. net.fin[Peer(e)] \/ k <= Room(e)
    BY <1>2 DEF Exchanges
  <2>2. net.fin[Peer(e)] \/ Len(net.pipe[e]) + k <= PipeRoom
    BY <2>1, RoomOK, SocketAssumption, SMTT(20) DEF Types, NetOK, Connections
  <2> QED BY <1>3, <1>4, <2>2, SentOK
<1>6. o.hs \in 0 .. 7
  <2>1. /\ r \in hs[e] .. 7 /\ w \in r .. 7 /\ t <= r - hs[e] /\ k <= w - r
        /\ k > 0 => t = r - hs[e]
        /\ o.hs = hs[e] + t + k
    BY <1>1, <1>2 DEF Exchanges
  <2>2. hs[e] \in Nat /\ r \in Nat /\ w \in Nat /\ t \in Nat /\ k \in Nat /\ r <= w /\ w <= 7
    BY <1>1, <1>2, <2>1
  <2>3. hs[e] + t + k \in Nat /\ hs[e] + t + k <= 7
    BY <2>1, <2>2
  <2> QED BY <2>1, <2>3
<1> QED BY <1>1, <1>2, <1>3, <1>5, <1>6 DEF Exchanges

(* What SSL_write reports and keeps for the repeated call.                 *)
LEMMA SslWritesOK ==
  ASSUME Types, NEW e \in Ends, NEW data \in Seq(Int), wnum[e] <= Len(data),
         NEW s \in SslWrites(e, data)
  PROVE  /\ s.out \in {"error", "sent", "want_write"} /\ NetOK(s.net)
         /\ s.out = "error" => s.n = 0 /\ s.wnum = wnum[e] /\ s.net = net
         /\ s.out = "sent" => s.n = Len(data) /\ s.wnum = 0
         /\ s.out = "want_write" => s.n = 0 /\ s.wnum \in wnum[e] .. Len(data)
         /\ \E x \in Sends(e, SubSeq(data, wnum[e] + 1, Len(data))) :
              /\ s.net = x.net
              /\ s.out = "error" <=> x.out = "error"
              /\ s.out = "sent" => Len(data) = wnum[e] + x.n
              /\ s.out = "want_write" => s.wnum = wnum[e] + x.n
<1> DEFINE part == SubSeq(data, wnum[e] + 1, Len(data))
<1>1. wnum[e] \in Nat /\ Len(data) \in Nat
  BY DEF Types
<1>2. part \in Seq(Int) /\ Len(part) = Len(data) - wnum[e]
  <2>1. \A i \in wnum[e] + 1 .. Len(data) : data[i] \in Int
    BY <1>1, ElementOfSeq
  <2>2. /\ part \in Seq(Int)
        /\ Len(part) = IF wnum[e] + 1 <= Len(data) THEN Len(data) - (wnum[e] + 1) + 1 ELSE 0
    BY <1>1, <2>1, SubSeqProperties
  <2> QED BY <1>1, <2>2
<1>3. PICK x \in Sends(e, part) :
        s = IF x.out = "error" THEN [out |-> "error", n |-> 0, wnum |-> wnum[e], net |-> net]
            ELSE IF wnum[e] + x.n = Len(data)
                 THEN [out |-> "sent", n |-> Len(data), wnum |-> 0, net |-> x.net]
                 ELSE [out |-> "want_write", n |-> 0, wnum |-> wnum[e] + x.n, net |-> x.net]
  BY DEF SslWrites
<1>4. /\ x.out \in {"error", "again", "sent"} /\ x.n \in 0 .. Len(part)
      /\ x.out # "sent" => x.n = 0 /\ x.net = net
      /\ NetOK(x.net)
  <2> HIDE DEF part
  <2> QED BY <1>2, SendsOK
<1> HIDE DEF part
<1>5. wnum[e] + x.n \in wnum[e] .. Len(data)
  BY <1>1, <1>2, <1>4
<1>6. CASE x.out = "error"
  BY <1>3, <1>4, <1>6 DEF Types, part
<1>7. CASE x.out # "error" /\ wnum[e] + x.n = Len(data)
  BY <1>3, <1>4, <1>7 DEF Types, part
<1>8. CASE x.out # "error" /\ wnum[e] + x.n # Len(data)
  BY <1>3, <1>4, <1>5, <1>8 DEF Types, part
<1> QED BY <1>6, <1>7, <1>8
-----------------------------------------------------------------------------
(* Steps.  What a call returns moves its application on.                   *)
LEMMA ThenFacts ==
  ASSUME Types, NEW e \in Ends, NEW next \in Phases, NEW r \in Results,
         Return(e, r), Then(e, next)
  PROVE  /\ result' \in [Ends -> Results] /\ phase' \in [Ends -> Phases]
         /\ result'[e] = r
         /\ phase'[e] = IF r = "ok" THEN next
                        ELSE IF r \in {"try_again", "busy"} THEN phase[e] ELSE "deinit"
         /\ result'[Peer(e)] = result[Peer(e)] /\ phase'[Peer(e)] = phase[Peer(e)]
         /\ api' = api /\ writer' = writer
<1>1. result \in [Ends -> Results] /\ phase \in [Ends -> Phases]
      /\ Peer(e) \in Ends /\ Peer(e) # e
  BY PeerOK DEF Types
<1>2. result' = [result EXCEPT ![e] = r]
  BY DEF Return
<1>3. result' \in [Ends -> Results] /\ result'[e] = r /\ result'[Peer(e)] = result[Peer(e)]
  BY <1>1, <1>2
<1>4. phase' = [phase EXCEPT ![e] = IF r = "ok" THEN next
                                    ELSE IF r \in {"try_again", "busy"} THEN phase[e]
                                    ELSE "deinit"]
  BY <1>3 DEF Then
<1>5. phase'[e] = (IF r = "ok" THEN next
                   ELSE IF r \in {"try_again", "busy"} THEN phase[e] ELSE "deinit")
      /\ phase'[Peer(e)] = phase[Peer(e)]
  BY <1>1, <1>4
<1>6. phase' \in [Ends -> Phases]
  BY <1>1, <1>4 DEF Phases
<1> QED BY <1>3, <1>5, <1>6 DEF Then

(* What an end owns is not disturbed by a step of the other.               *)
LEMMA ClientStays ==
  ASSUME ClientOwns, phase'["client"] = phase["client"], result'["client"] = result["client"],
         sock'["client"] = sock["client"], conn' = conn, tls' = tls
  PROVE  ClientOwns'
BY DEF ClientOwns, Vacant

LEMMA ServerStays ==
  ASSUME ServerOwns, phase'["server"] = phase["server"], result'["server"] = result["server"],
         sock'["server"] = sock["server"], listener' = listener, tls' = tls, api' = api
  PROVE  ServerOwns'
BY DEF ServerOwns, Vacant, Blocking

(* Nothing changes hands.                                                  *)
LEMMA OwnersStay ==
  ASSUME Distinct, Accounted,
         \A e \in Ends : /\ sock'[e].sd = sock[e].sd /\ sock'[e].backend = sock[e].backend
                         /\ sock'[e].ssl = sock[e].ssl,
         listener' = listener, conn'.sockfd = conn.sockfd, open' = open, heap' = heap
  PROVE  Distinct' /\ Accounted'
BY DEF Distinct, Accounted, Ends

(* Outside socket_connect nothing of its state changes.                    *)
LEMMA ConnectStays ==
  ASSUME ConnectOK, conn' = conn, timed' = timed, api' = api,
         phase'["client"] = "transfer" => phase["client"] = "transfer" \/ ~Blocking("client"),
         phase'["client"] = "connect" => phase["client"] = "connect" \/ Blocking("client"),
         \A e \in Ends : phase'[e] \in {"begin", "continue", "handshake"} => ~Blocking(e)
  PROVE  ConnectOK'
BY DEF ConnectOK, HandedOnBlocking, SplitTerminatorFound, Blocking, Modes

LEMMA TypesStay ==
  ASSUME Types, sock' \in [Ends -> Sockets], listener' \in Listeners, NetOK(net'),
         hs' \in [Ends -> 0 .. Len(Script)], wnum' \in [Ends -> 0 .. MessageLen],
         sent' \in 0 .. MessageLen, conn' \in Calls,
         phase' \in [Ends -> Phases], result' \in [Ends -> Results],
         UNCHANGED <<tls, timed, proxied, api, writer>>
  PROVE  Types'
BY DEF Types, NetOK

LEMMA WriteStays ==
  ASSUME WriteOK, UNCHANGED <<tls, sent, wnum, writer, api>>
  PROVE  WriteOK'
BY DEF WriteOK, Blocking

LEMMA InitClientStep == OwnInv /\ Init_client => OwnInv'
<1> SUFFICES ASSUME OwnInv, Init_client PROVE OwnInv'
  OBVIOUS
<1> USE DEF OwnInv, Ownership
<1>0. "client" \in Ends /\ "server" \in Ends /\ Peer("client") = "server"
      /\ Ends = {"client", "server"}
  BY DEF Ends, Peer
<1>1. /\ phase["client"] = "init" /\ Vacant(sock["client"]) /\ conn.pc = "none"
      /\ UNCHANGED <<tls, listener, open, net, hs, wnum, sent, got, timed, proxied, conn>>
  BY DEF Init_client, InitClient, Quiet, connectVars, ClientOwns
<1>2. PICK r \in {"ok", "error", "invalid_argument"}, b \in BOOLEAN :
        /\ Return("client", r) /\ (b => tls) /\ (r = "ok" => b = tls)
        /\ sock' = [sock EXCEPT !["client"].backend = b]
        /\ heap' = [heap EXCEPT !.backend = @ + One(b)]
  <2>1. /\ sock = [sock EXCEPT !["client"].backend = FALSE]
        /\ heap = [heap EXCEPT !.backend = @ + One(FALSE)]
    BY <1>0, <1>1 DEF Types, Sockets, Vacant, Accounted, One
  <2>2. tls \in BOOLEAN /\ One(TRUE) = 1
    BY DEF Types, One
  <2> QED BY <2>1, <2>2 DEF Init_client, InitClient
<1>3. PICK next \in {"connect", "begin"} :
        Then("client", next) /\ (next = "connect" <=> Blocking("client"))
  BY DEF Init_client
<1>4. /\ result' \in [Ends -> Results] /\ phase' \in [Ends -> Phases]
      /\ phase'["client"] = (IF r = "ok" THEN next ELSE "deinit")
      /\ result'["client"] = r
      /\ result'["server"] = result["server"] /\ phase'["server"] = phase["server"]
      /\ api' = api /\ writer' = writer
  BY <1>0, <1>2, <1>3, ThenFacts DEF Results, Phases
<1>5. /\ sock' \in [Ends -> Sockets] /\ sock'["server"] = sock["server"]
      /\ sock'["client"] = [sock["client"] EXCEPT !.backend = b]
  BY <1>0, <1>2 DEF Types, Sockets
<1>6. Types'
  BY <1>1, <1>4, <1>5, TypesStay DEF Types
<1>7. WriteOK'
  BY <1>1, <1>4, WriteStays
<1>8. ClientOwns'
  BY <1>0, <1>1, <1>2, <1>3, <1>4, <1>5 DEF ClientOwns, Vacant, Types, Sockets
<1>9. ServerOwns'
  BY <1>1, <1>4, <1>5, ServerStays
<1>10. Distinct' /\ Accounted'
  BY <1>0, <1>1, <1>2, <1>5 DEF Distinct, Accounted, Vacant, Types, Sockets, One
<1>11. ConnectOK'
  BY <1>0, <1>1, <1>3, <1>4, ConnectStays DEF ConnectOK
<1> QED BY <1>6, <1>7, <1>8, <1>9, <1>10, <1>11
LEMMA InitServerStep == OwnInv /\ Init_server => OwnInv'
<1> SUFFICES ASSUME OwnInv, Init_server PROVE OwnInv'
  OBVIOUS
<1> USE DEF OwnInv, Ownership
<1>0. "client" \in Ends /\ "server" \in Ends /\ Peer("server") = "client"
      /\ Ends = {"client", "server"}
  BY DEF Ends, Peer
<1>1. /\ phase["server"] = "init" /\ Vacant(sock["server"])
      /\ listener = [sd |-> NoFd, backend |-> FALSE]
      /\ UNCHANGED <<tls, sock, net, hs, wnum, sent, got, timed, proxied, conn>>
  BY DEF Init_server, InitListener, Quiet, connectVars, ServerOwns
<1>2. open \subseteq {sock["client"].sd, conn.sockfd}
  BY <1>1 DEF Accounted, Vacant
<1>3. LowestFree(open) \in Fds \ open /\ LowestFree(open) # NoFd
  BY <1>2, Free
<1>4. PICK r \in {"ok", "error", "invalid_argument"}, b \in BOOLEAN, f \in {NoFd, LowestFree(open)} :
        /\ Return("server", r)
        /\ listener' = [sd |-> f, backend |-> b]
        /\ heap' = [heap EXCEPT !.backend = @ + One(b)]
        /\ open' = open \cup ({f} \ {NoFd})
  <2>1. heap = [heap EXCEPT !.backend = @ + One(FALSE)] /\ open = open \cup ({NoFd} \ {NoFd})
    BY <1>0, <1>1 DEF Types, Sockets, Accounted, One
  <2>2. tls \in BOOLEAN /\ One(TRUE) = 1 /\ Opened(open) = open \cup ({LowestFree(open)} \ {NoFd})
    BY <1>3 DEF Types, One, Opened
  <2>3. Init_server => InitListener("server")
    BY DEF Init_server
  <2>4. \/ Return("server", "invalid_argument") /\ UNCHANGED <<listener, heap, open>>
        \/ Return("server", "error") /\ UNCHANGED <<listener, heap, open>>
        \/ /\ listener' = [sd |-> NoFd, backend |-> tls]
           /\ heap' = IF tls THEN [heap EXCEPT !.backend = @ + 1] ELSE heap
           /\ Return("server", "error") /\ UNCHANGED open
        \/ /\ listener' = [sd |-> LowestFree(open), backend |-> tls]
           /\ heap' = IF tls THEN [heap EXCEPT !.backend = @ + 1] ELSE heap
           /\ open' = Opened(open)
           /\ Return("server", "ok") \/ Return("server", "error")
    BY <2>3 DEF InitListener
  <2>5. (IF tls THEN [heap EXCEPT !.backend = @ + 1] ELSE heap)
          = [heap EXCEPT !.backend = @ + One(tls)]
    BY <2>1, <2>2
  <2> QED BY <1>1, <2>1, <2>2, <2>4, <2>5
<1>5. Then("server", "accept")
  BY DEF Init_server
<1>6. /\ result' \in [Ends -> Results] /\ phase' \in [Ends -> Phases]
      /\ phase'["server"] = (IF r = "ok" THEN "accept" ELSE "deinit")
      /\ result'["server"] = r
      /\ result'["client"] = result["client"] /\ phase'["client"] = phase["client"]
      /\ api' = api /\ writer' = writer
  BY <1>0, <1>4, <1>5, ThenFacts DEF Results, Phases
<1>7. Types'
  <2>1. listener' \in Listeners
    BY <1>3, <1>4 DEF Listeners
  <2> QED BY <1>1, <1>6, <2>1, TypesStay DEF Types
<1>8. WriteOK'
  BY <1>1, <1>6, WriteStays
<1>9. ClientOwns'
  BY <1>0, <1>1, <1>6, ClientStays
<1>10. ServerOwns'
  BY <1>0, <1>1, <1>4, <1>6 DEF ServerOwns, Vacant
<1>11. Distinct'
  BY <1>0, <1>1, <1>3, <1>4 DEF Distinct, Accounted, Vacant
<1>12. Accounted'
  BY <1>0, <1>1, <1>3, <1>4 DEF Accounted, Vacant, One
<1>13. ConnectOK'
  BY <1>0, <1>1, <1>6, ConnectStays DEF ConnectOK
<1> QED BY <1>7, <1>8, <1>9, <1>10, <1>11, <1>12, <1>13

(* The loop over the addresses of socket_connect_nb_begin holds at most    *)
(* one descriptor, the one it hands to the socket.                         *)
LEMMA TriedOK ==
  ASSUME LowestFree(open) \notin open, LowestFree(open) # NoFd,
         NEW k \in Nat, NEW outcomes \in [1 .. k -> Outcomes]
  PROVE  \/ Tried(outcomes) = [open |-> open, sd |-> NoFd, progress |-> FALSE]
         \/ \E b \in BOOLEAN :
              Tried(outcomes) = [open |-> Opened(open), sd |-> LowestFree(open), progress |-> b]
<1> DEFINE begin == [open |-> open, sd |-> NoFd, progress |-> FALSE]
           with(b) == [open |-> Opened(open), sd |-> LowestFree(open), progress |-> b]
           Good == {begin, with(TRUE), with(FALSE)}
           Def(f, n) == f = [i \in 0 .. n |-> IF i = 0 THEN begin
                                              ELSE TryCandidate(f[i - 1], outcomes[i])]
<1>1. Len(outcomes) = k
  <2>1. outcomes \in Seq(Outcomes)
    BY SeqDef
  <2> QED BY <2>1
<1>2. \A a \in Good : \A o : TryCandidate(a, o) \in Good
  <2> SUFFICES ASSUME NEW a \in Good, NEW o PROVE TryCandidate(a, o) \in Good
    OBVIOUS
  <2>1. Closed(Opened(open), LowestFree(open)) = open
    BY DEF Closed, Opened
  <2>2. CASE a = begin
    <3>1. TryCandidate(begin, o) \in {begin, [begin EXCEPT !.open = open],
             [begin EXCEPT !.open = Opened(open), !.sd = LowestFree(open),
                           !.progress = (o = "progress")]}
      BY <2>1 DEF TryCandidate, GiveUp
    <3> QED BY <2>2, <3>1
  <2>3. CASE a # begin
    BY <2>3 DEF TryCandidate
  <2> QED BY <2>2, <2>3
<1>3. \A n \in Nat : \E f : Def(f, n)
  <2> SUFFICES ASSUME {n \in Nat : ~ \E f : Def(f, n)} # {} PROVE FALSE
    OBVIOUS
  <2>1. PICK m \in Nat : /\ ~ \E f : Def(f, m)
                         /\ \A n \in Nat : n < m => \E f : Def(f, n)
    <3> HIDE DEF Def
    <3> DEFINE T == {n \in Nat : ~ \E f : Def(f, n)}
    <3>1. PICK m \in T : \A y \in T : m <= y
      <4>1. T \in SUBSET Nat /\ T # {}
        OBVIOUS
      <4> HIDE DEF T
      <4> QED BY <4>1, Least
    <3>2. m \in Nat /\ ~ \E f : Def(f, m)
      BY <3>1
    <3>3. ASSUME NEW n \in Nat, n < m PROVE \E f : Def(f, n)
      <4>1. n \notin T
        <5> HIDE DEF T
        <5> QED BY <3>1, <3>2, <3>3
      <4> QED BY <4>1
    <3> QED BY <3>2, <3>3
  <2>2. CASE m = 0
    <3>1. Def([i \in 0 .. 0 |-> begin], 0)
      OBVIOUS
    <3> QED BY <2>1, <2>2, <3>1
  <2>3. CASE m # 0
    <3>1. m - 1 \in Nat /\ m - 1 < m
      BY <2>3
    <3>2. PICK g : Def(g, m - 1)
      BY <2>1, <3>1
    <3> DEFINE f == [i \in 0 .. m |-> IF i < m THEN g[i] ELSE TryCandidate(g[m - 1], outcomes[m])]
    <3>3. ASSUME NEW i \in 0 .. m
          PROVE  f[i] = IF i = 0 THEN begin ELSE TryCandidate(f[i - 1], outcomes[i])
      <4> HIDE DEF begin
      <4>1. CASE i < m
        BY <3>1, <3>2, <4>1
      <4>2. CASE i = m
        BY <2>3, <3>1, <4>2
      <4> QED BY <4>1, <4>2
    <3>4. Def(f, m)
      <4> HIDE DEF begin
      <4> QED BY <3>3
    <3> QED BY <2>1, <3>4
  <2> QED BY <2>2, <2>3
<1>4. PICK f : Def(f, k) /\ Tried(outcomes) = f[k]
  <2> DEFINE g == CHOOSE f : Def(f, k)
  <2>1. Def(g, k)
    <3> HIDE DEF Def
    <3> QED BY <1>3
  <2>2. Tried(outcomes) = g[k]
    BY <1>1 DEF Tried
  <2> HIDE DEF g
  <2> QED BY <2>1, <2>2
<1>5. \A i \in 0 .. k : f[i] \in Good
  <2> SUFFICES ASSUME {i \in 0 .. k : f[i] \notin Good} # {} PROVE FALSE
    OBVIOUS
  <2> HIDE DEF Good
  <2> DEFINE T == {i \in 0 .. k : f[i] \notin Good}
  <2>1. Min(T) \in T /\ \A y \in T : Min(T) <= y
    BY Least, SMTT(20)
  <2>2. PICK m \in 0 .. k : f[m] \notin Good /\ \A i \in 0 .. k : i < m => f[i] \in Good
    BY <2>1
  <2>3. f[m] = IF m = 0 THEN begin ELSE TryCandidate(f[m - 1], outcomes[m])
    <3> HIDE DEF begin
    <3> QED BY <1>4
  <2>4. begin \in Good
    BY DEF Good
  <2>5. m # 0 => f[m - 1] \in Good
    BY <2>2
  <2> QED BY <1>2, <2>2, <2>3, <2>4, <2>5
<1>6. f[k] \in Good
  BY <1>5
<1> QED BY <1>4, <1>6
LEMMA BeginStep == OwnInv /\ Begin => OwnInv'
<1> SUFFICES ASSUME OwnInv, Begin PROVE OwnInv'
  OBVIOUS
<1> USE DEF OwnInv, Ownership
<1>0. "client" \in Ends /\ "server" \in Ends /\ Peer("client") = "server"
      /\ Ends = {"client", "server"}
  BY DEF Ends, Peer
<1>1. /\ phase["client"] = "begin" /\ sock["client"].sd = NoFd /\ ~sock["client"].ssl
      /\ sock["client"].backend = tls /\ conn.pc = "none" /\ conn.sockfd = NoFd
      /\ UNCHANGED <<tls, listener, heap, hs, wnum, sent, got, timed, proxied, conn>>
  BY DEF Begin, At, ConnectNbRefused, ConnectNbBegin, Quiet, connectVars, ClientOwns
<1>2. open \subseteq {sock["server"].sd, listener.sd}
  BY <1>1 DEF Accounted
<1>3. LowestFree(open) \in Fds \ open /\ LowestFree(open) # NoFd
  BY <1>2, Free
<1>4. PICK r \in {"ok", "error", "invalid_argument"}, f \in {NoFd, LowestFree(open)} :
        /\ Return("client", r)
        /\ sock'["server"] = sock["server"] /\ sock' \in [Ends -> Sockets]
        /\ sock'["client"].sd = f /\ ~sock'["client"].ssl /\ sock'["client"].backend = tls
        /\ (r = "ok" => f # NoFd)
        /\ NetOK(net')
        /\ open' = open \cup ({f} \ {NoFd})
  <2>1. CASE proxied
    <3>1. Return("client", "invalid_argument") /\ sock' = sock /\ open' = open /\ net' = net
      BY <2>1 DEF Begin, ConnectNbRefused
    <3> QED BY <1>1, <3>1 DEF Types
  <2>2. CASE ~proxied
    <3>0. PICK k \in 0 .. MaxCandidates : \E outcomes \in [1 .. k -> Outcomes] :
            /\ open' = Tried(outcomes).open
            /\ IF Tried(outcomes).sd = NoFd
               THEN Return("client", "error") /\ UNCHANGED <<sock, net>>
               ELSE /\ sock' = [sock EXCEPT !["client"].sd = Tried(outcomes).sd,
                                            !["client"].tcp_connected = ~Tried(outcomes).progress,
                                            !["client"].io_want =
                                              IF Tried(outcomes).progress THEN "write" ELSE "none"]
                    /\ net' = [net EXCEPT !.link = IF Tried(outcomes).progress THEN "progress" ELSE "up",
                                          !.host = "server", !.backlog = ~Tried(outcomes).progress]
                    /\ Return("client", "ok")
      BY <2>2 DEF Begin, ConnectNbBegin
    <3>1. PICK outcomes \in [1 .. k -> Outcomes] :
            /\ open' = Tried(outcomes).open
            /\ IF Tried(outcomes).sd = NoFd
               THEN Return("client", "error") /\ UNCHANGED <<sock, net>>
               ELSE /\ sock' = [sock EXCEPT !["client"].sd = Tried(outcomes).sd,
                                            !["client"].tcp_connected = ~Tried(outcomes).progress,
                                            !["client"].io_want =
                                              IF Tried(outcomes).progress THEN "write" ELSE "none"]
                    /\ net' = [net EXCEPT !.link = IF Tried(outcomes).progress THEN "progress" ELSE "up",
                                          !.host = "server", !.backlog = ~Tried(outcomes).progress]
                    /\ Return("client", "ok")
      BY <3>0
    <3>2. \/ Tried(outcomes) = [open |-> open, sd |-> NoFd, progress |-> FALSE]
          \/ \E b \in BOOLEAN :
               Tried(outcomes) = [open |-> Opened(open), sd |-> LowestFree(open), progress |-> b]
      BY <1>3, CandidatesAssumption, TriedOK
    <3>3. CASE Tried(outcomes) = [open |-> open, sd |-> NoFd, progress |-> FALSE]
      <4>1. Return("client", "error") /\ sock' = sock /\ net' = net /\ open' = open
        BY <3>1, <3>3
      <4> QED BY <1>1, <4>1 DEF Types
    <3>4. ASSUME NEW b \in BOOLEAN,
                 Tried(outcomes) = [open |-> Opened(open), sd |-> LowestFree(open), progress |-> b]
          PROVE  /\ Return("client", "ok") /\ open' = open \cup {LowestFree(open)}
                 /\ sock' = [sock EXCEPT !["client"].sd = LowestFree(open),
                                         !["client"].tcp_connected = ~b,
                                         !["client"].io_want = IF b THEN "write" ELSE "none"]
                 /\ net' = [net EXCEPT !.link = IF b THEN "progress" ELSE "up",
                                       !.host = "server", !.backlog = ~b]
      <4>1. /\ Tried(outcomes).open = Opened(open) /\ Tried(outcomes).sd = LowestFree(open)
            /\ Tried(outcomes).progress = b
        BY <3>4
      <4> QED BY <1>3, <3>1, <4>1 DEF Opened
    <3>5. ASSUME NEW b \in BOOLEAN,
                 sock' = [sock EXCEPT !["client"].sd = LowestFree(open),
                                      !["client"].tcp_connected = ~b,
                                      !["client"].io_want = IF b THEN "write" ELSE "none"]
          PROVE  /\ sock'["server"] = sock["server"] /\ sock' \in [Ends -> Sockets]
                 /\ sock'["client"].sd = LowestFree(open)
                 /\ ~sock'["client"].ssl /\ sock'["client"].backend = tls
      <4>1. PICK w \in {"none", "read", "write"} : w = IF b THEN "write" ELSE "none"
        OBVIOUS
      <4>2. sock["client"] \in Sockets /\ sock \in [Ends -> Sockets]
        BY <1>0 DEF Types
      <4>3. sock' = [sock EXCEPT !["client"] =
                       [sock["client"] EXCEPT !.sd = LowestFree(open), !.tcp_connected = ~b,
                                              !.io_want = w]]
        BY <3>5, <4>1, <4>2 DEF Sockets
      <4>4. [sock["client"] EXCEPT !.sd = LowestFree(open), !.tcp_connected = ~b,
                                   !.io_want = w] \in Sockets
        BY <1>3, <4>2 DEF Sockets
      <4> QED BY <1>0, <1>1, <4>2, <4>3, <4>4 DEF Sockets
    <3>6. ASSUME NEW b \in BOOLEAN,
                 net' = [net EXCEPT !.link = IF b THEN "progress" ELSE "up",
                                    !.host = "server", !.backlog = ~b]
          PROVE  NetOK(net')
      BY <3>6 DEF Types, NetOK, Connections
    <3> QED BY <1>3, <3>2, <3>3, <3>4, <3>5, <3>6
  <2> QED BY <2>1, <2>2
<1>5. Then("client", "continue")
  BY DEF Begin
<1>6. /\ result' \in [Ends -> Results] /\ phase' \in [Ends -> Phases]
      /\ phase'["client"] = (IF r = "ok" THEN "continue" ELSE "deinit")
      /\ result'["client"] = r
      /\ result'["server"] = result["server"] /\ phase'["server"] = phase["server"]
      /\ api' = api /\ writer' = writer
  BY <1>0, <1>4, <1>5, ThenFacts DEF Results, Phases
<1>7. Types'
  BY <1>1, <1>4, <1>6, TypesStay DEF Types
<1>8. WriteOK'
  BY <1>1, <1>6, WriteStays
<1>9. ClientOwns'
  BY <1>0, <1>1, <1>3, <1>4, <1>6 DEF ClientOwns, Vacant
<1>10. ServerOwns'
  BY <1>1, <1>4, <1>6, ServerStays
<1>11. Distinct' /\ Accounted'
  <2>1. f # NoFd => f \notin open
    BY <1>3, <1>4
  <2> QED BY <1>0, <1>1, <1>4, <2>1 DEF Distinct, Accounted, One
<1>12. ConnectOK'
  BY <1>0, <1>1, <1>6, ConnectStays DEF ConnectOK
<1> QED BY <1>7, <1>8, <1>9, <1>10, <1>11, <1>12
(* One end's socket becomes s, which may have its descriptor, another one  *)
(* that was free, or none.                                                 *)
Becomes(e, s) ==
  /\ sock' = [sock EXCEPT ![e] = s]
  /\ open' = (open \ {sock[e].sd}) \cup ({s.sd} \ {NoFd})
  /\ heap' = [backend |-> heap.backend - One(sock[e].backend) + One(s.backend),
              ssl |-> heap.ssl - One(sock[e].ssl) + One(s.ssl)]

LEMMA BecomesOK ==
  ASSUME Types, Distinct, Accounted, NEW e \in Ends, NEW s \in Sockets, Becomes(e, s),
         s.sd # NoFd => s.sd = sock[e].sd \/ s.sd \notin open,
         e = "client" /\ s.sd # NoFd => conn.sockfd = NoFd,
         s.ssl => s.backend /\ s.sd # NoFd, listener' = listener, conn'.sockfd = conn.sockfd
  PROVE  /\ sock' \in [Ends -> Sockets] /\ sock'[e] = s /\ sock'[Peer(e)] = sock[Peer(e)]
         /\ Distinct' /\ Accounted'
<1>1. /\ sock' \in [Ends -> Sockets] /\ sock'[e] = s
      /\ \A f \in Ends : f # e => sock'[f] = sock[f]
  BY DEF Types, Becomes
<1>2. open' = (open \ {sock[e].sd}) \cup ({s.sd} \ {NoFd})
  BY DEF Becomes
<1>3. s.sd # NoFd /\ s.sd # sock[e].sd => s.sd \notin open
  OBVIOUS
<1>4. CASE e = "client"
  <2>1. sock'["client"] = s /\ sock'["server"] = sock["server"]
    BY <1>1, <1>4 DEF Ends
  <2>2. Distinct'
    BY <1>3, <1>4, <2>1 DEF Distinct, Accounted
  <2>3. open' = {sock'["client"].sd, sock'["server"].sd, listener'.sd, conn'.sockfd} \ {NoFd}
    BY <1>2, <1>4, <2>1 DEF Distinct, Accounted
  <2>4. heap' = [backend |-> One(s.backend) + One(sock["server"].backend) + One(listener.backend),
                 ssl |-> One(s.ssl) + One(sock["server"].ssl)]
    BY <1>4 DEF Accounted, Becomes, One
  <2> QED BY <1>1, <1>4, <2>1, <2>2, <2>3, <2>4 DEF Accounted, Ends, Peer
<1>5. CASE e = "server"
  <2>1. sock'["server"] = s /\ sock'["client"] = sock["client"]
    BY <1>1, <1>5 DEF Ends
  <2>2. Distinct'
    BY <1>3, <1>5, <2>1 DEF Distinct, Accounted
  <2>3. open' = {sock'["client"].sd, sock'["server"].sd, listener'.sd, conn'.sockfd} \ {NoFd}
    BY <1>2, <1>5, <2>1 DEF Distinct, Accounted
  <2>4. heap' = [backend |-> One(sock["client"].backend) + One(s.backend) + One(listener.backend),
                 ssl |-> One(sock["client"].ssl) + One(s.ssl)]
    BY <1>5 DEF Accounted, Becomes, One
  <2> QED BY <1>1, <1>5, <2>1, <2>2, <2>3, <2>4 DEF Accounted, Ends, Peer
<1> QED BY <1>4, <1>5 DEF Ends

(* With the descriptor it had.                                             *)
LEMMA BecomesSame ==
  ASSUME Types, Accounted, NEW e \in Ends, NEW s \in Sockets, s.sd = sock[e].sd,
         s.backend = sock[e].backend,
         sock' = [sock EXCEPT ![e] = s], open' = open,
         heap' = [heap EXCEPT !.ssl = @ - One(sock[e].ssl) + One(s.ssl)]
  PROVE  Becomes(e, s)
<1>1. open = (open \ {sock[e].sd}) \cup ({s.sd} \ {NoFd})
  BY DEF Accounted, Ends
<1>2. heap.backend - One(sock[e].backend) + One(s.backend) = heap.backend
  BY DEF Accounted, One
<1> QED BY <1>1, <1>2 DEF Becomes, Accounted

LEMMA ContinueStep == OwnInv /\ Continue => OwnInv'
<1> SUFFICES ASSUME OwnInv, Continue PROVE OwnInv'
  OBVIOUS
<1> USE DEF OwnInv, Ownership
<1>0. "client" \in Ends /\ "server" \in Ends /\ Peer("client") = "server"
      /\ Ends = {"client", "server"}
  BY DEF Ends, Peer
<1>1. /\ phase["client"] = "continue" /\ conn.pc = "none" /\ conn.sockfd = NoFd
      /\ sock["client"] \in Sockets /\ sock["client"].sd # NoFd /\ sock["client"].backend = tls
      /\ UNCHANGED <<tls, listener, open, net, hs, wnum, sent, got, timed, proxied, conn>>
  BY <1>0 DEF Continue, At, ConnectNbContinue, Quiet, connectVars, ClientOwns, Types
<1>2. PICK r \in {"ok", "error"}, s \in Sockets :
        /\ Return("client", r) /\ Becomes("client", s)
        /\ s.sd = sock["client"].sd /\ s.backend = sock["client"].backend
        /\ s.ssl => s.backend
  <2> DEFINE c == sock["client"]
             t == [c EXCEPT !.tcp_connected = TRUE]
             up == [t EXCEPT !.handshake_done = TRUE, !.io_want = "none"]
             made == [t EXCEPT !.ssl = TRUE, !.io_want = "read"]
  <2>1. sock = [sock EXCEPT !["client"] = c] /\ c \in Sockets /\ (c.ssl => c.backend)
    BY <1>0, <1>1 DEF Types, Sockets, Accounted
  <2>2. \A s \in {t, up} : s \in Sockets /\ s.sd = c.sd /\ s.backend = c.backend /\ s.ssl = c.ssl
    BY <1>1 DEF Sockets
  <2>3. made \in Sockets /\ made.sd = c.sd /\ made.backend = c.backend /\ made.ssl = TRUE
    BY <1>1 DEF Sockets
  <2>4. \/ sock' = sock /\ heap' = heap /\ Return("client", "error")
        \/ sock' = [sock EXCEPT !["client"] = up] /\ heap' = heap /\ Return("client", "ok")
        \/ /\ tls /\ ~c.ssl
           /\ sock' = [sock EXCEPT !["client"] = made] /\ heap' = [heap EXCEPT !.ssl = @ + 1]
           /\ Return("client", "ok")
        \/ sock' = [sock EXCEPT !["client"] = t] /\ heap' = heap /\ Return("client", "error")
        \/ sock' = [sock EXCEPT !["client"] = t] /\ heap' = heap /\ Return("client", "ok")
    BY <2>1 DEF Continue, ConnectNbContinue, Prime
  <2>5. heap = [heap EXCEPT !.ssl = @ - One(c.ssl) + One(c.ssl)]
        /\ (~c.ssl => [heap EXCEPT !.ssl = @ + 1] = [heap EXCEPT !.ssl = @ - One(c.ssl) + One(TRUE)])
    BY <1>0 DEF Accounted, One
  <2>6. open' = open /\ c.backend = tls /\ c = sock["client"]
    BY <1>1
  <2> HIDE DEF c, t, up, made
  <2>7. CASE sock' = sock /\ heap' = heap /\ Return("client", "error")
    <3>1. Becomes("client", c)
      BY <1>0, <2>1, <2>5, <2>6, <2>7, BecomesSame
    <3> QED BY <2>1, <2>6, <2>7, <3>1
  <2>8. CASE sock' = [sock EXCEPT !["client"] = up] /\ heap' = heap /\ Return("client", "ok")
    <3>1. Becomes("client", up)
      BY <1>0, <2>2, <2>5, <2>6, <2>8, BecomesSame
    <3> QED BY <2>1, <2>2, <2>6, <2>8, <3>1
  <2>9. CASE sock' = [sock EXCEPT !["client"] = t] /\ heap' = heap
             /\ (Return("client", "ok") \/ Return("client", "error"))
    <3>1. Becomes("client", t)
      BY <1>0, <2>2, <2>5, <2>6, <2>9, BecomesSame
    <3> QED BY <2>1, <2>2, <2>6, <2>9, <3>1
  <2>10. CASE /\ tls /\ ~c.ssl
              /\ sock' = [sock EXCEPT !["client"] = made] /\ heap' = [heap EXCEPT !.ssl = @ + 1]
              /\ Return("client", "ok")
    <3>1. Becomes("client", made)
      BY <1>0, <2>3, <2>5, <2>6, <2>10, BecomesSame
    <3> QED BY <2>3, <2>6, <2>10, <3>1
  <2> QED BY <2>4, <2>7, <2>8, <2>9, <2>10
<1>3. Then("client", "handshake")
  BY DEF Continue
<1>4. /\ result' \in [Ends -> Results] /\ phase' \in [Ends -> Phases]
      /\ phase'["client"] = (IF r = "ok" THEN "handshake" ELSE "deinit")
      /\ result'["client"] = r
      /\ result'["server"] = result["server"] /\ phase'["server"] = phase["server"]
      /\ api' = api /\ writer' = writer
  BY <1>0, <1>2, <1>3, ThenFacts DEF Results, Phases
<1>5. /\ sock'["client"] = s /\ sock'["server"] = sock["server"] /\ sock' \in [Ends -> Sockets]
      /\ Distinct' /\ Accounted'
  BY <1>0, <1>1, <1>2, BecomesOK
<1>6. Types'
  BY <1>1, <1>4, <1>5, TypesStay DEF Types
<1>7. WriteOK'
  BY <1>1, <1>4, WriteStays
<1>8. ClientOwns'
  BY <1>0, <1>1, <1>2, <1>4, <1>5 DEF ClientOwns
<1>9. ServerOwns'
  BY <1>1, <1>4, <1>5, ServerStays
<1>10. ConnectOK'
  BY <1>0, <1>1, <1>4, ConnectStays DEF ConnectOK
<1> QED BY <1>5, <1>6, <1>7, <1>8, <1>9, <1>10

(* A call that accepts returns r and leaves s; both of an accept that goes *)
(* on with the handshake and of one that is over.                          *)
Accepts(r, s) ==
  /\ r \in {"ok", "error", "try_again", "busy"} /\ s \in Sockets
  /\ Return("server", r) /\ Becomes("server", s)
  /\ s.sd # NoFd => s.sd = sock["server"].sd \/ s.sd \notin open
  /\ s.ssl => s.backend /\ s.sd # NoFd
  /\ r = "ok" => s.sd # NoFd
  /\ r = "busy" => tls /\ Blocking("server") /\ s.sd # NoFd /\ s.ssl
  /\ r = "try_again" => Vacant(s)
  /\ NetOK(net') /\ hs' \in [Ends -> 0 .. Len(Script)]

(* The call begins: there is no socket yet.                                *)
LEMMA AcceptBegins ==
  ASSUME OwnInv, phase["server"] = "accept", result["server"] # "busy",
         \/ Blocking("server") /\ Accept("server")
         \/ ~Blocking("server") /\ SocketAcceptNb("server")
  PROVE  \E r, s : Accepts(r, s)
<1> USE DEF OwnInv, Ownership
<1> DEFINE n == LowestFree(open)
           unclaimed == [net EXCEPT !.backlog = FALSE]
<1>1. sock["server"].sd = NoFd /\ ~sock["server"].backend /\ ~sock["server"].ssl
      /\ "server" \in Ends /\ hs' = hs /\ NetOK(net)
      /\ hs \in [Ends -> 0 .. Len(Script)] /\ tls \in BOOLEAN
  BY DEF ServerOwns, Vacant, Ends, Accept, SocketAcceptNb, Types
<1>2. open \subseteq {sock["client"].sd, listener.sd} \/ open \subseteq {conn.sockfd, listener.sd}
  BY <1>1 DEF Accounted, Distinct
<1>3. n \in Fds \ open /\ n # NoFd
  BY <1>2, Free
<1>4. NetOK(unclaimed) /\ NetOK(Hangup("server", unclaimed))
  <2>1. NetOK(unclaimed)
    BY <1>1 DEF NetOK, Connections
  <2> QED BY <1>1, <2>1, HangupOK
<1>5. /\ Empty \in Sockets /\ Vacant(Empty) /\ Empty.sd = NoFd /\ ~Empty.backend /\ ~Empty.ssl
      /\ NoFd \notin open
  BY DEF Empty, Sockets, Vacant, Accounted
<1>6. heap = [backend |-> heap.backend - 0 + 0, ssl |-> heap.ssl - 0 + 0]
  BY DEF Accounted, One
<1>7. ASSUME sock' = [sock EXCEPT !["server"] = Empty], heap' = heap,
             open' = open \/ open' = AcceptUndone(Opened(open), n)
      PROVE  Becomes("server", Empty)
  <2>1. open' = (open \ {NoFd}) \cup ({NoFd} \ {NoFd})
    BY <1>3, <1>5, <1>7 DEF AcceptUndone, Closed, Opened
  <2> QED BY <1>1, <1>5, <1>6, <1>7, <2>1 DEF Becomes, One
<1>8. ASSUME NEW r \in {"error", "try_again"}, Return("server", r), Becomes("server", Empty),
             net' \in {net, Hangup("server", unclaimed)}
      PROVE  Accepts(r, Empty)
  BY <1>1, <1>4, <1>5, <1>8 DEF Accepts
<1>9. ASSUME NEW r \in {"ok", "busy"}, NEW s \in Sockets, Return("server", r),
             r = "busy" => tls /\ Blocking("server"),
             sock' = [sock EXCEPT !["server"] = s], open' = Opened(open),
             s.sd = n, s.backend = tls, s.ssl = tls, net' = unclaimed,
             heap' = IF tls THEN [heap EXCEPT !.backend = @ + 1, !.ssl = @ + 1] ELSE heap
      PROVE  Accepts(r, s)
  <2>1. Opened(open) = (open \ {NoFd}) \cup ({n} \ {NoFd})
    BY <1>3, <1>5 DEF Opened
  <2>2. heap' = [backend |-> heap.backend - 0 + One(tls), ssl |-> heap.ssl - 0 + One(tls)]
    <3>1. heap = [backend |-> heap.backend, ssl |-> heap.ssl]
          /\ heap.backend \in Int /\ heap.ssl \in Int
      BY DEF Accounted, One
    <3>2. CASE tls
      <4>1. heap' = [backend |-> heap.backend + 1, ssl |-> heap.ssl + 1]
        BY <1>9, <3>1, <3>2
      <4>2. One(tls) = 1 /\ heap.backend - 0 + 1 = heap.backend + 1
            /\ heap.ssl - 0 + 1 = heap.ssl + 1
        BY <3>1, <3>2 DEF One
      <4> QED BY <4>1, <4>2
    <3>3. CASE ~tls
      BY <1>9, <3>1, <3>3 DEF One
    <3> QED BY <3>2, <3>3
  <2>3. Becomes("server", s)
    BY <1>1, <1>9, <2>1, <2>2 DEF Becomes, One
  <2> QED BY <1>1, <1>3, <1>4, <1>9, <2>3 DEF Accepts
<1> DEFINE taken == [Empty EXCEPT !.sd = n, !.backend = tls, !.ssl = tls]
           takenNb == [sd |-> n, tcp_connected |-> TRUE, handshake_done |-> ~tls,
                       io_want |-> "read", backend |-> tls, ssl |-> tls]
<1>10. /\ taken \in Sockets /\ taken.sd = n /\ taken.backend = tls /\ taken.ssl = tls
       /\ takenNb \in Sockets /\ takenNb.sd = n /\ takenNb.backend = tls /\ takenNb.ssl = tls
  BY <1>1, <1>3 DEF Empty, Sockets
<1>11. CASE Blocking("server") /\ Accept("server")
  <2>1. \/ /\ sock' = [sock EXCEPT !["server"] = taken] /\ open' = Opened(open)
           /\ heap' = IF tls THEN [heap EXCEPT !.backend = @ + 1, !.ssl = @ + 1] ELSE heap
           /\ net' = unclaimed /\ Return("server", IF tls THEN "busy" ELSE "ok")
        \/ /\ sock' = [sock EXCEPT !["server"] = Empty]
           /\ open' = AcceptUndone(Opened(open), n)
           /\ net' = Hangup("server", unclaimed)
           /\ Return("server", "error") /\ heap' = heap
        \/ /\ sock' = [sock EXCEPT !["server"] = Empty]
           /\ Return("server", "error") /\ UNCHANGED <<open, heap, net>>
    BY <1>11 DEF Accept
  <2> HIDE DEF taken, n, unclaimed
  <2> QED BY <1>7, <1>8, <1>9, <1>10, <1>11, <2>1
<1>12. CASE ~Blocking("server") /\ SocketAcceptNb("server")
  <2>1. \/ /\ sock' = [sock EXCEPT !["server"] = Empty] /\ UNCHANGED <<open, heap, net>>
           /\ Return("server", "try_again") \/ Return("server", "error")
        \/ /\ sock' = [sock EXCEPT !["server"] = Empty]
           /\ open' = AcceptUndone(Opened(open), n)
           /\ net' = Hangup("server", unclaimed)
           /\ Return("server", "error") /\ heap' = heap
        \/ /\ sock' = [sock EXCEPT !["server"] = takenNb] /\ open' = Opened(open)
           /\ heap' = IF tls THEN [heap EXCEPT !.backend = @ + 1, !.ssl = @ + 1] ELSE heap
           /\ net' = unclaimed /\ Return("server", "ok")
    BY <1>12 DEF SocketAcceptNb, AcceptNb
  <2> HIDE DEF takenNb, n, unclaimed
  <2> QED BY <1>7, <1>8, <1>9, <1>10, <1>12, <2>1
<1> QED BY <1>11, <1>12

(* The call goes on: there is one, with everything.                        *)
LEMMA AcceptEnds ==
  ASSUME OwnInv, phase["server"] = "accept", Blocking("server"), SslAccept("server")
  PROVE  \E r, s : Accepts(r, s)
<1> USE DEF OwnInv, Ownership
<1> DEFINE c == sock["server"]
<1>1. /\ result["server"] = "busy" /\ tls /\ c.sd # NoFd /\ c.ssl /\ c.backend
      /\ "server" \in Ends /\ c \in Sockets
      /\ hs \in [Ends -> 0 .. Len(Script)] /\ result \in [Ends -> Results]
  BY DEF ServerOwns, Ends, SslAccept, Types, Accounted
<1>2. PICK o \in Handshakes("server") :
        /\ hs' = [hs EXCEPT !["server"] = o.hs]
        /\ \/ /\ o.out = "done" /\ Return("server", "ok") /\ net' = o.net
              /\ UNCHANGED <<sock, heap, open>>
           \/ AcceptFailed("server") /\ net' = Hangup("server", o.net)
           \/ net' = o.net /\ UNCHANGED <<sock, heap, open, result>>
  BY DEF SslAccept
<1>3. o.hs \in 0 .. Len(Script) /\ NetOK(o.net) /\ NetOK(Hangup("server", o.net))
  BY <1>1, HandshakeOKs, HangupOK
<1>4. hs' \in [Ends -> 0 .. Len(Script)]
  BY <1>1, <1>2, <1>3
<1>5. ASSUME UNCHANGED <<sock, heap, open>>
      PROVE  Becomes("server", c)
  <2>1. sock' = [sock EXCEPT !["server"] = c] /\ heap' = [heap EXCEPT !.ssl = @ - One(c.ssl) + One(c.ssl)]
    BY <1>5 DEF Accounted, One, Types
  <2> QED BY <1>1, <1>5, <2>1, BecomesSame
<1>6. CASE Return("server", "ok") /\ net' = o.net /\ UNCHANGED <<sock, heap, open>>
  <2>1. Accepts("ok", c)
    BY <1>1, <1>3, <1>4, <1>5, <1>6 DEF Accepts
  <2> QED BY <2>1
<1>7. CASE net' = o.net /\ UNCHANGED <<sock, heap, open, result>>
  <2>1. Return("server", "busy")
    BY <1>1, <1>7 DEF Return
  <2>2. Accepts("busy", c)
    BY <1>1, <1>3, <1>4, <1>5, <1>7, <2>1 DEF Accepts
  <2> QED BY <2>2
<1>8. CASE AcceptFailed("server") /\ net' = Hangup("server", o.net)
  <2> DEFINE s == [BackendDestroyed(c) EXCEPT !.sd = NoFd]
  <2>1. s \in Sockets /\ s.sd = NoFd /\ ~s.backend /\ ~s.ssl
    BY <1>1 DEF Sockets, BackendDestroyed
  <2>2. /\ sock' = [sock EXCEPT !["server"] = s] /\ heap' = HeapWithout(c)
        /\ open' = Closed(open, c.sd) /\ Return("server", "error")
    BY <1>8 DEF AcceptFailed
  <2> HIDE DEF s
  <2>3. Becomes("server", s)
    BY <1>1, <2>1, <2>2 DEF Becomes, HeapWithout, Closed, One, Accounted
  <2>4. Accepts("error", s)
    BY <1>3, <1>4, <1>8, <2>1, <2>2, <2>3 DEF Accepts
  <2> QED BY <2>4
<1> QED BY <1>2, <1>6, <1>7, <1>8

LEMMA AcceptStep == OwnInv /\ AcceptCall => OwnInv'
<1> SUFFICES ASSUME OwnInv, AcceptCall PROVE OwnInv'
  OBVIOUS
<1> USE DEF OwnInv, Ownership
<1>0. "client" \in Ends /\ "server" \in Ends /\ Peer("server") = "client"
      /\ Ends = {"client", "server"}
  BY DEF Ends, Peer
<1>1. /\ phase["server"] = "accept"
      /\ UNCHANGED <<tls, listener, wnum, sent, got, timed, proxied, conn>>
  BY DEF AcceptCall, Accept, SslAccept, SocketAcceptNb, Quiet, connectVars
<1>2. PICK next \in {"transfer", "handshake"} :
        Then("server", next) /\ (next = "transfer" <=> Blocking("server"))
  BY DEF AcceptCall
<1>3. PICK r, s : Accepts(r, s)
  <2>1. result["server"] = "busy" => Blocking("server")
    BY <1>1 DEF ServerOwns
  <2>2. \/ Blocking("server") /\ Accept("server") /\ result["server"] # "busy"
        \/ Blocking("server") /\ SslAccept("server")
        \/ ~Blocking("server") /\ SocketAcceptNb("server")
    BY DEF AcceptCall, Accept
  <2> QED BY <1>1, <2>1, <2>2, AcceptBegins, AcceptEnds
<1>4. /\ r \in {"ok", "error", "try_again", "busy"} /\ s \in Sockets
      /\ Return("server", r) /\ Becomes("server", s)
      /\ s.sd # NoFd => s.sd = sock["server"].sd \/ s.sd \notin open
      /\ s.ssl => s.backend /\ s.sd # NoFd
      /\ r = "ok" => s.sd # NoFd
      /\ r = "busy" => tls /\ Blocking("server") /\ s.sd # NoFd /\ s.ssl
      /\ r = "try_again" => Vacant(s)
      /\ NetOK(net') /\ hs' \in [Ends -> 0 .. Len(Script)]
  BY <1>3 DEF Accepts
<1>5. /\ result' \in [Ends -> Results] /\ phase' \in [Ends -> Phases]
      /\ phase'["server"] = (IF r = "ok" THEN next
                             ELSE IF r \in {"try_again", "busy"} THEN "accept" ELSE "deinit")
      /\ result'["server"] = r
      /\ result'["client"] = result["client"] /\ phase'["client"] = phase["client"]
      /\ api' = api /\ writer' = writer
  BY <1>0, <1>1, <1>2, <1>4, ThenFacts DEF Results, Phases
<1>6. /\ sock'["server"] = s /\ sock'["client"] = sock["client"] /\ sock' \in [Ends -> Sockets]
      /\ Distinct' /\ Accounted'
  BY <1>0, <1>1, <1>4, BecomesOK
<1>7. Types'
  BY <1>1, <1>4, <1>5, <1>6, TypesStay DEF Types
<1>8. WriteOK'
  BY <1>1, <1>5, WriteStays
<1>9. ClientOwns'
  BY <1>1, <1>5, <1>6, ClientStays
<1>10. ServerOwns'
  BY <1>0, <1>1, <1>2, <1>4, <1>5, <1>6 DEF ServerOwns, Blocking
<1>11. ConnectOK'
  BY <1>0, <1>1, <1>2, <1>5, ConnectStays DEF ConnectOK
<1> QED BY <1>6, <1>7, <1>8, <1>9, <1>10, <1>11
(* A call on a connection that is up: it keeps what the socket owns.       *)
LEMMA InPlace ==
  ASSUME OwnInv, NEW e \in Ends, phase[e] \in {"handshake", "transfer"},
         NEW next \in {"transfer", "deinit"}, Then(e, next),
         NEW r \in Results, Return(e, r),
         NEW s \in Sockets, sock' = [sock EXCEPT ![e] = s],
         s.sd = sock[e].sd, s.backend = sock[e].backend, s.ssl = sock[e].ssl,
         UNCHANGED <<tls, listener, open, heap, timed, proxied, conn>>,
         NetOK(net'), hs' \in [Ends -> 0 .. Len(Script)],
         wnum' \in [Ends -> 0 .. MessageLen], sent' \in 0 .. MessageLen,
         WriteOK'
  PROVE  OwnInv'
<1> USE DEF OwnInv, Ownership
<1>1. /\ "client" \in Ends /\ "server" \in Ends /\ Ends = {"client", "server"}
      /\ Peer("server") = "client" /\ Peer("client") = "server"
  BY DEF Ends, Peer
<1>2. /\ result' \in [Ends -> Results] /\ phase' \in [Ends -> Phases]
      /\ phase'[e] \in {phase[e], next, "deinit"} /\ result'[e] = r
      /\ result'[Peer(e)] = result[Peer(e)] /\ phase'[Peer(e)] = phase[Peer(e)]
      /\ api' = api /\ writer' = writer
  BY ThenFacts DEF Phases
<1>3. /\ sock' \in [Ends -> Sockets] /\ sock'[e] = s /\ sock'[Peer(e)] = sock[Peer(e)]
  BY PeerOK DEF Types
<1>4. \A f \in Ends : /\ sock'[f].sd = sock[f].sd /\ sock'[f].backend = sock[f].backend
                      /\ sock'[f].ssl = sock[f].ssl
  BY <1>1, <1>3
<1>5. Types'
  BY <1>2, <1>3, TypesStay DEF Types
<1>6. Distinct' /\ Accounted'
  BY <1>4, OwnersStay
<1>7. ClientOwns'
  <2>1. CASE e = "client"
    BY <1>2, <1>3, <2>1 DEF ClientOwns
  <2>2. CASE e = "server"
    BY <1>1, <1>2, <1>3, <2>2, ClientStays
  <2> QED BY <1>1, <2>1, <2>2
<1>8. ServerOwns'
  <2>1. CASE e = "server"
    BY <1>2, <1>3, <2>1 DEF ServerOwns
  <2>2. CASE e = "client"
    BY <1>1, <1>2, <1>3, <2>2, ServerStays
  <2> QED BY <1>1, <2>1, <2>2
<1>9. ConnectOK'
  <2>1. \A f \in Ends : phase'[f] \in {"begin", "continue", "handshake"} => ~Blocking(f)
    BY <1>1, <1>2 DEF ConnectOK
  <2>2. /\ phase'["client"] = "transfer" => phase["client"] = "transfer" \/ ~Blocking("client")
        /\ phase'["client"] = "connect" => phase["client"] = "connect"
    BY <1>1, <1>2 DEF ConnectOK
  <2> QED BY <1>2, <2>1, <2>2, ConnectStays
<1> QED BY <1>5, <1>6, <1>7, <1>8, <1>9

(* io_want and handshake_done are the only fields that these calls set.    *)
LEMMA WantsOnly ==
  ASSUME Types, NEW e \in Ends,
         \/ sock' = sock
         \/ \E w \in {"none", "read", "write"} :
              sock' = [sock EXCEPT ![e].io_want = w]
         \/ sock' = [sock EXCEPT ![e].handshake_done = TRUE, ![e].io_want = "none"]
  PROVE  \E s \in Sockets : /\ sock' = [sock EXCEPT ![e] = s]
                            /\ s.sd = sock[e].sd /\ s.backend = sock[e].backend
                            /\ s.ssl = sock[e].ssl
<1> DEFINE c == sock[e]
<1>1. c \in Sockets /\ sock = [sock EXCEPT ![e] = c]
  BY DEF Types
<1>2. CASE sock' = sock
  BY <1>1, <1>2
<1>3. ASSUME NEW w \in {"none", "read", "write"}, sock' = [sock EXCEPT ![e].io_want = w]
      PROVE  \E s \in Sockets : /\ sock' = [sock EXCEPT ![e] = s]
                                /\ s.sd = c.sd /\ s.backend = c.backend /\ s.ssl = c.ssl
  <2>1. sock' = [sock EXCEPT ![e] = [c EXCEPT !.io_want = w]]
    BY <1>3
  <2>2. [c EXCEPT !.io_want = w] \in Sockets
    BY <1>1 DEF Sockets
  <2> QED BY <1>1, <2>1, <2>2 DEF Sockets
<1>4. CASE sock' = [sock EXCEPT ![e].handshake_done = TRUE, ![e].io_want = "none"]
  <2>1. sock' = [sock EXCEPT ![e] = [c EXCEPT !.handshake_done = TRUE, !.io_want = "none"]]
    BY <1>1, <1>4 DEF Sockets
  <2>2. [c EXCEPT !.handshake_done = TRUE, !.io_want = "none"] \in Sockets
    BY <1>1 DEF Sockets
  <2> QED BY <1>1, <2>1, <2>2 DEF Sockets
<1> QED BY <1>2, <1>3, <1>4

LEMMA HandshakeStep == ASSUME OwnInv, NEW e \in Ends, Handshake(e) PROVE OwnInv'
<1> USE DEF OwnInv
<1>1. /\ phase[e] = "handshake" /\ Then(e, "transfer")
      /\ UNCHANGED <<tls, listener, open, heap, timed, proxied, conn, wnum, sent, got>>
  BY DEF Handshake, At, HandshakeNb, Quiet, connectVars
<1>2. \E r \in {"ok", "error", "try_again"} :
        /\ Return(e, r)
        /\ \/ sock' = sock
           \/ \E w \in {"none", "read", "write"} : sock' = [sock EXCEPT ![e].io_want = w]
           \/ sock' = [sock EXCEPT ![e].handshake_done = TRUE, ![e].io_want = "none"]
        /\ NetOK(net') /\ hs' \in [Ends -> 0 .. Len(Script)]
  <2>1. CASE /\ sock' = [sock EXCEPT ![e].handshake_done = TRUE, ![e].io_want = "none"]
             /\ Return(e, "ok") /\ UNCHANGED <<hs, net>>
    BY <2>1 DEF Types
  <2>2. ASSUME NEW o \in Handshakes(e),
               hs' = [hs EXCEPT ![e] = o.hs], net' = o.net,
               CASE o.out = "done" ->
                       /\ sock' = [sock EXCEPT ![e].handshake_done = TRUE, ![e].io_want = "none"]
                       /\ Return(e, "ok")
                 [] o.out = "fail" -> Return(e, "error") /\ UNCHANGED sock
                 [] OTHER -> TryAgain(e, o.out)
        PROVE  <1>2!:
    <3>1. o.hs \in 0 .. Len(Script) /\ NetOK(o.net)
          /\ o.out \in {"want_read", "want_write", "done", "fail"}
      BY HandshakeOKs
    <3>2. hs' \in [Ends -> 0 .. Len(Script)] /\ NetOK(net')
      BY <2>2, <3>1 DEF Types
    <3>3. CASE o.out = "done"
      BY <2>2, <3>2, <3>3
    <3>4. CASE o.out = "fail"
      BY <2>2, <3>2, <3>4
    <3>5. CASE o.out \in {"want_read", "want_write"}
      <4>1. TryAgain(e, o.out)
        BY <2>2, <3>5
      <4>2. Wanted(o.out) \in {"none", "read", "write"}
        BY <3>5 DEF Wanted
      <4> QED BY <3>2, <4>1, <4>2 DEF TryAgain
    <3> QED BY <3>1, <3>3, <3>4, <3>5
  <2>3. \/ /\ sock' = [sock EXCEPT ![e].handshake_done = TRUE, ![e].io_want = "none"]
           /\ Return(e, "ok") /\ UNCHANGED <<hs, net>>
        \/ \E o \in Handshakes(e) :
             /\ hs' = [hs EXCEPT ![e] = o.hs] /\ net' = o.net
             /\ CASE o.out = "done" ->
                       /\ sock' = [sock EXCEPT ![e].handshake_done = TRUE, ![e].io_want = "none"]
                       /\ Return(e, "ok")
                  [] o.out = "fail" -> Return(e, "error") /\ UNCHANGED sock
                  [] OTHER -> TryAgain(e, o.out)
    BY DEF Handshake, HandshakeNb
  <2> QED BY <2>1, <2>2, <2>3
<1>3. WriteOK'
  BY <1>1, WriteStays DEF Then
<1>4. wnum' \in [Ends -> 0 .. MessageLen] /\ sent' \in 0 .. MessageLen
  BY <1>1 DEF Types
<1>5. PICK r \in {"ok", "error", "try_again"} :
        /\ Return(e, r)
        /\ \E s \in Sockets : /\ sock' = [sock EXCEPT ![e] = s]
                              /\ s.sd = sock[e].sd /\ s.backend = sock[e].backend
                              /\ s.ssl = sock[e].ssl
        /\ NetOK(net') /\ hs' \in [Ends -> 0 .. Len(Script)]
  BY <1>2, WantsOnly
<1>6. r \in Results
  BY DEF Results
<1> QED BY <1>1, <1>3, <1>4, <1>5, <1>6, InPlace
LEMMA RestOK ==
  ASSUME Types
  PROVE  Rest \in Seq(Int) /\ Len(Rest) = MessageLen - sent
<1>1. sent \in Nat /\ MessageLen - sent \in Nat
  BY SocketAssumption DEF Types
<1> QED BY <1>1 DEF Rest

(* What a write leaves: r is returned, w of what is left of the message    *)
(* were sent before a later call, and n more bytes were reported.          *)
Writes(e, r, w, n) ==
  /\ r \in {"ok", "error", "try_again", "busy"} /\ Return(e, r)
  /\ \/ sock' = sock
     \/ \E x \in {"none", "read", "write"} : sock' = [sock EXCEPT ![e].io_want = x]
  /\ NetOK(net')
  /\ n \in 0 .. Len(Rest) /\ sent' = sent + n
  /\ w \in 0 .. Len(Rest) - n /\ wnum' = [wnum EXCEPT ![e] = w]
  /\ tls \/ Blocking(e) \/ w = 0

LEMMA WriteNbWrites ==
  ASSUME Types, WriteOK, NEW e \in Ends, e = writer, ~Blocking(e), WriteNb(e)
  PROVE  \E r, w, n : Writes(e, r, w, n)
<1>1. Rest \in Seq(Int) /\ Len(Rest) \in Nat /\ Len(Rest) = MessageLen - sent /\ sent \in Nat
      /\ wnum[e] \in 0 .. Len(Rest) /\ wnum = [wnum EXCEPT ![e] = wnum[e]]
  BY RestOK DEF Types, WriteOK
<1>2. Wanted("want_write") = "write"
  BY DEF Wanted
<1>3. CASE ~tls
  <2>1. wnum[e] = 0
    BY <1>3 DEF WriteOK
  <2>2. PICK s \in Sends(e, Rest) :
          /\ net' = s.net /\ UNCHANGED wnum
          /\ \/ s.out = "error" /\ Return(e, "error") /\ UNCHANGED <<sock, sent>>
             \/ TryAgain(e, "want_write") /\ UNCHANGED sent
             \/ TryAgain(e, "want_write") /\ Reported(s.n)
             \/ sock' = [sock EXCEPT ![e].io_want = "none"] /\ Return(e, "ok") /\ Reported(s.n)
    <3>1. WriteNbPlain(e)
      BY <1>3 DEF WriteNb
    <3> QED BY <3>1 DEF WriteNbPlain
  <2>3. s.n \in 0 .. Len(Rest) /\ NetOK(s.net)
    BY <1>1, SendsOK
  <2>4. sent = sent + 0 /\ 0 \in 0 .. Len(Rest) /\ 0 \in 0 .. Len(Rest) - 0
        /\ 0 \in 0 .. Len(Rest) - s.n
    BY <1>1, <2>3
  <2>5. wnum' = [wnum EXCEPT ![e] = 0]
    BY <1>1, <2>1, <2>2
  <2>6. CASE s.out = "error" /\ Return(e, "error") /\ UNCHANGED <<sock, sent>>
    <3>1. Writes(e, "error", 0, 0)
      BY <1>1, <2>2, <2>3, <2>4, <2>5, <2>6 DEF Writes
    <3> QED BY <3>1
  <2>7. CASE TryAgain(e, "want_write") /\ UNCHANGED sent
    <3>1. Writes(e, "try_again", 0, 0)
      BY <1>1, <1>2, <2>2, <2>3, <2>4, <2>5, <2>7 DEF Writes, TryAgain
    <3> QED BY <3>1
  <2>8. CASE TryAgain(e, "want_write") /\ Reported(s.n)
    <3>1. Writes(e, "try_again", 0, s.n)
      BY <1>2, <2>2, <2>3, <2>4, <2>5, <2>8 DEF Writes, TryAgain, Reported
    <3> QED BY <3>1
  <2>9. CASE sock' = [sock EXCEPT ![e].io_want = "none"] /\ Return(e, "ok") /\ Reported(s.n)
    <3>1. Writes(e, "ok", 0, s.n)
      BY <2>2, <2>3, <2>4, <2>5, <2>9 DEF Writes, Reported
    <3> QED BY <3>1
  <2> QED BY <2>2, <2>6, <2>7, <2>8, <2>9
<1>4. CASE tls
  <2>1. PICK s \in SslWrites(e, Rest) :
          /\ net' = s.net /\ wnum' = [wnum EXCEPT ![e] = s.wnum]
          /\ \/ s.out = "error" /\ Return(e, "error") /\ UNCHANGED <<sock, sent>>
             \/ s.out = "want_write" /\ TryAgain(e, "want_write") /\ UNCHANGED sent
             \/ /\ s.out \notin {"error", "want_write"}
                /\ sock' = [sock EXCEPT ![e].io_want = "none"]
                /\ Return(e, "ok") /\ Reported(s.n)
    <3>1. WriteNbTls(e)
      BY <1>4 DEF WriteNb
    <3> QED BY <3>1 DEF WriteNbTls
  <2>2. /\ s.out \in {"error", "sent", "want_write"} /\ NetOK(s.net)
        /\ s.out = "error" => s.wnum = wnum[e]
        /\ s.out = "sent" => s.n = Len(Rest) /\ s.wnum = 0
        /\ s.out = "want_write" => s.wnum \in wnum[e] .. Len(Rest)
    BY <1>1, SslWritesOK
  <2>3. sent = sent + 0 /\ 0 \in 0 .. Len(Rest) /\ Len(Rest) - 0 = Len(Rest)
        /\ 0 \in 0 .. Len(Rest) - Len(Rest) /\ Len(Rest) \in 0 .. Len(Rest)
    BY <1>1
  <2>4. CASE s.out = "error" /\ Return(e, "error") /\ UNCHANGED <<sock, sent>>
    <3>1. Writes(e, "error", s.wnum, 0)
      BY <1>1, <1>4, <2>1, <2>2, <2>3, <2>4 DEF Writes
    <3> QED BY <3>1
  <2>5. CASE s.out = "want_write" /\ TryAgain(e, "want_write") /\ UNCHANGED sent
    <3>1. s.wnum \in 0 .. Len(Rest)
      BY <1>1, <2>2, <2>5
    <3>2. Writes(e, "try_again", s.wnum, 0)
      BY <1>2, <1>4, <2>1, <2>2, <2>3, <2>5, <3>1 DEF Writes, TryAgain
    <3> QED BY <3>2
  <2>6. CASE /\ s.out \notin {"error", "want_write"}
             /\ sock' = [sock EXCEPT ![e].io_want = "none"] /\ Return(e, "ok") /\ Reported(s.n)
    <3>1. Writes(e, "ok", 0, Len(Rest))
      BY <1>4, <2>1, <2>2, <2>3, <2>6 DEF Writes, Reported
    <3> QED BY <3>1
  <2> QED BY <2>1, <2>4, <2>5, <2>6
<1> QED BY <1>3, <1>4

LEMMA WriteWrites ==
  ASSUME Types, WriteOK, NEW e \in Ends, e = writer, Blocking(e), Write(e)
  PROVE  \E r, w, n : Writes(e, r, w, n)
<1>1. Rest \in Seq(Int) /\ Len(Rest) \in Nat /\ Len(Rest) = MessageLen - sent /\ sent \in Nat
      /\ wnum[e] \in 0 .. Len(Rest) /\ wnum[e] \in Nat /\ wnum = [wnum EXCEPT ![e] = wnum[e]]
  BY RestOK DEF Types, WriteOK
<1> DEFINE part == SubSeq(Rest, wnum[e] + 1, Len(Rest))
<1>2. part \in Seq(Int) /\ Len(part) = Len(Rest) - wnum[e]
  <2>1. \A i \in wnum[e] + 1 .. Len(Rest) : Rest[i] \in Int
    BY <1>1, ElementOfSeq
  <2>2. /\ part \in Seq(Int)
        /\ Len(part) = IF wnum[e] + 1 <= Len(Rest) THEN Len(Rest) - (wnum[e] + 1) + 1 ELSE 0
    BY <1>1, <2>1, SubSeqProperties
  <2> QED BY <1>1, <2>2
<1>3. PICK s \in Sends(e, part) :
        /\ net' = s.net /\ sock' = sock
        /\ \/ Return(e, "error") /\ UNCHANGED <<wnum, sent>>
           \/ Return(e, "ok") /\ Reported(Len(Rest)) /\ wnum' = [wnum EXCEPT ![e] = 0]
           \/ /\ wnum[e] + s.n < Len(Rest)
              /\ Return(e, "busy") /\ wnum' = [wnum EXCEPT ![e] = wnum[e] + s.n]
              /\ UNCHANGED sent
  BY DEF Write
<1> HIDE DEF part
<1>4. s.n \in 0 .. Len(part) /\ NetOK(s.net)
  BY <1>2, SendsOK
<1>5. sent = sent + 0 /\ 0 \in 0 .. Len(Rest) /\ Len(Rest) - 0 = Len(Rest)
      /\ 0 \in 0 .. Len(Rest) - Len(Rest) /\ Len(Rest) \in 0 .. Len(Rest)
      /\ wnum[e] + s.n \in 0 .. Len(Rest)
  BY <1>1, <1>2, <1>4
<1>6. CASE Return(e, "error") /\ UNCHANGED <<wnum, sent>>
  <2>1. Writes(e, "error", wnum[e], 0)
    BY <1>1, <1>3, <1>4, <1>5, <1>6 DEF Writes
  <2> QED BY <2>1
<1>7. CASE Return(e, "ok") /\ Reported(Len(Rest)) /\ wnum' = [wnum EXCEPT ![e] = 0]
  <2>1. Writes(e, "ok", 0, Len(Rest))
    BY <1>3, <1>4, <1>5, <1>7 DEF Writes, Reported
  <2> QED BY <2>1
<1>8. CASE /\ Return(e, "busy") /\ wnum' = [wnum EXCEPT ![e] = wnum[e] + s.n] /\ UNCHANGED sent
  <2>1. Writes(e, "busy", wnum[e] + s.n, 0)
    BY <1>3, <1>4, <1>5, <1>8 DEF Writes
  <2> QED BY <2>1
<1> QED BY <1>3, <1>6, <1>7, <1>8

LEMMA WriteStep == ASSUME OwnInv, NEW e \in Ends, WriteCall(e) PROVE OwnInv'
<1> USE DEF OwnInv
<1>1. /\ phase[e] = "transfer" /\ e = writer /\ Then(e, "deinit")
      /\ UNCHANGED <<tls, listener, open, heap, timed, proxied, conn, hs, got>>
  BY DEF WriteCall, At, Write, WriteNb, Quiet, connectVars
<1>2. PICK r, w, n : Writes(e, r, w, n)
  BY <1>1, WriteNbWrites, WriteWrites DEF WriteCall
<1>3. /\ r \in Results /\ Return(e, r) /\ NetOK(net')
      /\ \E s \in Sockets : /\ sock' = [sock EXCEPT ![e] = s]
                            /\ s.sd = sock[e].sd /\ s.backend = sock[e].backend
                            /\ s.ssl = sock[e].ssl
  <2>1. r \in {"ok", "error", "try_again", "busy"} /\ Return(e, r) /\ NetOK(net')
        /\ (sock' = sock
            \/ \E x \in {"none", "read", "write"} : sock' = [sock EXCEPT ![e].io_want = x])
    BY <1>2 DEF Writes
  <2> QED BY <2>1, WantsOnly DEF Results
<1>4. /\ n \in 0 .. Len(Rest) /\ sent' = sent + n
      /\ w \in 0 .. Len(Rest) - n /\ wnum' = [wnum EXCEPT ![e] = w]
      /\ tls \/ Blocking(e) \/ w = 0
  BY <1>2 DEF Writes
<1>5. Len(Rest) = MessageLen - sent /\ Len(Rest) \in Nat /\ sent \in Nat /\ MessageLen \in Nat
  BY RestOK, SocketAssumption DEF Types
<1>6. sent' \in 0 .. MessageLen /\ w \in 0 .. MessageLen /\ w <= MessageLen - sent'
  BY <1>4, <1>5
<1>7. wnum' \in [Ends -> 0 .. MessageLen] /\ wnum'[e] = w /\ wnum'[Peer(e)] = wnum[Peer(e)]
  BY <1>4, <1>6, PeerOK DEF Types
<1>8. WriteOK'
  <2>1. writer' = e /\ api' = api /\ tls' = tls
    BY <1>1 DEF Then
  <2>2. wnum'[Peer(e)] = 0
    BY <1>1, <1>7 DEF WriteOK
  <2> QED BY <1>4, <1>6, <1>7, <2>1, <2>2 DEF WriteOK, Blocking
<1>9. hs' \in [Ends -> 0 .. Len(Script)]
  BY <1>1 DEF Types
<1> QED BY <1>1, <1>3, <1>6, <1>7, <1>8, <1>9, InPlace

LEMMA ReadStep == ASSUME OwnInv, NEW e \in Ends, ReadCall(e) PROVE OwnInv'
<1> USE DEF OwnInv
<1>1. /\ phase[e] = "transfer" /\ Then(e, "transfer")
      /\ UNCHANGED <<tls, listener, open, heap, timed, proxied, conn, hs, wnum, sent>>
  BY DEF ReadCall, At, Read, ReadNb, Quiet, connectVars
<1>2. \A r : r \in (IF tls THEN SslReads(e) ELSE Receives(e)) =>
        /\ NetOK(r.net)
        /\ r.out \in {"data", "again", "want_read", "eof", "zero_return", "error"}
  BY ReceivesOK, SslReadsOK
<1>3. \E r \in Results :
        /\ Return(e, r) /\ NetOK(net')
        /\ (sock' = sock
            \/ \E x \in {"none", "read", "write"} : sock' = [sock EXCEPT ![e].io_want = x])
  <2>1. CASE Blocking(e)
    <3>1. PICK r \in (IF tls THEN SslReads(e) ELSE Receives(e)) :
            /\ net' = r.net /\ sock' = sock
            /\ Return(e, CASE r.out = "data" -> "ok"
                           [] r.out \in {"eof", "zero_return"} -> "end_of_data"
                           [] r.out \in {"again", "want_read"} -> "try_again"
                           [] OTHER -> "error")
      BY <2>1 DEF ReadCall, Read
    <3>2. (CASE r.out = "data" -> "ok"
             [] r.out \in {"eof", "zero_return"} -> "end_of_data"
             [] r.out \in {"again", "want_read"} -> "try_again"
             [] OTHER -> "error") \in Results
      BY <1>2, <3>1 DEF Results
    <3> QED BY <1>2, <3>1, <3>2
  <2>2. CASE ~Blocking(e)
    <3>1. PICK r \in (IF tls THEN SslReads(e) ELSE Receives(e)) :
            /\ net' = r.net
            /\ CASE r.out = "data" -> /\ sock' = [sock EXCEPT ![e].io_want = "none"]
                                      /\ Return(e, "ok")
                 [] r.out = "again" -> TryAgain(e, "want_read")
                 [] r.out = "want_read" -> TryAgain(e, "want_read")
                 [] r.out \in {"eof", "zero_return"} -> Return(e, "end_of_data") /\ UNCHANGED sock
                 [] r.out = "error" -> Return(e, "error") /\ UNCHANGED sock
      BY <2>2 DEF ReadCall, ReadNb
    <3>2. \/ sock' = [sock EXCEPT ![e].io_want = "none"] /\ Return(e, "ok")
          \/ TryAgain(e, "want_read")
          \/ Return(e, "end_of_data") /\ UNCHANGED sock
          \/ Return(e, "error") /\ UNCHANGED sock
      BY <1>2, <3>1
    <3>3. Wanted("want_read") = "read"
      BY DEF Wanted
    <3> QED BY <1>2, <3>1, <3>2, <3>3 DEF TryAgain, Results
  <2> QED BY <2>1, <2>2
<1>4. PICK r \in Results :
        /\ Return(e, r) /\ NetOK(net')
        /\ \E s \in Sockets : /\ sock' = [sock EXCEPT ![e] = s]
                              /\ s.sd = sock[e].sd /\ s.backend = sock[e].backend
                              /\ s.ssl = sock[e].ssl
  BY <1>3, WantsOnly
<1>5. WriteOK'
  BY <1>1, WriteStays DEF Then
<1>6. /\ wnum' \in [Ends -> 0 .. MessageLen] /\ sent' \in 0 .. MessageLen
      /\ hs' \in [Ends -> 0 .. Len(Script)]
  BY <1>1 DEF Types
<1> QED BY <1>1, <1>4, <1>5, <1>6, InPlace
LEMMA DeinitStep == ASSUME OwnInv, NEW e \in Ends, DeinitCall(e) PROVE OwnInv'
<1> USE DEF OwnInv, Ownership
<1> DEFINE c == sock[e]
           s == [BackendDestroyed(c) EXCEPT !.sd = NoFd]
<1>0. /\ "client" \in Ends /\ "server" \in Ends /\ Ends = {"client", "server"}
      /\ Peer("server") = "client" /\ Peer("client") = "server"
  BY DEF Ends, Peer
<1>1. /\ phase[e] = "deinit" /\ phase' = [phase EXCEPT ![e] = "gone"]
      /\ sock' = [sock EXCEPT ![e] = s] /\ heap' = HeapWithout(c) /\ open' = Closed(open, c.sd)
      /\ net' = (IF c.sd # NoFd
                 THEN Hangup(e, IF c.backend /\ c.ssl THEN Shutdown(e, net) ELSE net)
                 ELSE IF c.backend /\ c.ssl THEN Shutdown(e, net) ELSE net)
      /\ UNCHANGED <<tls, listener, hs, wnum, result, sent, got, timed, proxied, conn, api, writer>>
  BY DEF DeinitCall, Deinit, Quiet, connectVars
<1>2. c \in Sockets /\ s \in Sockets /\ s.sd = NoFd /\ ~s.backend /\ ~s.ssl /\ (c.ssl => c.backend)
  BY DEF Types, Sockets, BackendDestroyed, Accounted
<1> HIDE DEF s
<1>3. Becomes(e, s)
  BY <1>1, <1>2 DEF Becomes, HeapWithout, Closed, One, Accounted
<1>4. /\ sock' \in [Ends -> Sockets] /\ sock'[e] = s /\ sock'[Peer(e)] = sock[Peer(e)]
      /\ Distinct' /\ Accounted'
  BY <1>1, <1>2, <1>3, BecomesOK
<1>5. /\ phase' \in [Ends -> Phases] /\ phase'[e] = "gone" /\ phase'[Peer(e)] = phase[Peer(e)]
  BY <1>1, PeerOK DEF Types, Phases
<1>6. NetOK(net')
  <2>1. NetOK(net) /\ NetOK(Shutdown(e, net))
    BY ShutdownOK DEF Types
  <2> QED BY <1>1, <2>1, HangupOK
<1>7. Types'
  BY <1>1, <1>4, <1>5, <1>6, TypesStay DEF Types
<1>8. WriteOK'
  BY <1>1, WriteStays
<1>9. ClientOwns'
  <2>1. CASE e = "client"
    BY <1>1, <1>2, <1>4, <1>5, <2>1 DEF ClientOwns, Vacant
  <2>2. CASE e = "server"
    BY <1>0, <1>1, <1>4, <1>5, <2>2, ClientStays
  <2> QED BY <1>0, <2>1, <2>2
<1>10. ServerOwns'
  <2>1. CASE e = "server"
    BY <1>1, <1>2, <1>4, <1>5, <2>1 DEF ServerOwns, Vacant
  <2>2. CASE e = "client"
    BY <1>0, <1>1, <1>4, <1>5, <2>2, ServerStays
  <2> QED BY <1>0, <2>1, <2>2
<1>11. ConnectOK'
  <2>1. \A f \in Ends : phase'[f] = phase[f] \/ phase'[f] = "gone"
    BY <1>0, <1>5
  <2> QED BY <1>0, <1>1, <2>1, ConnectStays DEF ConnectOK
<1> QED BY <1>4, <1>7, <1>8, <1>9, <1>10, <1>11

LEMMA CloseListenerStep == OwnInv /\ CloseListener => OwnInv'
<1> SUFFICES ASSUME OwnInv, CloseListener PROVE OwnInv'
  OBVIOUS
<1> USE DEF OwnInv, Ownership
<1>1. /\ phase["server"] = "gone" /\ listener' = [sd |-> NoFd, backend |-> FALSE]
      /\ heap' = HeapWithout([backend |-> listener.backend, ssl |-> FALSE])
      /\ open' = Closed(open, listener.sd)
      /\ net' \in {net, [net EXCEPT !.link = "reset", !.backlog = FALSE]}
      /\ UNCHANGED <<tls, sock, hs, wnum, result, sent, got, timed, proxied, conn, api, writer, phase>>
  BY DEF CloseListener, DeinitListener, Quiet, connectVars, appVars
<1>2. listener' \in Listeners
  BY <1>1 DEF Listeners
<1>3. NetOK(net')
  BY <1>1 DEF Types, NetOK, Connections
<1>4. Types'
  BY <1>1, <1>2, <1>3, TypesStay DEF Types
<1>5. WriteOK'
  BY <1>1, WriteStays
<1>6. ClientOwns'
  BY <1>1, ClientStays
<1>7. ServerOwns'
  BY <1>1 DEF ServerOwns, Vacant, Blocking
<1>8. Distinct'
  BY <1>1 DEF Distinct
<1>9. open' = {sock["client"].sd, sock["server"].sd, conn.sockfd} \ {NoFd}
  BY <1>1 DEF Distinct, Accounted, Closed
<1>10. heap' = [backend |-> One(sock["client"].backend) + One(sock["server"].backend),
                ssl |-> One(sock["client"].ssl) + One(sock["server"].ssl)]
  BY <1>1 DEF Accounted, HeapWithout, One
<1>11. Accounted'
  <2>1. One(listener'.backend) = 0 /\ One(sock["client"].backend) + One(sock["server"].backend) + 0
          = One(sock["client"].backend) + One(sock["server"].backend)
    BY <1>1 DEF One
  <2> QED BY <1>1, <1>9, <1>10, <2>1 DEF Accounted
<1>12. ConnectOK'
  BY <1>1, ConnectStays DEF ConnectOK
<1> QED BY <1>4, <1>5, <1>6, <1>7, <1>8, <1>11, <1>12

LEMMA AnswersOK == \A a \in Answers : a \in Seq(Int)
<1>1. Granted \in Int /\ Denied \in Int /\ CR \in Int /\ LF \in Int
  BY DEF Granted, Denied, CR, LF
<1>2. <<Granted>> \o Terminator \in Seq(Int) /\ <<Denied>> \o Terminator \in Seq(Int)
  <2>1. Terminator \in Seq(Int) /\ <<Granted>> \in Seq(Int) /\ <<Denied>> \in Seq(Int)
    BY <1>1 DEF Terminator
  <2> QED BY <2>1
<1>3. [i \in 1 .. AnswerCapacity + 1 |-> Granted] \in Seq(Int)
  BY <1>1, ConnectAssumption
<1> QED BY <1>2, <1>3 DEF Answers

(* Outside the calls only the connection changes.                          *)
LEMMA KernelStep == ASSUME OwnInv, ConnectDone \/ ProxyStep \/ ConnectionLost PROVE OwnInv'
<1> USE DEF OwnInv, Ownership
<1>1. /\ UNCHANGED <<tls, sock, listener, open, heap, hs, wnum, result, sent, got,
                     timed, proxied, conn, api, writer, phase>>
  BY DEF ConnectDone, ProxyStep, ConnectionLost, Kernel, connectVars, appVars
<1>2. NetOK(net')
  <2>1. CASE ConnectDone
    BY <2>1 DEF ConnectDone, ConnectEnds, Types, NetOK, Connections
  <2>2. CASE ConnectionLost /\ Breaks
    BY <2>2 DEF Breaks, Types, NetOK, Connections
  <2>3. CASE ConnectionLost /\ Loses
    <3>1. PICK e \in Ends : net' = [net EXCEPT !.pipe[e] = <<>>]
      BY <2>3 DEF Loses
    <3>2. <<>> \in Seq(Int) /\ Len(<<>>) <= PipeRoom
      BY SocketAssumption
    <3> QED BY <3>1, <3>2 DEF Types, NetOK, Connections
  <2>4. CASE ProxyStep
    <3>1. Room("server") > 0 /\ "server" \in Ends
      BY <2>4 DEF ProxyStep, ProxyAnswers, Ends
    <3>2. PICK a \in Answers :
            \E h \in {"server", net.host}, g \in BOOLEAN,
               said \in {Append(net.answer, a[Len(net.answer) + 1])} :
            /\ said = Append(net.answer, a[Len(net.answer) + 1])
            /\ Len(net.answer) < Len(a)
            /\ net' = [net EXCEPT !.pipe["server"] = Append(@, Last(said)), !.answer = said,
                                  !.host = h, !.backlog = g]
      <4>1. PICK a \in Answers :
              LET said  == Append(net.answer, a[Len(net.answer) + 1])
                  grant == said = <<Granted>> \o Terminator /\ Listening IN
              /\ Len(net.answer) < Len(a) /\ said = SubSeq(a, 1, Len(said))
              /\ net' = [net EXCEPT !.pipe["server"] = Append(@, Last(said)), !.answer = said,
                                    !.host = IF grant THEN "server" ELSE @, !.backlog = grant]
        BY <2>4 DEF ProxyStep, ProxyAnswers
      <4> DEFINE said == Append(net.answer, a[Len(net.answer) + 1])
                 grant == said = <<Granted>> \o Terminator /\ Listening
      <4>2. /\ Len(net.answer) < Len(a)
            /\ net' = [net EXCEPT !.pipe["server"] = Append(@, Last(said)), !.answer = said,
                                  !.host = IF grant THEN "server" ELSE @, !.backlog = grant]
        BY <4>1
      <4>3. (IF grant THEN "server" ELSE net.host) \in {"server", net.host} /\ grant \in BOOLEAN
        OBVIOUS
      <4> HIDE DEF said, grant
      <4>4. said = Append(net.answer, a[Len(net.answer) + 1])
        BY DEF said
      <4> QED BY <4>2, <4>3, <4>4
    <3>3. PICK h \in {"server", net.host}, g \in BOOLEAN,
               said \in {Append(net.answer, a[Len(net.answer) + 1])} :
            /\ said = Append(net.answer, a[Len(net.answer) + 1])
            /\ Len(net.answer) < Len(a)
            /\ net' = [net EXCEPT !.pipe["server"] = Append(@, Last(said)), !.answer = said,
                                  !.host = h, !.backlog = g]
      BY <3>2
    <3>4. net.answer \in Seq(Int) /\ a \in Seq(Int) /\ a[Len(net.answer) + 1] \in Int
      BY <3>3, AnswersOK, ElementOfSeq DEF Types, NetOK, Connections
    <3>5. said \in Seq(Int) /\ Last(said) \in Int
      BY <3>3, <3>4 DEF Last
    <3>6. net.pipe["server"] \in Seq(Int) /\ Len(net.pipe["server"]) < PipeRoom
      <4>1. net.pipe["server"] \in Seq(Int) /\ Len(net.pipe["server"]) \in Nat
        BY <3>1 DEF Types, NetOK, Connections
      <4>2. Room("server") = PipeRoom - Len(net.pipe["server"]) /\ PipeRoom \in Nat
        BY <3>1, RoomOK, SocketAssumption
      <4> QED BY <3>1, <4>1, <4>2
    <3>7. Append(net.pipe["server"], Last(said)) \in Seq(Int)
          /\ Len(Append(net.pipe["server"], Last(said))) <= PipeRoom
      BY <3>5, <3>6, SocketAssumption
    <3> HIDE DEF OwnInv
    <3>8. net' = [net EXCEPT !.pipe = [net.pipe EXCEPT !["server"] = Append(@, Last(said))],
                             !.answer = said, !.host = h, !.backlog = g]
      BY <3>3
    <3>9. h \in {"none", "server", "mute", "proxy"} /\ net \in Connections
          /\ net.pipe \in [Ends -> Seq(Int)] /\ \A e \in Ends : Len(net.pipe[e]) <= PipeRoom
      BY DEF OwnInv, Types, NetOK, Connections
    <3>10. net' \in Connections
      BY <3>1, <3>5, <3>7, <3>8, <3>9 DEF Connections
    <3>11. net'.pipe = [net.pipe EXCEPT !["server"] = Append(@, Last(said))]
      BY <3>8, <3>9 DEF Connections
    <3>12. \A e \in Ends : Len(net'.pipe[e]) <= PipeRoom
      BY <3>1, <3>7, <3>9, <3>11
    <3> QED BY <3>10, <3>12 DEF NetOK
  <2> QED BY <2>1, <2>2, <2>3, <2>4 DEF ConnectionLost
<1>3. Types'
  BY <1>1, <1>2, TypesStay DEF Types
<1>4. WriteOK'
  BY <1>1, WriteStays
<1>5. ClientOwns' /\ ServerOwns'
  BY <1>1, ClientStays, ServerStays
<1>6. Distinct' /\ Accounted'
  BY <1>1, OwnersStay
<1>7. ConnectOK'
  BY <1>1, ConnectStays DEF ConnectOK
<1> QED BY <1>3, <1>4, <1>5, <1>6, <1>7

(* Time passes where a socket_connect polls; what it has waited and what   *)
(* it has left to wait make up the timeout.                                *)
LEMMA TimeStep == OwnInv /\ Time => OwnInv'
<1> SUFFICES ASSUME OwnInv, Time PROVE OwnInv'
  OBVIOUS
<1> USE DEF OwnInv, Ownership
<1>1. /\ UNCHANGED <<tls, sock, listener, open, heap, net, hs, wnum, result, sent, got,
                     timed, proxied, api, writer, phase>>
      /\ conn.pc \in {"connecting", "answer"}
      /\ \/ conn.remaining > 0 /\ conn' = [conn EXCEPT !.remaining = @ - 1, !.spent = @ + 1]
         \/ conn' = conn
  <2>1. conn = [conn EXCEPT !.remaining = @]
    BY DEF Types, Calls
  <2> QED BY <2>1 DEF Time, Clock, Tick, Interrupted, Polling, Waiting, Unchanged, appVars, LeftOver
<1>2. conn \in Calls /\ Timeout \in Nat
  BY ConnectAssumption DEF Types
<1>3. /\ conn' \in Calls /\ conn'.pc = conn.pc /\ conn'.left = conn.left
      /\ conn'.sockfd = conn.sockfd /\ conn'.answer = conn.answer /\ conn'.modes = conn.modes
      /\ conn.spent + conn.remaining = Timeout => conn'.spent + conn'.remaining = Timeout
  <2>1. CASE conn' = conn
    BY <1>2, <2>1
  <2>2. CASE conn.remaining > 0 /\ conn' = [conn EXCEPT !.remaining = @ - 1, !.spent = @ + 1]
    <3>1. /\ conn.remaining \in 0 .. Timeout /\ conn.spent \in Nat
          /\ conn.remaining - 1 \in 0 .. Timeout /\ conn.spent + 1 \in Nat
          /\ conn.spent + 1 + (conn.remaining - 1) = conn.spent + conn.remaining
      BY <1>2, <2>2 DEF Calls
    <3> QED BY <1>2, <2>2, <3>1 DEF Calls
  <2> QED BY <1>1, <2>1, <2>2
<1>4. Types'
  BY <1>1, <1>3, TypesStay DEF Types
<1>5. WriteOK'
  BY <1>1, WriteStays
<1>6. ClientOwns'
  BY <1>1, <1>3 DEF ClientOwns, Vacant
<1>7. ServerOwns'
  BY <1>1, ServerStays
<1>8. Distinct' /\ Accounted'
  BY <1>1, <1>3, OwnersStay
<1>9. ConnectOK'
  BY <1>1, <1>3 DEF ConnectOK, HandedOnBlocking, SplitTerminatorFound, Blocking, Modes
<1> QED BY <1>4, <1>5, <1>6, <1>7, <1>8, <1>9
-----------------------------------------------------------------------------
(* socket_connect.                                                         *)

LEMMA CutOK ==
  ASSUME NEW n, NetOK(n)
  PROVE  NetOK(Cut(n)) /\ NetOK(NoConnection)
<1>1. "client" \in Ends /\ <<>> \in Seq(Int) /\ Len(<<>>) = 0
  BY DEF Ends
<1>2. NetOK(NoConnection)
  BY <1>1, SocketAssumption DEF NetOK, NoConnection, Connections
<1> QED BY <1>1, <1>2, HangupOK DEF Cut

(* A step of the call leaves conn, the client's socket and the descriptors *)
(* so that it can go on, or returns.                                       *)
LEMMA ConnectGoesOn ==
  ASSUME OwnInv, phase["client"] = "connect", Then("client", "transfer"), Unchanged,
         NEW r \in {"ok", "error", "invalid_argument", "busy"}, Return("client", r),
         conn' \in Calls, conn'.pc \in {"connecting", "answer", "tls"} => conn'.left > 0, NetOK(net'), hs' \in [Ends -> 0 .. Len(Script)],
         sock' \in [Ends -> Sockets], sock'["server"] = sock["server"],
         Distinct', Accounted',
         r = "busy" <=> conn'.pc # "none",
         conn'.sockfd # NoFd <=> conn'.pc \in {"connecting", "answer"},
         sock'["client"].backend = tls,
         IF conn'.pc = "tls" THEN tls /\ sock'["client"].sd # NoFd /\ sock'["client"].ssl
         ELSE r = "busy" => sock'["client"].sd = NoFd /\ ~sock'["client"].ssl,
         r = "ok" => sock'["client"].sd # NoFd,
         conn'.pc \in {"connecting", "answer"} => conn'.spent + conn'.remaining = Timeout,
         conn'.pc = "connecting" => conn'.modes = [Modes EXCEPT !.nonblocking = timed],
         conn'.pc = "answer" \/ r = "ok" => conn'.modes = [Modes EXCEPT !.rcvtimeo = timed],
         conn'.pc = "tls" =>
           conn'.modes = [Modes EXCEPT !.rcvtimeo = timed, !.sndtimeo = timed],
         SplitTerminatorFound', conn'.pc = "answer" => Len(conn'.answer) < AnswerCapacity
  PROVE  OwnInv'
<1> USE DEF OwnInv, Ownership
<1>0. "client" \in Ends /\ "server" \in Ends /\ Peer("client") = "server"
      /\ Ends = {"client", "server"}
  BY DEF Ends, Peer
<1>1. UNCHANGED <<tls, listener, wnum, sent, got, timed, proxied>>
  BY DEF Unchanged
<1>2. /\ result' \in [Ends -> Results] /\ phase' \in [Ends -> Phases]
      /\ phase'["client"] = (IF r = "ok" THEN "transfer" ELSE IF r = "busy" THEN "connect" ELSE "deinit")
      /\ result'["client"] = r
      /\ result'["server"] = result["server"] /\ phase'["server"] = phase["server"]
      /\ api' = api /\ writer' = writer
  BY <1>0, ThenFacts DEF Results, Phases
<1>3. Types'
  BY <1>1, <1>2, TypesStay DEF Types
<1>4. WriteOK'
  BY <1>1, <1>2, WriteStays
<1>5. ClientOwns'
  BY <1>0, <1>1, <1>2 DEF ClientOwns
<1>6. ServerOwns'
  BY <1>1, <1>2, ServerStays
<1>7. HandedOnBlocking'
  BY <1>1, <1>2 DEF HandedOnBlocking, Modes
<1>8. ConnectOK'
  <2>1. \A e \in Ends : phase'[e] \in {"begin", "continue", "handshake"} => ~Blocking(e)
    BY <1>0, <1>2 DEF ConnectOK
  <2> QED BY <1>1, <1>2, <1>7, <2>1 DEF ConnectOK, Blocking, Modes
<1> QED BY <1>3, <1>4, <1>5, <1>6, <1>8

(* What holds at every step of the call.                                   *)
LEMMA Connecting ==
  ASSUME OwnInv, phase["client"] = "connect"
  PROVE  /\ conn \in Calls /\ sock["client"] \in Sockets /\ sock \in [Ends -> Sockets]
         /\ "client" \in Ends /\ "server" \in Ends /\ Peer("client") = "server"
         /\ NetOK(net) /\ hs \in [Ends -> 0 .. Len(Script)]
         /\ sock["client"].backend = tls /\ tls \in BOOLEAN /\ timed \in BOOLEAN
         /\ conn.pc # "none" => result["client"] = "busy" /\ Return("client", result["client"]) = (result' = result)
         /\ conn.pc # "tls" => sock["client"].sd = NoFd /\ ~sock["client"].ssl
         /\ conn.sockfd # NoFd <=> conn.pc \in {"connecting", "answer"}
BY DEF OwnInv, Ownership, ClientOwns, Types, Return, Ends, Peer

LEMMA Busy ==
  ASSUME OwnInv, conn.pc # "none", result' = result
  PROVE  Return("client", "busy")
BY DEF OwnInv, Ownership, ClientOwns, Types, Return, Ends

LEMMA ConnectBeginStep ==
  ASSUME OwnInv, phase["client"] = "connect", Then("client", "transfer"), ConnectBegin
  PROVE  OwnInv'
<1>1. /\ conn.pc = "none" /\ Unchanged /\ UNCHANGED <<sock, open, heap, net, hs, listener, tls, timed>>
  BY DEF ConnectBegin, Unchanged
<1>2. PICK r \in {"error", "invalid_argument", "busy"}, k \in 0 .. MaxCandidates :
        /\ Return("client", r)
        /\ IF r = "busy" THEN conn' = [conn EXCEPT !.pc = "next", !.left = k] ELSE conn' = conn
  <2>1. 0 \in 0 .. MaxCandidates /\ 1 .. MaxCandidates \subseteq 0 .. MaxCandidates
    BY CandidatesAssumption
  <2> QED BY <2>1 DEF ConnectBegin
<1>3. /\ conn' \in Calls /\ conn'.pc = (IF r = "busy" THEN "next" ELSE "none")
      /\ conn'.sockfd = NoFd /\ conn'.sockfd = conn.sockfd
  <2>1. conn \in Calls /\ conn.sockfd = NoFd
    BY <1>1, Connecting
  <2>2. CASE r = "busy"
    BY <1>2, <2>1, <2>2 DEF Calls
  <2>3. CASE r # "busy"
    BY <1>1, <1>2, <2>1, <2>3
  <2> QED BY <2>2, <2>3
<1>4. Distinct' /\ Accounted'
  BY <1>1, <1>3, OwnersStay DEF OwnInv, Ownership
<1>5. SplitTerminatorFound'
  BY <1>3 DEF SplitTerminatorFound
<1> QED BY <1>1, <1>2, <1>3, <1>4, <1>5, Connecting, ConnectGoesOn

LEMMA ExhaustedStep ==
  ASSUME OwnInv, phase["client"] = "connect", Then("client", "transfer"), Exhausted
  PROVE  OwnInv'
<1>1. /\ conn.pc = "next" /\ Unchanged /\ UNCHANGED <<sock, open, heap, net, hs, listener, tls, timed>>
      /\ Return("client", "error") /\ conn' = [conn EXCEPT !.pc = "none"]
  BY DEF Exhausted, Unchanged
<1>2. conn' \in Calls /\ conn'.pc = "none" /\ conn'.sockfd = NoFd /\ conn'.sockfd = conn.sockfd
  BY <1>1, Connecting DEF Calls
<1>3. Distinct' /\ Accounted'
  BY <1>1, <1>2, OwnersStay DEF OwnInv, Ownership
<1>4. SplitTerminatorFound'
  BY <1>2 DEF SplitTerminatorFound
<1> QED BY <1>1, <1>2, <1>3, <1>4, Connecting, ConnectGoesOn

(* The descriptor of an address that is given up is closed.                *)
LEMMA AbandonStep ==
  ASSUME OwnInv, phase["client"] = "connect", Then("client", "transfer"), Unchanged,
         conn.pc \in {"connecting", "answer"}, Abandon
  PROVE  OwnInv'
<1>1. /\ conn' = [conn EXCEPT !.pc = "next", !.left = @ - 1, !.sockfd = NoFd]
      /\ open' = Closed(open, conn.sockfd) /\ net' = Cut(net)
      /\ UNCHANGED <<sock, heap, hs, result, listener, tls, timed>>
  BY DEF Abandon, NextAddress, Unchanged
<1>2. conn' \in Calls /\ conn'.pc = "next" /\ conn'.sockfd = NoFd
  <2>1. conn \in Calls /\ conn.left - 1 \in 0 .. MaxCandidates
    BY Connecting, CandidatesAssumption DEF Calls, OwnInv, ConnectOK
  <2> QED BY <1>1, <2>1 DEF Calls
<1>3. Distinct' /\ Accounted'
  BY <1>1, <1>2, Connecting DEF OwnInv, Ownership, Distinct, Accounted, Closed, Ends
<1>4. SplitTerminatorFound'
  BY <1>2 DEF SplitTerminatorFound
<1>5. Return("client", "busy")
  BY <1>1, Busy
<1>6. NetOK(net')
  BY <1>1, Connecting, CutOK
<1> QED BY <1>1, <1>2, <1>3, <1>4, <1>5, <1>6, Connecting, ConnectGoesOn
LEMMA TimedOutStep ==
  ASSUME OwnInv, phase["client"] = "connect", Then("client", "transfer"), TimedOut
  PROVE  OwnInv'
BY AbandonStep DEF TimedOut, Polling

LEMMA CandidateStep ==
  ASSUME OwnInv, phase["client"] = "connect", Then("client", "transfer"), Candidate
  PROVE  OwnInv'
<1>1. /\ conn.pc = "next" /\ conn.left > 0 /\ Unchanged
      /\ UNCHANGED <<sock, heap, hs, result, listener, tls, timed>>
      /\ conn.sockfd = NoFd /\ conn \in Calls /\ sock["client"].sd = NoFd /\ timed \in BOOLEAN
      /\ NetOK(net)
  BY Connecting DEF Candidate, Unchanged
<1>2. Return("client", "busy")
  BY <1>1, Busy
<1>3. CASE conn' = NextAddress /\ UNCHANGED <<open, net>>
  <2>1. conn.left - 1 \in 0 .. MaxCandidates
    BY <1>1, CandidatesAssumption DEF Calls
  <2>2. conn' \in Calls /\ conn'.pc = "next" /\ conn'.sockfd = NoFd
    BY <1>1, <1>3, <2>1 DEF NextAddress, Calls
  <2>3. Distinct' /\ Accounted'
    BY <1>1, <1>3, <2>2, OwnersStay DEF OwnInv, Ownership
  <2>4. SplitTerminatorFound'
    BY <2>2 DEF SplitTerminatorFound
  <2> QED BY <1>1, <1>2, <1>3, <2>2, <2>3, <2>4, Connecting, ConnectGoesOn
<1>4. CASE \E h \in Hosts :
             /\ conn' = [conn EXCEPT !.pc = "connecting", !.sockfd = LowestFree(open),
                                     !.modes = [Modes EXCEPT !.nonblocking = timed],
                                     !.remaining = Timeout, !.spent = 0]
             /\ open' = Opened(open)
             /\ net' = [NoConnection EXCEPT !.link = "progress", !.host = h]
  <2>1. open \subseteq {sock["server"].sd, listener.sd}
    BY <1>1 DEF OwnInv, Ownership, Accounted
  <2>2. LowestFree(open) \in Fds \ open /\ LowestFree(open) # NoFd
    BY <2>1, Free
  <2>3. [Modes EXCEPT !.nonblocking = timed] \in
          [nonblocking : BOOLEAN, rcvtimeo : BOOLEAN, sndtimeo : BOOLEAN]
    BY <1>1 DEF Modes
  <2>4. Timeout \in 0 .. Timeout /\ 0 \in Nat /\ 0 + Timeout = Timeout
    BY ConnectAssumption
  <2>5. /\ conn' \in Calls /\ conn'.pc = "connecting" /\ conn'.sockfd = LowestFree(open)
        /\ conn'.left = conn.left /\ conn'.modes = [Modes EXCEPT !.nonblocking = timed]
        /\ conn'.spent = 0 /\ conn'.remaining = Timeout
    BY <1>1, <1>4, <2>2, <2>3, <2>4 DEF Calls
  <2>6. NetOK(net')
    <3>1. PICK h \in {"server", "mute", "proxy"} :
            net' = [NoConnection EXCEPT !.link = "progress", !.host = h]
      BY <1>4 DEF Hosts
    <3>2. NetOK(NoConnection)
      BY <1>1, CutOK
    <3> QED BY <3>1, <3>2 DEF NetOK, Connections
  <2>7. open' = open \cup {LowestFree(open)}
    BY <1>4 DEF Opened
  <2>8. Distinct' /\ Accounted'
    BY <1>1, <2>2, <2>5, <2>7 DEF OwnInv, Ownership, Distinct, Accounted
  <2>9. SplitTerminatorFound'
    BY <2>5 DEF SplitTerminatorFound
  <2> QED BY <1>1, <1>2, <2>2, <2>4, <2>5, <2>6, <2>8, <2>9, Connecting, ConnectGoesOn
<1> QED BY <1>3, <1>4 DEF Candidate

(* The socket takes over the descriptor.                                   *)
LEMMA UsableStep ==
  ASSUME OwnInv, phase["client"] = "connect", Then("client", "transfer"), Unchanged,
         conn.pc \in {"connecting", "answer"},
         NEW c \in Calls, c.left = conn.left, c.modes = [Modes EXCEPT !.rcvtimeo = timed],
         NEW n, NetOK(n), Usable(c, n)
  PROVE  OwnInv'
<1> DEFINE s == sock["client"]
<1>1. /\ conn.sockfd # NoFd /\ conn \in Calls /\ s \in Sockets /\ s.sd = NoFd /\ ~s.ssl
      /\ s.backend = tls /\ tls \in BOOLEAN /\ timed \in BOOLEAN /\ conn.left > 0
      /\ sock \in [Ends -> Sockets] /\ hs \in [Ends -> 0 .. Len(Script)]
      /\ "client" \in Ends /\ "server" \in Ends /\ "client" # "server"
      /\ UNCHANGED <<tls, timed, listener>>
  BY Connecting DEF OwnInv, ConnectOK, Unchanged
<1>2. CASE /\ ~tls
           /\ conn' = [c EXCEPT !.pc = "none", !.sockfd = NoFd]
           /\ sock' = [sock EXCEPT !["client"].sd = conn.sockfd]
           /\ net' = n
           /\ Return("client", "ok") /\ UNCHANGED <<open, heap, hs>>
  <2>1. /\ conn' \in Calls /\ conn'.pc = "none" /\ conn'.sockfd = NoFd
        /\ conn'.modes = [Modes EXCEPT !.rcvtimeo = timed]
    BY <1>2 DEF Calls
  <2>2. sock' = [sock EXCEPT !["client"] = [s EXCEPT !.sd = conn.sockfd]]
    BY <1>2
  <2>3. [s EXCEPT !.sd = conn.sockfd] \in Sockets
    BY <1>1 DEF Sockets, Calls
  <2>4. /\ sock' \in [Ends -> Sockets] /\ sock'["server"] = sock["server"]
        /\ sock'["client"].sd = conn.sockfd /\ sock'["client"].backend = tls
        /\ ~sock'["client"].ssl
    BY <1>1, <2>2, <2>3 DEF Sockets
  <2>5. Distinct' /\ Accounted'
    BY <1>1, <1>2, <2>1, <2>4 DEF OwnInv, Ownership, Distinct, Accounted, Ends
  <2>6. SplitTerminatorFound'
    BY <2>1 DEF SplitTerminatorFound
  <2> QED BY <1>1, <1>2, <2>1, <2>4, <2>5, <2>6, ConnectGoesOn
<1>3. CASE /\ tls
           /\ conn' = [c EXCEPT !.pc = "tls", !.sockfd = NoFd, !.modes = HandshakeModes(@)]
           /\ sock' = [sock EXCEPT !["client"].sd = conn.sockfd, !["client"].ssl = TRUE]
           /\ heap' = [heap EXCEPT !.ssl = @ + 1]
           /\ hs' = [hs EXCEPT !["client"] = 0]
           /\ net' = n
           /\ UNCHANGED <<open, result>>
  <2>0. HandshakeModes(c.modes) = [Modes EXCEPT !.rcvtimeo = timed, !.sndtimeo = timed]
        /\ HandshakeModes(c.modes) \in [nonblocking : BOOLEAN, rcvtimeo : BOOLEAN, sndtimeo : BOOLEAN]
    BY <1>1 DEF HandshakeModes, Modes
  <2>1. /\ conn' \in Calls /\ conn'.pc = "tls" /\ conn'.sockfd = NoFd /\ conn'.left = c.left
        /\ conn'.modes = [Modes EXCEPT !.rcvtimeo = timed, !.sndtimeo = timed]
    BY <1>3, <2>0 DEF Calls
  <2>2. sock' = [sock EXCEPT !["client"] = [s EXCEPT !.sd = conn.sockfd, !.ssl = TRUE]]
    BY <1>1, <1>3 DEF Sockets
  <2>3. [s EXCEPT !.sd = conn.sockfd, !.ssl = TRUE] \in Sockets
    BY <1>1 DEF Sockets, Calls
  <2>4. /\ sock' \in [Ends -> Sockets] /\ sock'["server"] = sock["server"]
        /\ sock'["client"].sd = conn.sockfd /\ sock'["client"].backend = tls
        /\ sock'["client"].ssl
    BY <1>1, <2>2, <2>3 DEF Sockets
  <2>5. Distinct'
    BY <1>1, <1>3, <2>1, <2>4 DEF OwnInv, Ownership, Distinct
  <2>6. Accounted'
    <3>1. heap' = [backend |-> heap.backend, ssl |-> heap.ssl + 1]
      BY <1>3 DEF OwnInv, Ownership, Accounted
    <3>2. heap'.ssl = 1 + One(sock["server"].ssl)
      BY <1>1, <3>1 DEF OwnInv, Ownership, Accounted, One
    <3>3. open' = {sock'["client"].sd, sock'["server"].sd, listener'.sd, conn'.sockfd} \ {NoFd}
      BY <1>1, <1>3, <2>1, <2>4 DEF OwnInv, Ownership, Accounted
    <3>4. /\ heap'.backend = One(sock'["client"].backend) + One(sock'["server"].backend)
                                + One(listener'.backend)
          /\ heap'.ssl = One(sock'["client"].ssl) + One(sock'["server"].ssl)
      <4>1. One(sock'["client"].ssl) = 1
        BY <2>4 DEF One
      <4>2. heap'.backend = heap.backend
        BY <3>1
      <4> QED BY <1>1, <2>4, <3>2, <4>1, <4>2 DEF OwnInv, Ownership, Accounted
    <3>5. \A e \in Ends : sock'[e].ssl => sock'[e].backend /\ sock'[e].sd # NoFd
      BY <1>1, <1>3, <2>4 DEF OwnInv, Ownership, Accounted, Ends
    <3> HIDE DEF s
    <3> QED BY <3>1, <3>3, <3>4, <3>5 DEF Accounted
  <2>7. SplitTerminatorFound'
    BY <2>1 DEF SplitTerminatorFound
  <2>8. hs' \in [Ends -> 0 .. Len(Script)]
    BY <1>1, <1>3 DEF Script
  <2>9. Return("client", "busy")
    BY <1>3, Busy
  <2> QED BY <1>1, <1>3, <2>1, <2>4, <2>5, <2>6, <2>7, <2>8, <2>9, ConnectGoesOn
<1>4. CASE Abandon
  BY <1>4, AbandonStep
<1> QED BY <1>2, <1>3, <1>4 DEF Usable
(* Modes of a descriptor are equal when they are one by one.               *)
LEMMA SameModes ==
  ASSUME NEW x \in [nonblocking : BOOLEAN, rcvtimeo : BOOLEAN, sndtimeo : BOOLEAN],
         NEW y \in [nonblocking : BOOLEAN, rcvtimeo : BOOLEAN, sndtimeo : BOOLEAN],
         x.nonblocking = y.nonblocking, x.rcvtimeo = y.rcvtimeo, x.sndtimeo = y.sndtimeo
  PROVE  x = y
OBVIOUS

LEMMA ConnectedStep ==
  ASSUME OwnInv, phase["client"] = "connect", Then("client", "transfer"), Connected
  PROVE  OwnInv'
<1>1. /\ conn.pc = "connecting" /\ Unchanged /\ UNCHANGED <<tls, timed, listener>>
      /\ conn \in Calls /\ NetOK(net) /\ timed \in BOOLEAN
      /\ conn.modes = [Modes EXCEPT !.nonblocking = timed] /\ conn.left > 0
      /\ hs \in [Ends -> 0 .. Len(Script)] /\ sock \in [Ends -> Sockets]
      /\ conn.sockfd # NoFd /\ sock["client"].sd = NoFd /\ ~sock["client"].ssl
  BY Connecting DEF Connected, Unchanged, OwnInv, ConnectOK
<1>2. Restored = [Modes EXCEPT !.rcvtimeo = timed]
      /\ Restored \in [nonblocking : BOOLEAN, rcvtimeo : BOOLEAN, sndtimeo : BOOLEAN]
  <2> DEFINE m == [Modes EXCEPT !.rcvtimeo = timed]
             Set == [nonblocking : BOOLEAN, rcvtimeo : BOOLEAN, sndtimeo : BOOLEAN]
  <2>1. conn.modes \in Set /\ ~conn.modes.sndtimeo
    BY <1>1 DEF Modes, Calls
  <2>2. /\ Restored \in Set /\ Restored.nonblocking = FALSE /\ Restored.rcvtimeo = timed
        /\ Restored.sndtimeo = conn.modes.sndtimeo
    BY <1>1, <2>1 DEF Restored
  <2>3. m \in Set /\ m.nonblocking = FALSE /\ m.rcvtimeo = timed /\ m.sndtimeo = FALSE
    BY <1>1 DEF Modes
  <2>4. Restored.sndtimeo = FALSE
    BY <2>1, <2>2
  <2> HIDE DEF m
  <2>5. Restored = m
    BY <2>2, <2>3, <2>4, SameModes
  <2> QED BY <2>2, <2>5 DEF m
<1>3. CASE Abandon
  BY <1>1, <1>3, AbandonStep
<1>4. CASE /\ conn' = [NextAddress EXCEPT !.pc = "none"]
           /\ open' = Closed(open, conn.sockfd) /\ net' = Cut(net)
           /\ Return("client", "invalid_argument") /\ UNCHANGED <<sock, heap, hs>>
  <2>1. conn.left - 1 \in 0 .. MaxCandidates
    BY <1>1, CandidatesAssumption DEF Calls
  <2>2. conn' \in Calls /\ conn'.pc = "none" /\ conn'.sockfd = NoFd
    BY <1>1, <1>4, <2>1 DEF NextAddress, Calls
  <2>3. Distinct' /\ Accounted'
    BY <1>1, <1>4, <2>2 DEF OwnInv, Ownership, Distinct, Accounted, Closed, Ends
  <2>4. SplitTerminatorFound'
    BY <2>2 DEF SplitTerminatorFound
  <2>5. NetOK(net')
    BY <1>1, <1>4, CutOK
  <2> QED BY <1>1, <1>4, <2>2, <2>3, <2>4, <2>5, Connecting, ConnectGoesOn
<1>5. CASE Usable([conn EXCEPT !.modes = Restored], net)
  <2>1. /\ [conn EXCEPT !.modes = Restored] \in Calls
        /\ [conn EXCEPT !.modes = Restored].left = conn.left
        /\ [conn EXCEPT !.modes = Restored].modes = Restored
    BY <1>1, <1>2 DEF Calls
  <2> QED BY <1>1, <1>2, <1>5, <2>1, UsableStep
<1>6. CASE /\ conn' = [conn EXCEPT !.pc = "answer", !.answer = <<>>, !.modes = Restored,
                                   !.remaining = Timeout, !.spent = 0]
           /\ UNCHANGED <<sock, open, heap, net, hs, result>>
  <2>1. Timeout \in 0 .. Timeout /\ 0 \in Nat /\ 0 + Timeout = Timeout
        /\ <<>> \in Seq(Int) /\ Len(<<>>) = 0 /\ 0 < AnswerCapacity
    BY ConnectAssumption
  <2>2. /\ conn' \in Calls /\ conn'.pc = "answer" /\ conn'.sockfd = conn.sockfd
        /\ conn'.left = conn.left /\ conn'.modes = Restored
        /\ conn'.spent = 0 /\ conn'.remaining = Timeout /\ conn'.answer = <<>>
    BY <1>1, <1>2, <1>6, <2>1 DEF Calls
  <2>3. Distinct' /\ Accounted'
    BY <1>1, <1>6, <2>2, OwnersStay DEF OwnInv, Ownership
  <2>4. SplitTerminatorFound'
    BY <2>2 DEF SplitTerminatorFound
  <2>5. Return("client", "busy")
    BY <1>1, <1>6, Busy
  <2> QED BY <1>1, <1>2, <1>6, <2>1, <2>2, <2>3, <2>4, <2>5, Connecting, ConnectGoesOn
<1> QED BY <1>3, <1>4, <1>5, <1>6 DEF Connected

(* What a peek has behind the answer so far: the search, which begins a    *)
(* little before the new bytes, finds no terminator only where none is.    *)
LEMMA SearchFinds ==
  ASSUME NEW had \in Seq(Int), NEW new \in Seq(Int),
         \A i \in 1 .. Len(had) - 3 : SubSeq(had, i, i + 3) # Terminator,
         Ended(had \o new, Len(had)) = {},
         NEW i \in 1 .. Len(had \o new) - 3
  PROVE  SubSeq(had \o new, i, i + 3) # Terminator
<1> DEFINE bytes == had \o new
<1>1. bytes \in Seq(Int) /\ Len(bytes) = Len(had) + Len(new) /\ Len(had) \in Nat /\ Len(new) \in Nat
      /\ \A j \in 1 .. Len(had) : bytes[j] = had[j]
  OBVIOUS
<1> HIDE DEF bytes
<1>2. i \in Nat /\ i + 3 <= Len(bytes) /\ i >= 1
  BY <1>1 DEF bytes
<1>3. CASE i <= SearchStart(Len(had))
  <2>1. i \in 1 .. Len(had) - 3
    BY <1>1, <1>2, <1>3 DEF SearchStart
  <2>2. SubSeq(bytes, i, i + 3) = [j \in 1 .. 4 |-> bytes[i + j - 1]]
        /\ SubSeq(had, i, i + 3) = [j \in 1 .. 4 |-> had[i + j - 1]]
    BY <1>1, <1>2, <2>1, SMTT(20)
  <2>3. ASSUME NEW j \in 1 .. 4 PROVE bytes[i + j - 1] = had[i + j - 1]
    <3>1. i + j - 1 \in 1 .. Len(had)
      BY <1>1, <1>2, <2>1
    <3> QED BY <1>1, <3>1
  <2>4. SubSeq(bytes, i, i + 3) = SubSeq(had, i, i + 3)
    BY <2>2, <2>3
  <2> QED BY <2>1, <2>4 DEF bytes
<1>4. CASE i > SearchStart(Len(had))
  <2>1. i + 3 \in SearchStart(Len(had)) + 4 .. Len(bytes) /\ (i + 3) - 3 = i
    BY <1>1, <1>2, <1>4 DEF SearchStart
  <2>2. SubSeq(bytes, (i + 3) - 3, i + 3) # Terminator
    BY <2>1 DEF Ended, bytes
  <2> QED BY <2>1, <2>2 DEF bytes
<1>5. SearchStart(Len(had)) \in Nat
  BY <1>1 DEF SearchStart
<1> QED BY <1>2, <1>3, <1>4, <1>5

(* It takes none of the bytes it had and not more than there are.          *)
LEMMA AnswerEndOK ==
  ASSUME NEW bytes \in Seq(Int), NEW length \in Nat, length <= Len(bytes)
  PROVE  /\ AnswerEnd(bytes, length) \in length .. Len(bytes)
         /\ Ended(bytes, length) = {} => AnswerEnd(bytes, length) = Len(bytes)
<1>1. SearchStart(length) \in Nat /\ SearchStart(length) + 4 >= length
  BY DEF SearchStart
<1>2. Ended(bytes, length) \subseteq SearchStart(length) + 4 .. Len(bytes)
  BY DEF Ended
<1>3. CASE Ended(bytes, length) = {}
  BY <1>3 DEF AnswerEnd
<1>4. CASE Ended(bytes, length) # {}
  <2>1. Ended(bytes, length) \in SUBSET Nat
    BY <1>1, <1>2
  <2>2. Min(Ended(bytes, length)) \in Ended(bytes, length)
    BY <1>4, <2>1, Least
  <2>3. Min(Ended(bytes, length)) \in length .. Len(bytes)
    BY <1>1, <1>2, <2>2
  <2> QED BY <1>4, <2>3 DEF AnswerEnd
<1> QED BY <1>3, <1>4
LEMMA AnswerStep ==
  ASSUME OwnInv, phase["client"] = "connect", Then("client", "transfer"), Answer
  PROVE  OwnInv'
<1> DEFINE had == conn.answer
           length == Len(had)
           peeked == Min({Len(Inbox("client")), AnswerCapacity - length})
           new == SubSeq(Inbox("client"), 1, peeked)
           bytes == had \o new
           taken == SubSeq(bytes, 1, AnswerEnd(bytes, length))
           after == Taken("client", Len(taken) - length)
<1>1. /\ conn.pc = "answer" /\ Unchanged /\ UNCHANGED <<tls, timed, listener>>
      /\ conn \in Calls /\ NetOK(net) /\ conn.left > 0
      /\ conn.modes = [Modes EXCEPT !.rcvtimeo = timed]
      /\ conn.spent + conn.remaining = Timeout
      /\ hs \in [Ends -> 0 .. Len(Script)] /\ sock \in [Ends -> Sockets]
      /\ had \in Seq(Int) /\ length \in Nat /\ length < AnswerCapacity
      /\ \A i \in 1 .. length - 3 : SubSeq(had, i, i + 3) # Terminator
      /\ "client" \in Ends
  BY Connecting, ConnectAssumption DEF Answer, Unchanged, OwnInv, ConnectOK, SplitTerminatorFound, Calls
<1>2. Inbox("client") \in Seq(Int) /\ Len(Inbox("client")) \in Nat
  BY <1>1, PeerOK DEF NetOK, Connections, Inbox
<1>3. peeked \in Nat /\ peeked <= Len(Inbox("client"))
  <2>1. AnswerCapacity - length \in Nat
    BY <1>1, ConnectAssumption
  <2> QED BY <1>2, <2>1, MinOfTwo
<1> HIDE DEF peeked
<1>4. new \in Seq(Int) /\ Len(new) = peeked
  BY <1>2, <1>3
<1> HIDE DEF new, had
<1>5. bytes \in Seq(Int) /\ Len(bytes) = length + peeked
  <2>1. had \in Seq(Int) /\ new \in Seq(Int) /\ Len(new) = peeked
    BY <1>1, <1>4
  <2>2. had \o new \in Seq(Int) /\ Len(had \o new) = Len(had) + Len(new)
    BY <2>1
  <2> QED BY <2>1, <2>2
<1>6. Ended(bytes, length) = {} => \A i \in 1 .. Len(bytes) - 3 : SubSeq(bytes, i, i + 3) # Terminator
  BY <1>1, <1>4, SearchFinds
<1> HIDE DEF bytes, length
<1>7. /\ AnswerEnd(bytes, length) \in length .. Len(bytes)
      /\ Ended(bytes, length) = {} => AnswerEnd(bytes, length) = Len(bytes)
  <2>1. length \in Nat /\ length <= Len(bytes)
    BY <1>1, <1>3, <1>5
  <2> QED BY <1>5, <2>1, AnswerEndOK
<1>8. taken \in Seq(Int) /\ Len(taken) = AnswerEnd(bytes, length)
      /\ (AnswerEnd(bytes, length) = Len(bytes) => taken = bytes)
  <2>1. \A i \in 1 .. Len(bytes) : bytes[i] \in Int
    BY <1>5, ElementOfSeq
  <2>2. AnswerEnd(bytes, length) \in Nat /\ AnswerEnd(bytes, length) <= Len(bytes)
    BY <1>1, <1>7
  <2> QED BY <1>5, <2>1, <2>2
<1> HIDE DEF taken
<1>9. NetOK(after)
  <2>1. OwnInv => Types
    BY DEF OwnInv
  <2>2. Len(taken) - length \in Nat /\ Len(taken) - length <= Len(Inbox("client"))
    BY <1>1, <1>2, <1>3, <1>5, <1>7, <1>8
  <2> QED BY <1>1, <2>1, <2>2, TakenOK
<1> HIDE DEF after
<1>10. \/ Abandon
       \/ /\ Ended(bytes, length) = {} /\ ~(Len(taken) >= AnswerCapacity)
          /\ conn' = [conn EXCEPT !.answer = taken, !.remaining = SharedBudget(@)]
          /\ net' = after /\ UNCHANGED <<sock, open, heap, hs, result>>
       \/ Usable([conn EXCEPT !.answer = <<>>], after)
  BY DEF Answer, had, length, peeked, new, bytes, taken, after
<1>11. CASE Abandon
  BY <1>1, <1>11, AbandonStep
<1>12. CASE Usable([conn EXCEPT !.answer = <<>>], after)
  <2>1. /\ [conn EXCEPT !.answer = <<>>] \in Calls
        /\ [conn EXCEPT !.answer = <<>>].left = conn.left
        /\ [conn EXCEPT !.answer = <<>>].modes = conn.modes
    <3>1. <<>> \in Seq(Int) /\ conn \in Calls
      BY <1>1
    <3> QED BY <3>1 DEF Calls
  <2> QED BY <1>1, <1>9, <1>12, <2>1, UsableStep
<1>13. CASE /\ Ended(bytes, length) = {} /\ ~(Len(taken) >= AnswerCapacity)
            /\ conn' = [conn EXCEPT !.answer = taken, !.remaining = SharedBudget(@)]
            /\ net' = after /\ UNCHANGED <<sock, open, heap, hs, result>>
  <2>1. /\ conn' \in Calls /\ conn'.pc = "answer" /\ conn'.sockfd = conn.sockfd
        /\ conn'.left = conn.left /\ conn'.modes = conn.modes /\ conn'.spent = conn.spent
        /\ conn'.remaining = conn.remaining /\ conn'.answer = taken
    BY <1>1, <1>8, <1>13 DEF Calls, SharedBudget
  <2>2. Len(taken) < AnswerCapacity
    BY <1>5, <1>8, <1>13, ConnectAssumption
  <2>3. SplitTerminatorFound'
    BY <1>6, <1>7, <1>8, <1>13, <2>1 DEF SplitTerminatorFound
  <2>4. Distinct' /\ Accounted'
    BY <1>1, <1>13, <2>1, OwnersStay DEF OwnInv, Ownership
  <2>5. Return("client", "busy")
    BY <1>1, <1>13, Busy
  <2> QED BY <1>1, <1>9, <1>13, <2>1, <2>2, <2>3, <2>4, <2>5, Connecting, ConnectGoesOn
<1> QED BY <1>10, <1>11, <1>12, <1>13

LEMMA SslConnectStep ==
  ASSUME OwnInv, phase["client"] = "connect", Then("client", "transfer"), SslConnect
  PROVE  OwnInv'
<1> DEFINE c == sock["client"]
<1>1. /\ conn.pc = "tls" /\ Unchanged /\ UNCHANGED <<tls, timed, listener>>
      /\ conn \in Calls /\ NetOK(net) /\ conn.left > 0 /\ timed \in BOOLEAN
      /\ conn.modes = [Modes EXCEPT !.rcvtimeo = timed, !.sndtimeo = timed]
      /\ hs \in [Ends -> 0 .. Len(Script)] /\ sock \in [Ends -> Sockets]
      /\ tls /\ c.sd # NoFd /\ c.ssl /\ c.backend = tls /\ conn.sockfd = NoFd /\ c \in Sockets
      /\ "client" \in Ends /\ Peer("client") = "server"
  BY Connecting DEF SslConnect, Unchanged, OwnInv, ConnectOK, Ownership, ClientOwns
<1>2. PICK o \in Handshakes("client") :
        /\ hs' = [hs EXCEPT !["client"] = o.hs]
        /\ \/ /\ conn' = [conn EXCEPT !.pc = "none", !.modes.sndtimeo = FALSE]
              /\ Return("client", "ok") /\ net' = o.net /\ UNCHANGED <<sock, heap, open>>
           \/ net' = o.net /\ UNCHANGED <<sock, heap, open, conn, result>>
           \/ HandshakeFailed /\ net' = Cut(o.net)
  BY DEF SslConnect
<1>3. o.hs \in 0 .. Len(Script) /\ NetOK(o.net) /\ NetOK(Cut(o.net))
  BY <1>1, HandshakeOKs, CutOK DEF OwnInv
<1>4. hs' \in [Ends -> 0 .. Len(Script)]
  BY <1>1, <1>2, <1>3
<1>5. CASE /\ conn' = [conn EXCEPT !.pc = "none", !.modes.sndtimeo = FALSE]
           /\ Return("client", "ok") /\ net' = o.net /\ UNCHANGED <<sock, heap, open>>
  <2> DEFINE m == [Modes EXCEPT !.rcvtimeo = timed]
             k == [conn.modes EXCEPT !.sndtimeo = FALSE]
             Set == [nonblocking : BOOLEAN, rcvtimeo : BOOLEAN, sndtimeo : BOOLEAN]
  <2>1. conn.modes \in Set /\ conn.modes.nonblocking = FALSE /\ conn.modes.rcvtimeo = timed
    BY <1>1 DEF Modes, Calls
  <2>2. /\ [conn.modes EXCEPT !.sndtimeo = FALSE] = [Modes EXCEPT !.rcvtimeo = timed]
        /\ [conn.modes EXCEPT !.sndtimeo = FALSE]
             \in [nonblocking : BOOLEAN, rcvtimeo : BOOLEAN, sndtimeo : BOOLEAN]
    <3>1. k \in Set /\ k.nonblocking = FALSE /\ k.rcvtimeo = timed /\ k.sndtimeo = FALSE
      BY <1>1, <2>1
    <3>2. m \in Set /\ m.nonblocking = FALSE /\ m.rcvtimeo = timed /\ m.sndtimeo = FALSE
      BY <1>1 DEF Modes
    <3> HIDE DEF k, m
    <3>3. k = m
      BY <3>1, <3>2, SameModes
    <3> QED BY <3>1, <3>3 DEF k, m
  <2>3. conn' = [conn EXCEPT !.pc = "none", !.modes = [conn.modes EXCEPT !.sndtimeo = FALSE]]
    BY <1>1, <1>5 DEF Calls
  <2>4. /\ conn' \in Calls /\ conn'.pc = "none" /\ conn'.sockfd = conn.sockfd
        /\ conn'.modes = [Modes EXCEPT !.rcvtimeo = timed]
    BY <1>1, <2>2, <2>3 DEF Calls
  <2>5. Distinct' /\ Accounted'
    BY <1>1, <1>5, <2>4, OwnersStay DEF OwnInv, Ownership
  <2>6. SplitTerminatorFound'
    BY <2>4 DEF SplitTerminatorFound
  <2> QED BY <1>1, <1>3, <1>4, <1>5, <2>4, <2>5, <2>6, ConnectGoesOn
<1>6. CASE net' = o.net /\ UNCHANGED <<sock, heap, open, conn, result>>
  <2>1. Distinct' /\ Accounted'
    BY <1>1, <1>6, OwnersStay DEF OwnInv, Ownership
  <2>2. SplitTerminatorFound'
    BY <1>1, <1>6 DEF SplitTerminatorFound
  <2>3. Return("client", "busy")
    BY <1>1, <1>6, Busy
  <2> QED BY <1>1, <1>3, <1>4, <1>6, <2>1, <2>2, <2>3, ConnectGoesOn
<1>7. CASE HandshakeFailed /\ net' = Cut(o.net)
  <2> DEFINE s == [c EXCEPT !.sd = NoFd, !.ssl = FALSE]
  <2>1. /\ sock' = [sock EXCEPT !["client"].sd = NoFd, !["client"].ssl = FALSE]
        /\ heap' = [heap EXCEPT !.ssl = @ - 1] /\ open' = Closed(open, c.sd)
        /\ conn' = [conn EXCEPT !.pc = "next", !.left = @ - 1, !.sockfd = NoFd]
        /\ result' = result
    BY <1>7 DEF HandshakeFailed, NextAddress
  <2>2. s \in Sockets /\ s.sd = NoFd /\ ~s.ssl /\ s.backend = tls
        /\ sock' = [sock EXCEPT !["client"] = s]
    BY <1>1, <2>1 DEF Sockets
  <2>3. conn.left - 1 \in 0 .. MaxCandidates
    BY <1>1, CandidatesAssumption DEF Calls
  <2>4. conn' \in Calls /\ conn'.pc = "next" /\ conn'.sockfd = NoFd
    BY <1>1, <2>1, <2>3 DEF Calls
  <2> HIDE DEF s
  <2>5. Becomes("client", s)
    <3>1. heap' = [backend |-> heap.backend, ssl |-> heap.ssl - 1]
          /\ heap.backend \in Int /\ heap.ssl \in Int
      BY <2>1 DEF OwnInv, Ownership, Accounted, One
    <3>2. heap' = [backend |-> heap.backend - One(c.backend) + One(s.backend),
                   ssl |-> heap.ssl - One(c.ssl) + One(s.ssl)]
      BY <1>1, <2>2, <3>1 DEF One
    <3> QED BY <2>1, <2>2, <3>2 DEF Becomes, Closed
  <2>6. /\ sock' \in [Ends -> Sockets] /\ sock'["client"] = s /\ sock'["server"] = sock["server"]
        /\ Distinct' /\ Accounted'
    BY <1>1, <2>2, <2>4, <2>5, BecomesOK DEF OwnInv, Ownership
  <2>7. SplitTerminatorFound'
    BY <2>4 DEF SplitTerminatorFound
  <2>8. Return("client", "busy")
    BY <1>1, <2>1, Busy
  <2> QED BY <1>1, <1>3, <1>4, <1>7, <2>2, <2>4, <2>6, <2>7, <2>8, ConnectGoesOn
<1> QED BY <1>2, <1>5, <1>6, <1>7

LEMMA ConnectCallStep == OwnInv /\ ConnectCall => OwnInv'
BY ConnectBeginStep, CandidateStep, ExhaustedStep, ConnectedStep, AnswerStep, SslConnectStep,
   TimedOutStep DEF ConnectCall, Connect
-----------------------------------------------------------------------------
LEMMA OwnInvInit == PairInit => OwnInv
<1> SUFFICES ASSUME PairInit PROVE OwnInv
  OBVIOUS
<1> USE DEF PairInit, SocketsInit, ConnectInit
<1>0. Ends = {"client", "server"} /\ writer \in Ends /\ Peer(writer) \in Ends
  BY PeerOK DEF Ends
<1>1. Empty \in Sockets /\ Vacant(Empty) /\ ~Empty.ssl /\ ~Empty.backend /\ Empty.sd = NoFd
  BY DEF Empty, Sockets, Vacant
<1>2. /\ sock = [e \in Ends |-> Empty] /\ phase = [e \in Ends |-> "init"]
      /\ result = [e \in Ends |-> "ok"]
      /\ sock["client"] = Empty /\ sock["server"] = Empty
      /\ phase["client"] = "init" /\ phase["server"] = "init"
      /\ result["client"] = "ok" /\ result["server"] = "ok"
  BY <1>0
<1>3. conn \in Calls /\ conn.pc = "none" /\ conn.sockfd = NoFd
  <2>1. 0 \in 0 .. MaxCandidates /\ 0 \in 0 .. Timeout /\ 0 \in Nat
    BY CandidatesAssumption, ConnectAssumption
  <2>2. Modes \in [nonblocking : BOOLEAN, rcvtimeo : BOOLEAN, sndtimeo : BOOLEAN]
    BY DEF Modes
  <2> QED BY <2>1, <2>2 DEF Calls
<1>4. NetOK(net)
  <2>1. <<>> \in Seq(Int) /\ Len(<<>>) = 0
    OBVIOUS
  <2> QED BY <2>1, SocketAssumption DEF NetOK, NoConnection, Connections
<1>5. Types
  <2>1. hs \in [Ends -> 0 .. Len(Script)]
    BY DEF Script
  <2>2. wnum \in [Ends -> 0 .. MessageLen] /\ sent \in 0 .. MessageLen
    BY SocketAssumption
  <2>3. listener \in Listeners
    BY DEF Listeners
  <2>4. sock \in [Ends -> Sockets]
    BY <1>1, <1>2
  <2>5. phase \in [Ends -> Phases] /\ result \in [Ends -> Results]
    BY DEF Phases, Results
  <2> QED BY <1>3, <1>4, <2>1, <2>2, <2>3, <2>4, <2>5 DEF Types
<1>6. WriteOK
  BY <1>0, SocketAssumption DEF WriteOK
<1>7. ClientOwns /\ ServerOwns
  BY <1>1, <1>2, <1>3 DEF ClientOwns, ServerOwns
<1>8. Distinct
  BY <1>1, <1>2, <1>3 DEF Distinct
<1>9. Accounted
  BY <1>0, <1>1, <1>2, <1>3 DEF Accounted, One
<1>10. ConnectOK
  BY <1>0, <1>2, <1>3 DEF ConnectOK, HandedOnBlocking, SplitTerminatorFound
<1> QED BY <1>5, <1>6, <1>7, <1>8, <1>9, <1>10 DEF OwnInv, Ownership

LEMMA OwnInvStutters == OwnInv /\ UNCHANGED pairVars => OwnInv'
<1> SUFFICES ASSUME OwnInv, UNCHANGED pairVars PROVE OwnInv'
  OBVIOUS
<1> USE DEF OwnInv, Ownership
<1>1. /\ UNCHANGED <<tls, sock, listener, open, heap, net, hs, wnum, result, sent, got,
                     timed, proxied, conn, api, writer, phase>>
  BY DEF pairVars, vars, connectVars, appVars
<1>2. Types'
  BY <1>1, TypesStay DEF Types
<1>3. WriteOK' /\ ClientOwns' /\ ServerOwns'
  BY <1>1, WriteStays, ClientStays, ServerStays
<1>4. Distinct' /\ Accounted'
  BY <1>1, OwnersStay
<1>5. ConnectOK'
  BY <1>1, ConnectStays DEF ConnectOK
<1> QED BY <1>2, <1>3, <1>4, <1>5

LEMMA OwnInvStep == OwnInv /\ [PairNext]_pairVars => OwnInv'
<1> SUFFICES ASSUME OwnInv, [PairNext]_pairVars PROVE OwnInv'
  OBVIOUS
<1>1. ASSUME NEW e \in Ends, Call(e) PROVE OwnInv'
  <2>1. CASE Init_client \/ ConnectCall \/ Begin \/ Continue
    BY <2>1, InitClientStep, ConnectCallStep, BeginStep, ContinueStep
  <2>2. CASE Init_server \/ AcceptCall \/ CloseListener
    BY <2>2, InitServerStep, AcceptStep, CloseListenerStep
  <2>3. CASE Handshake(e) \/ WriteCall(e) \/ ReadCall(e) \/ DeinitCall(e)
    BY <2>3, HandshakeStep, WriteStep, ReadStep, DeinitStep
  <2> QED BY <1>1, <2>1, <2>2, <2>3 DEF Call
<1>2. CASE ConnectDone \/ ProxyStep \/ ConnectionLost
  BY <1>2, KernelStep
<1>3. CASE Time
  BY <1>3, TimeStep
<1>4. CASE UNCHANGED pairVars
  BY <1>4, OwnInvStutters
<1> QED BY <1>1, <1>2, <1>3, <1>4 DEF PairNext

(* OwnInv is an invariant of every behaviour: it is inductive by itself,   *)
(* whatever is under way on the connection.                                *)
THEOREM OwnershipIsInductive == PairSpec => []OwnInv
BY OwnInvInit, OwnInvStep, PTL DEF PairSpec

LEMMA CountEnds ==
  ASSUME NEW S \in SUBSET Ends
  PROVE  Cardinality(S) = One("client" \in S) + One("server" \in S)
<1>1. Cardinality({}) = 0 /\ Cardinality({"client"}) = 1 /\ Cardinality({"server"}) = 1
  BY FS_EmptySet, FS_Singleton
<1>2. Cardinality({"client", "server"}) = 2
  <2>1. {"client", "server"} = {"client"} \cup {"server"} /\ "server" \notin {"client"}
    OBVIOUS
  <2>2. IsFiniteSet({"client"})
    BY FS_Singleton
  <2>3. Cardinality({"client"} \cup {"server"}) =
          IF "server" \in {"client"} THEN Cardinality({"client"}) ELSE Cardinality({"client"}) + 1
    BY <2>2, FS_AddElement
  <2> QED BY <1>1, <2>1, <2>3
<1>3. S = {} \/ S = {"client"} \/ S = {"server"} \/ S = {"client", "server"}
  BY DEF Ends
<1> QED BY <1>1, <1>2, <1>3 DEF One

(* No step of a call, whichever way it fails, loses or gives back twice a  *)
(* descriptor or a TLS object, for every number of addresses, every length *)
(* of the message and of the proxy's answer, and as few descriptors as     *)
(* three.                                                                  *)
THEOREM NothingLeaks == PairSpec => []ResourcesOwned
<1>1. OwnInv => ResourcesOwned
  <2> SUFFICES ASSUME OwnInv PROVE ResourcesOwned
    OBVIOUS
  <2> USE DEF OwnInv, Ownership
  <2>0. Ends = {"client", "server"} /\ NoFd \notin Fds
    BY SocketAssumption DEF Ends, Fds, NoFd
  <2>1. open = ({sock[e].sd : e \in Ends} \cup {listener.sd, conn.sockfd}) \ {NoFd}
    BY <2>0 DEF Accounted
  <2>2. open \subseteq Fds
    BY <2>0 DEF Types, Sockets, Listeners, Calls, Accounted
  <2>3. heap.backend = Cardinality({e \in Ends : sock[e].backend})
                         + (IF listener.backend THEN 1 ELSE 0)
    <3> DEFINE B == {e \in Ends : sock[e].backend}
    <3>1. Cardinality(B) = One("client" \in B) + One("server" \in B)
      BY CountEnds
    <3>2. One("client" \in B) = One(sock["client"].backend)
          /\ One("server" \in B) = One(sock["server"].backend)
      BY <2>0 DEF One
    <3> HIDE DEF B
    <3>3. Cardinality(B) = One(sock["client"].backend) + One(sock["server"].backend)
      BY <3>1, <3>2
    <3>4. heap.backend = Cardinality(B) + One(listener.backend)
      BY <3>3 DEF Accounted
    <3> QED BY <3>4 DEF B, One
  <2>4. heap.ssl = Cardinality({e \in Ends : sock[e].ssl})
    <3> DEFINE B == {e \in Ends : sock[e].ssl}
    <3>1. Cardinality(B) = One("client" \in B) + One("server" \in B)
      BY CountEnds
    <3>2. One("client" \in B) = One(sock["client"].ssl)
          /\ One("server" \in B) = One(sock["server"].ssl)
      BY <2>0 DEF One
    <3> HIDE DEF B
    <3>3. Cardinality(B) = One(sock["client"].ssl) + One(sock["server"].ssl)
      BY <3>1, <3>2
    <3> QED BY <3>3 DEF Accounted, B
  <2>5. heap \in [backend : 0 .. 3, ssl : 0 .. 2]
    <3>1. One(TRUE) = 1 /\ One(FALSE) = 0
      BY DEF One
    <3> QED BY DEF Accounted, One
  <2>6. TypeOK
    <3>1. /\ sock \in [Ends -> Sockets] /\ listener \in Listeners
          /\ net \in Connections /\ \A e \in Ends : Len(net.pipe[e]) <= PipeRoom
      BY DEF Types, NetOK
    <3>2. net.link \in {"none", "progress", "up", "refused", "reset"}
      BY <3>1 DEF Connections
    <3>3. conn.left \in 0 .. MaxCandidates /\ conn.remaining \in 0 .. Timeout
      BY DEF Types, Calls
    <3> QED BY <2>2, <2>5, <3>1, <3>2, <3>3 DEF TypeOK, Types, Sockets, Listeners
  <2>7. \A e \in Ends : phase[e] = "gone" =>
          sock[e].sd = NoFd /\ ~sock[e].backend /\ ~sock[e].ssl
    BY <2>0 DEF ClientOwns, ServerOwns, Vacant
  <2> QED BY <2>1, <2>3, <2>4, <2>6, <2>7 DEF ResourcesOwned
<1> QED BY <1>1, OwnershipIsInductive, PTL

(* The modes of the descriptor that a successful socket_connect hands on   *)
(* are those the calls after it are written for.                           *)
THEOREM BlockingAgain == PairSpec => []HandedOnBlocking
<1>1. OwnInv => HandedOnBlocking
  BY DEF OwnInv, ConnectOK
<1> QED BY <1>1, OwnershipIsInductive, PTL

(* The connect and the proxy's answer share one budget each, and no        *)
(* terminator is missed, however the answer is split.                      *)
THEOREM AnswerIsRead == PairSpec => []AnswerReadInTime
<1>1. OwnInv => AnswerReadInTime
  <2> SUFFICES ASSUME OwnInv PROVE AnswerReadInTime
    OBVIOUS
  <2>1. conn.spent \in Nat /\ conn.remaining \in 0 .. Timeout /\ Timeout \in Nat
    BY ConnectAssumption DEF OwnInv, Types, Calls
  <2>2. StepIsBounded
    BY <2>1 DEF OwnInv, ConnectOK, StepIsBounded
  <2> QED BY <2>2 DEF OwnInv, ConnectOK, AnswerReadInTime
<1> QED BY <1>1, OwnershipIsInductive, PTL

(* After a name was resolved socket_connect fails only when it has tried   *)
(* every address.                                                          *)
THEOREM EveryAddressIsTried == PairSpec => NoUntriedAddress
<1> DEFINE Tries == phase["client"] = "connect" /\ conn.pc # "none" /\ result'["client"] = "error"
                      => conn'.left = 0
<1>1. OwnInv /\ [PairNext]_pairVars => [Tries]_pairVars
  <2> SUFFICES ASSUME OwnInv, PairNext, phase["client"] = "connect", conn.pc # "none",
                      result'["client"] = "error"
               PROVE  conn'.left = 0
    OBVIOUS
  <2>1. result["client"] = "busy" /\ result \in [Ends -> Results] /\ Ends = {"client", "server"}
    BY DEF OwnInv, Ownership, ClientOwns, Types, Ends
  <2>2. \A e \in Ends : phase[e] # "gone" \/ e # "client"
    OBVIOUS
  <2>3. result' # result
    BY <2>1
  <2>4. \A r : Return("server", r) => result'["client"] = result["client"]
    BY <2>1 DEF Return
  <2>5. ASSUME NEW r, r # "error" PROVE ~Return("client", r)
    BY <2>1, <2>5 DEF Return
  <2>6. CASE ConnectCall
    <3>1. ~ConnectBegin /\ ~TimedOut
      BY <2>3 DEF ConnectBegin, TimedOut, Abandon
    <3>2. ~Candidate
      BY <2>3 DEF Candidate
    <3>3. \A c, n : ~Usable(c, n)
      BY <2>3, <2>5 DEF Usable, Abandon
    <3>4. ~Connected
      BY <2>3, <2>5, <3>3 DEF Connected, Abandon
    <3>5. ~Answer
      BY <2>3, <3>3 DEF Answer, Abandon
    <3>6. ~SslConnect
      BY <2>3, <2>5 DEF SslConnect, HandshakeFailed
    <3>7. Exhausted
      BY <2>6, <3>1, <3>2, <3>4, <3>5, <3>6 DEF ConnectCall, Connect
    <3>8. conn \in Calls
      BY DEF OwnInv, Types
    <3> QED BY <3>7, <3>8 DEF Exhausted, Calls
  <2>7. CASE Init_client \/ Begin \/ Continue
    BY <2>7 DEF Init_client, Begin, Continue, At
  <2>8. CASE Init_server \/ AcceptCall \/ CloseListener
    <3>1. ~Init_server
      BY <2>1, <2>4 DEF Init_server, InitListener
    <3>2. ~AcceptCall
      <4>1. ~Accept("server")
        BY <2>1, <2>4 DEF Accept
      <4>2. ~SslAccept("server")
        BY <2>1, <2>3, <2>4 DEF SslAccept, AcceptFailed
      <4>3. ~SocketAcceptNb("server")
        BY <2>1, <2>4 DEF SocketAcceptNb, AcceptNb
      <4> QED BY <4>1, <4>2, <4>3 DEF AcceptCall
    <3>3. ~CloseListener
      BY <2>3 DEF CloseListener, DeinitListener
    <3> QED BY <2>8, <3>1, <3>2, <3>3
  <2>9. ASSUME NEW e \in Ends, Handshake(e) \/ WriteCall(e) \/ ReadCall(e) \/ DeinitCall(e)
        PROVE  FALSE
    <3>1. e = "server"
      BY <2>1, <2>9 DEF Handshake, WriteCall, ReadCall, DeinitCall, At
    <3>2. ~DeinitCall(e)
      BY <2>3 DEF DeinitCall, Deinit
    <3>3. Then(e, "transfer") \/ Then(e, "deinit")
      BY <2>9, <3>2 DEF Handshake, WriteCall, ReadCall
    <3>4. ~Handshake(e)
      <4>1. \A out : ~TryAgain("server", out)
        BY <2>1, <2>4 DEF TryAgain
      <4> QED BY <2>1, <2>4, <3>1, <4>1 DEF Handshake, HandshakeNb
    <3>5. ~WriteCall(e)
      <4>1. \A out : ~TryAgain("server", out)
        BY <2>1, <2>4 DEF TryAgain
      <4>2. ~Write("server")
        BY <2>1, <2>4 DEF Write
      <4>3. ~WriteNb("server")
        BY <2>1, <2>4, <4>1 DEF WriteNb, WriteNbPlain, WriteNbTls
      <4> QED BY <3>1, <4>2, <4>3 DEF WriteCall
    <3>6. ~ReadCall(e)
      <4>1. \A b : ~Read("server", b)
        BY <2>1, <2>4 DEF Read
      <4>2. ~ReadNb("server")
        <5>1. \A out : ~TryAgain("server", out)
          BY <2>1, <2>4 DEF TryAgain
        <5>2. \A r \in (IF tls THEN SslReads("server") ELSE Receives("server")) :
                r.out \in {"data", "again", "want_read", "eof", "zero_return", "error"}
          BY <2>1, ReceivesOK, SslReadsOK DEF OwnInv
        <5>3. ReadNb("server") => \/ Return("server", "ok") \/ TryAgain("server", "want_read")
                                  \/ Return("server", "end_of_data")
                                  \/ Return("server", "error")
          BY <5>2 DEF ReadNb
        <5> QED BY <2>1, <2>4, <5>1, <5>3
      <4> QED BY <3>1, <4>1, <4>2 DEF ReadCall
    <3> QED BY <2>9, <3>2, <3>4, <3>5, <3>6
  <2>10. ~(ConnectDone \/ ProxyStep \/ ConnectionLost \/ Time)
    BY <2>3 DEF ConnectDone, ProxyStep, ConnectionLost, Time, Kernel, Clock, Tick, Interrupted, Waiting
  <2> QED BY <2>6, <2>7, <2>8, <2>9, <2>10 DEF PairNext, Call
<1> QED BY <1>1, OwnershipIsInductive, PTL DEF PairSpec, NoUntriedAddress
=============================================================================

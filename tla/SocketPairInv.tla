---------------------------- MODULE SocketPairInv ----------------------------
(***************************************************************************)
(* The inductive invariant of SocketPair, in layers that each rest on the  *)
(* ones before.  OwnInv: types, who owns which descriptor and TLS object,  *)
(* how far a socket_connect is; it keeps whatever is under way.  LinkInv:  *)
(* the state of the connection and what each end knows of it, content left *)
(* out.  Traffic and Heard: what is under way in each direction, and what  *)
(* was delivered of it.                                                    *)
(***************************************************************************)
EXTENDS SocketPair

Phases == {"init", "connect", "begin", "continue", "accept", "handshake", "transfer",
           "deinit", "gone"}
Results == {"ok", "error", "invalid_argument", "try_again", "busy", "end_of_data"}
Sockets == [sd : Fds \cup {NoFd}, tcp_connected : BOOLEAN, handshake_done : BOOLEAN,
            io_want : {"none", "read", "write"}, backend : BOOLEAN, ssl : BOOLEAN]
Listeners == [sd : Fds \cup {NoFd}, backend : BOOLEAN]
Connections == [link : {"none", "progress", "up", "refused", "reset"}, backlog : BOOLEAN,
                host : {"none", "server", "mute", "proxy"}, answer : Seq(Int),
                pipe : [Ends -> Seq(Int)], fin : [Ends -> BOOLEAN]]
Calls == [pc : {"none", "next", "connecting", "answer", "tls"}, left : 0 .. MaxCandidates,
          sockfd : Fds \cup {NoFd}, answer : Seq(Int), remaining : 0 .. Timeout, spent : Nat,
          modes : [nonblocking : BOOLEAN, rcvtimeo : BOOLEAN, sndtimeo : BOOLEAN]]

NetOK(n) == n \in Connections /\ \A e \in Ends : Len(n.pipe[e]) <= PipeRoom

Types ==
  /\ {tls, timed, proxied} \subseteq BOOLEAN
  /\ sock \in [Ends -> Sockets] /\ listener \in Listeners
  /\ NetOK(net)
  /\ hs \in [Ends -> 0 .. Len(Script)] /\ wnum \in [Ends -> 0 .. MessageLen]
  /\ sent \in 0 .. MessageLen
  /\ conn \in Calls
  /\ api \in [Ends -> {"nonblocking", "blocking"}] /\ writer \in Ends
  /\ phase \in [Ends -> Phases] /\ result \in [Ends -> Results]

(* What the writer has not reported yet is still to be sent; without TLS a *)
(* non-blocking write reports everything.                                  *)
WriteOK == /\ wnum[writer] <= MessageLen - sent /\ wnum[Peer(writer)] = 0
           /\ tls \/ Blocking(writer) \/ wnum[writer] = 0
-----------------------------------------------------------------------------
One(b) == IF b THEN 1 ELSE 0
Vacant(s) == s.sd = NoFd /\ ~s.backend /\ ~s.ssl

(* The client's descriptor is conn.sockfd until its socket_t takes it over. *)
ClientOwns ==
  LET s == sock["client"]
      p == phase["client"] IN
  /\ conn.sockfd # NoFd <=> conn.pc \in {"connecting", "answer"}
  /\ conn.pc # "none" => p = "connect" /\ result["client"] = "busy"
  /\ conn.pc = "tls" => tls /\ s.sd # NoFd /\ s.ssl
  /\ p \in {"init", "connect", "begin"} /\ conn.pc # "tls" => s.sd = NoFd /\ ~s.ssl
  /\ p \in {"continue", "handshake", "transfer"} => s.sd # NoFd
  /\ p \in {"connect", "begin", "continue", "handshake", "transfer"} => s.backend = tls
  /\ p \notin {"accept"}
  /\ p \in {"init", "gone"} => Vacant(s)

(* An accept that waits for the peer's handshake has everything, one that  *)
(* failed or has not begun nothing.                                        *)
ServerOwns ==
  LET s == sock["server"]
      p == phase["server"]
      busy == result["server"] = "busy" IN
  /\ p = "init" => listener = [sd |-> NoFd, backend |-> FALSE]
  /\ p \in {"init", "gone"} \/ (p = "accept" /\ ~busy) => Vacant(s)
  /\ p = "accept" /\ busy => tls /\ Blocking("server") /\ s.sd # NoFd /\ s.ssl
  /\ p \in {"handshake", "transfer"} => s.sd # NoFd
  /\ p \notin {"connect", "begin", "continue"}

Distinct ==
  LET c == sock["client"].sd
      s == sock["server"].sd
      k == conn.sockfd
      l == listener.sd IN
  /\ c # NoFd => k = NoFd /\ c \notin {s, l}
  /\ s # NoFd => s \notin {l, k}
  /\ l # NoFd => l # k

Accounted ==
  /\ open = {sock["client"].sd, sock["server"].sd, listener.sd, conn.sockfd} \ {NoFd}
  /\ heap = [backend |-> One(sock["client"].backend) + One(sock["server"].backend)
                           + One(listener.backend),
             ssl |-> One(sock["client"].ssl) + One(sock["server"].ssl)]
  /\ \A e \in Ends : sock[e].ssl => sock[e].backend /\ sock[e].sd # NoFd

Ownership == ClientOwns /\ ServerOwns /\ Distinct /\ Accounted
-----------------------------------------------------------------------------
(* The address that is tried is still counted, the budget of a step is     *)
(* used up tick by tick, the descriptor's modes are those of the step, and *)
(* the answer so far has no end in it and room for more.                   *)
ConnectOK ==
  /\ conn.pc \in {"connecting", "answer", "tls"} => conn.left > 0
  /\ conn.pc \in {"connecting", "answer"} => conn.spent + conn.remaining = Timeout
  /\ conn.pc = "connecting" => conn.modes = [Modes EXCEPT !.nonblocking = timed]
  /\ conn.pc = "answer" => conn.modes = [Modes EXCEPT !.rcvtimeo = timed]
  /\ conn.pc = "tls" => conn.modes = [Modes EXCEPT !.rcvtimeo = timed, !.sndtimeo = timed]
  /\ HandedOnBlocking /\ SplitTerminatorFound
  /\ conn.pc = "answer" => Len(conn.answer) < AnswerCapacity
  /\ phase["client"] = "connect" => Blocking("client")
  /\ \A e \in Ends : phase[e] \in {"begin", "continue", "handshake"} => ~Blocking(e)

(* What keeps by itself, whatever is under way.                            *)
OwnInv == Types /\ WriteOK /\ Ownership /\ ConnectOK
-----------------------------------------------------------------------------
Carried == sent + wnum[writer]

(* Segments of the handshake's first p that e sends.                       *)
SentBy(e, p) ==
  IF e = "client" THEN (IF p <= 3 THEN p ELSE IF p <= 6 THEN 3 ELSE 4)
  ELSE (IF p <= 3 THEN 0 ELSE IF p <= 6 THEN p - 3 ELSE 3)

(* There is one connection to the server; until it there is nothing.       *)
Reached == net.host = "server" /\ net.link \in {"up", "reset"}
Fresh == phase["client"] \in {"init", "begin"}
         \/ (phase["client"] = "connect" /\ conn.pc \in {"none", "next"} /\ net.host # "server")
Dialing == conn.pc \in {"connecting", "answer"}

LinkOK ==
  /\ \/ sock["server"].sd # NoFd \/ net.fin["server"] \/ net.backlog \/ hs["server"] # 0
     \/ writer = "server" /\ Carried > 0
     => Reached
  /\ Fresh => net = NoConnection
  /\ Dialing => net.link # "none" /\ net.host # "none"
  /\ net.fin["client"] => \/ phase["client"] \in {"deinit", "gone"}
                          \/ phase["client"] = "connect" /\ conn.pc = "next"
  /\ net.fin["server"] => phase["server"] \in {"deinit", "gone"}
  /\ \A e \in Ends : sock[e].sd # NoFd => ~net.fin[e]

(* One end: it is through the handshake when it transfers, has written     *)
(* nothing and not been told of the end before, and io_want is what its    *)
(* next step of the handshake or of the transfer needs.                    *)
EndOK(e) ==
  /\ phase[e] \in {"init", "begin"} \/ ~tls => hs[e] = 0
  /\ tls /\ (phase[e] = "transfer" \/ sock[e].handshake_done) => hs[e] = Len(Script)
  /\ sock[e].handshake_done => ~Blocking(e)
  /\ e = writer /\ Carried > 0 => phase[e] \in {"transfer", "deinit", "gone"}
  /\ result[e] = "end_of_data" => phase[e] \in {"deinit", "gone"}
  /\ phase[e] = "handshake" /\ result[e] = "try_again" =>
       /\ tls /\ hs[e] < Len(Script)
       /\ sock[e].io_want = IF Script[hs[e] + 1] = e THEN "write" ELSE "read"
  /\ phase[e] = "transfer" /\ result[e] = "try_again" /\ ~Blocking(e) =>
       sock[e].io_want = IF e = writer THEN "write" ELSE "read"
  /\ Blocking(e) => sock[e].io_want = "none"

(* What a proxy has said; a client that has got through it has heard all.  *)
Grant == <<Granted>> \o Terminator
ProxyOK ==
  /\ net.host = "proxy" \/ net.answer # <<>> \/ conn.pc = "answer" => proxied
  /\ \E a \in Answers : Len(net.answer) <= Len(a) /\ net.answer = SubSeq(a, 1, Len(net.answer))
  /\ net.host = "server" => net.answer = IF proxied THEN Grant ELSE <<>>

(* The state of the connection, its content left out.                      *)
LinkInv == LinkOK /\ ProxyOK /\ \A e \in Ends : EndOK(e)
-----------------------------------------------------------------------------
(* The client's position in the handshake is p; once it has closed its     *)
(* descriptor that is the one it had then.                                 *)
Reaches(p) ==
  /\ ~tls \/ Dialing => p = 0
  /\ sock["client"].sd # NoFd => p = hs["client"]
Place(e, p) == IF e = "client" THEN p ELSE hs["server"]

(* What is under way from e: the part of the proxy's answer that was not   *)
(* read, the segments of the handshake the peer has not taken, the bytes   *)
(* not delivered and the close_notify.                                     *)
Unread(e) == IF e = "server" /\ Dialing
             THEN Len(net.answer) - (IF conn.pc = "answer" THEN Len(conn.answer) ELSE 0) ELSE 0
Untaken(e, p) == SentBy(e, Place(e, p)) - SentBy(e, Place(Peer(e), p))
Undelivered(e) == IF e = writer THEN Carried - Len(got) ELSE 0

Segment(said, given, a, h, d, i) ==
  IF i <= a THEN said[Len(said) - a + i]
  ELSE IF i <= a + h THEN HelloSegment
  ELSE IF i <= a + h + d THEN given + i - a - h
  ELSE CloseNotify
Consists(pipe, said, given, a, h, d, t) ==
  /\ Len(pipe) = a + h + d + t
  /\ \A i \in 1 .. Len(pipe) : pipe[i] = Segment(said, given, a, h, d, i)

Underway(e, p) ==
  /\ Untaken(e, p) >= 0
  /\ tls /\ Undelivered(e) > 0 => Place(e, p) = Len(Script)
  /\ \E t \in 0 .. 1 :
       /\ Consists(net.pipe[e], net.answer, Len(got), Unread(e), Untaken(e, p), Undelivered(e), t)
       /\ t = 1 => net.fin[e] /\ tls /\ Place(e, p) = Len(Script) /\ wnum[e] = 0

(* An end that may still take something from the other's direction, and    *)
(* a connection that broke and lost it.                                    *)
Listens(e) == IF e = "client" THEN sock["client"].sd # NoFd \/ Dialing ELSE ~net.fin["server"]
Lost(e) == net.link = "reset" /\ net.pipe[e] = <<>>

Traffic ==
  \E p \in 0 .. Len(Script) :
    Reaches(p) /\ \A e \in Ends : Listens(Peer(e)) => Lost(e) \/ Underway(e, p)

(* What was delivered was handed over, and what socket_connect has of the  *)
(* proxy's answer is the beginning of it.                                  *)
Heard ==
  /\ got \in Seq(Int) /\ Len(got) <= Carried
  /\ conn.pc = "answer" => Len(conn.answer) <= Len(net.answer)
                           /\ conn.answer = SubSeq(net.answer, 1, Len(conn.answer))
  /\ sock["client"].sd # NoFd /\ net.host = "proxy" => net.answer = Grant

(* Together they say of every moment of a connection where the two ends    *)
(* are and that what lies between them is what the one has sent and the    *)
(* other not taken: no byte, segment of a handshake or part of a proxy's   *)
(* answer is skipped, repeated or eaten by the wrong reader (socket.c's    *)
(* connect, proxy, handshake, read and write paths).                       *)
PairInv == OwnInv /\ LinkInv /\ Traffic /\ Heard
=============================================================================

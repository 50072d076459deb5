---------------------------- MODULE SocketConnect ----------------------------
(***************************************************************************)
(* socket_connect of src/socket.c: for each address a name resolves to, a  *)
(* connect with a deadline, the receive timeout, the tunnel through a      *)
(* proxy and the TLS handshake, and the next address when one of them      *)
(* fails.  A call is several actions because it waits in the kernel.  Time *)
(* is a count of ticks; only the deadlines of this module use it.          *)
(***************************************************************************)
EXTENDS SocketBlocking

CONSTANTS Timeout,         \* bound: io_timeout_ms in ticks, where it is not 0
          AnswerCapacity   \* SOCKET_PROXY_RESPONSE_MAXIMUM_SIZE

ASSUME ConnectAssumption == Timeout \in Nat \ {0} /\ AnswerCapacity \in Nat \ {0}

VARIABLES timed,    \* io_timeout_ms is not 0
          proxied,  \* a proxy is configured
          conn      \* locals of the call and modes of its descriptor

connectVars == <<timed, proxied, conn>>

Modes == [nonblocking |-> FALSE, rcvtimeo |-> FALSE, sndtimeo |-> FALSE]
ConnectInit ==
  /\ timed \in BOOLEAN /\ proxied \in BOOLEAN
  /\ conn = [pc |-> "none", left |-> 0, sockfd |-> NoFd, answer |-> <<>>,
             remaining |-> 0, spent |-> 0, modes |-> Modes]

(* What a proxy says, in segments: a status line, and the CR LF CR LF that *)
(* ends its headers.                                                       *)
Granted == -1
Denied == -2
CR == -3
LF == -4
Terminator == <<CR, LF, CR, LF>>
Answers == {<<Granted>> \o Terminator, <<Denied>> \o Terminator,
            [i \in 1 .. AnswerCapacity + 1 |-> Granted]}

(* The proxy sends one more of an answer; with the end of a grant its      *)
(* tunnel reaches the server.                                              *)
ProxyAnswers ==
  /\ net.host = "proxy" /\ net.link = "up" /\ Room("server") > 0
  /\ \E a \in Answers :
       LET said  == Append(net.answer, a[Len(net.answer) + 1])
           grant == said = <<Granted>> \o Terminator /\ Listening IN
       /\ Len(net.answer) < Len(a) /\ said = SubSeq(a, 1, Len(said))
       /\ net' = [net EXCEPT !.pipe["server"] = Append(@, Last(said)), !.answer = said,
                             !.host = IF grant THEN "server" ELSE @, !.backlog = grant]
-----------------------------------------------------------------------------
Unchanged == UNCHANGED <<tls, listener, wnum, sent, got, timed, proxied>>
Waiting == UNCHANGED <<sock, open, heap, net, hs, result>> /\ Unchanged

(* close(sockfd).  The server, once it was reached, sees the end of the    *)
(* connection.                                                             *)
Cut(n) == IF n.host = "server" /\ n.link \in {"up", "reset"} THEN Hangup("client", n) ELSE NoConnection
NextAddress == [conn EXCEPT !.pc = "next", !.left = @ - 1, !.sockfd = NoFd]
Abandon ==
  /\ conn' = NextAddress
  /\ open' = Closed(open, conn.sockfd)
  /\ net' = Cut(net)
  /\ UNCHANGED <<sock, heap, hs, result>>

(* A configuration that cannot be used; getaddrinfo.                       *)
ConnectBegin ==
  /\ conn.pc = "none"
  /\ \/ proxied /\ Return("client", "invalid_argument") /\ UNCHANGED conn
     \/ Return("client", "error") /\ UNCHANGED conn
     \/ \E k \in 1 .. MaxCandidates :
          conn' = [conn EXCEPT !.pc = "next", !.left = k] /\ Return("client", "busy")
  /\ UNCHANGED <<sock, open, heap, net, hs>> /\ Unchanged

(* The hosts behind an address: the server or a proxy to it, and one that  *)
(* never says anything.  Once the server was reached the others are down.  *)
Hosts == IF net.host = "server" THEN {} ELSE {"mute", IF proxied THEN "proxy" ELSE "server"}

(* socket() and connect(), or their failure.                               *)
Candidate ==
  /\ conn.pc = "next" /\ conn.left > 0
  /\ \/ conn' = NextAddress /\ UNCHANGED <<open, net>>
     \/ \E h \in Hosts :
          /\ conn' = [conn EXCEPT !.pc = "connecting", !.sockfd = LowestFree(open),
                                  !.modes = [Modes EXCEPT !.nonblocking = timed],
                                  !.remaining = Timeout, !.spent = 0]
          /\ open' = Opened(open)
          /\ net' = [NoConnection EXCEPT !.link = "progress", !.host = h]
  /\ UNCHANGED <<sock, heap, hs, result>> /\ Unchanged

Exhausted ==
  /\ conn.pc = "next" /\ conn.left = 0
  /\ Return("client", "error") /\ conn' = [conn EXCEPT !.pc = "none"]
  /\ UNCHANGED <<sock, open, heap, net, hs>> /\ Unchanged

(* The deadline of a step is computed once; poll waits for what is left of *)
(* it, again after an interruption.                                        *)
Polling == conn.pc \in {"connecting", "answer"} /\ timed
LeftOver(b) == b
Tick ==
  /\ Polling /\ conn.remaining > 0
  /\ conn' = [conn EXCEPT !.remaining = @ - 1, !.spent = @ + 1]
  /\ Waiting
Interrupted == Polling /\ conn' = [conn EXCEPT !.remaining = LeftOver(@)] /\ Waiting
TimedOut == Polling /\ conn.remaining = 0 /\ Abandon /\ Unchanged

(* client->sd = sockfd: without TLS that is all; with it the session is    *)
(* made, with a send timeout while it shakes hands.                        *)
HandshakeModes_Fault(m) == m
HandshakeModes(m) == [m EXCEPT !.sndtimeo = timed]
Usable(c, n) ==
  \/ /\ ~tls
     /\ conn' = [c EXCEPT !.pc = "none", !.sockfd = NoFd]
     /\ sock' = [sock EXCEPT !["client"].sd = conn.sockfd]
     /\ net' = n
     /\ Return("client", "ok") /\ UNCHANGED <<open, heap, hs>>
  \/ /\ tls
     /\ conn' = [c EXCEPT !.pc = "tls", !.sockfd = NoFd, !.modes = HandshakeModes(@)]
     /\ sock' = [sock EXCEPT !["client"].sd = conn.sockfd, !["client"].ssl = TRUE]
     /\ heap' = [heap EXCEPT !.ssl = @ + 1]
     /\ hs' = [hs EXCEPT !["client"] = 0]
     /\ net' = n
     /\ UNCHANGED <<open, result>>
  \/ tls /\ Abandon  \* SSL_new, SSL_set_fd or SO_SNDTIMEO fails

(* connect_with_deadline is over: back to blocking, apply_io_timeout, and  *)
(* with a proxy the CONNECT request.                                       *)
Restored_Fault == [conn.modes EXCEPT !.rcvtimeo = timed]
Restored == [conn.modes EXCEPT !.nonblocking = FALSE, !.rcvtimeo = timed]
Connected ==
  /\ conn.pc = "connecting" /\ net.link # "progress"
  /\ \/ Abandon  \* refused, or one of these fails
     \/ /\ proxied  \* a remote that cannot be asked for
        /\ conn' = [NextAddress EXCEPT !.pc = "none"]
        /\ open' = Closed(open, conn.sockfd) /\ net' = Cut(net)
        /\ Return("client", "invalid_argument") /\ UNCHANGED <<sock, heap, hs>>
     \/ /\ ~proxied /\ net.link = "up"
        /\ Usable([conn EXCEPT !.modes = Restored], net)
     \/ /\ proxied /\ net.link = "up"
        /\ conn' = [conn EXCEPT !.pc = "answer", !.answer = <<>>, !.modes = Restored,
                                !.remaining = Timeout, !.spent = 0]
        /\ UNCHANGED <<sock, open, heap, net, hs, result>>
  /\ Unchanged

(* proxy_read_response: peeks, looks for the terminator from a little      *)
(* before the new bytes, and takes out the answer and not one byte more.   *)
SearchStart(length) == IF length >= 3 THEN length - 3 ELSE 0
Ended(bytes, length) ==
  {i \in SearchStart(length) + 4 .. Len(bytes) : SubSeq(bytes, i - 3, i) = Terminator}
AnswerEnd_Fault(bytes, length) == Len(bytes)
AnswerEnd(bytes, length) ==
  IF Ended(bytes, length) # {} THEN Min(Ended(bytes, length)) ELSE Len(bytes)
SharedBudget_Fault(b) == Timeout
SharedBudget(b) == b

Answer ==
  /\ conn.pc = "answer" /\ Readable("client")
  /\ LET length == Len(conn.answer)
         peeked == Min({Len(Inbox("client")), AnswerCapacity - length})
         bytes  == conn.answer \o SubSeq(Inbox("client"), 1, peeked)
         taken  == SubSeq(bytes, 1, AnswerEnd(bytes, length))
         after  == Taken("client", Len(taken) - length)
         full   == Ended(bytes, length) = {} /\ Len(taken) >= AnswerCapacity
     IN  CASE peeked = 0 \/ full -> Abandon  \* closed, broken, or too long
           [] peeked > 0 /\ ~full /\ Ended(bytes, length) = {} ->
                /\ conn' = [conn EXCEPT !.answer = taken, !.remaining = SharedBudget(@)]
                /\ net' = after /\ UNCHANGED <<sock, open, heap, hs, result>>
           [] OTHER -> IF Head(taken) = Granted THEN Usable([conn EXCEPT !.answer = <<>>], after)
                       ELSE Abandon  \* no 2xx
  /\ Unchanged

(* client_tls_handshake: on failure the session is freed, the descriptor   *)
(* closed and the object as it was; else writes are unbounded again.       *)
HandshakeFailed_Fault ==
  /\ sock' = [sock EXCEPT !["client"].sd = NoFd, !["client"].ssl = FALSE]
  /\ heap' = [heap EXCEPT !.ssl = @ - 1]
  /\ open' = Closed(open, sock["client"].sd)
  /\ conn' = [NextAddress EXCEPT !.pc = "none"]
  /\ Return("client", "error")
HandshakeFailed ==
  /\ sock' = [sock EXCEPT !["client"].sd = NoFd, !["client"].ssl = FALSE]
  /\ heap' = [heap EXCEPT !.ssl = @ - 1]
  /\ open' = Closed(open, sock["client"].sd)
  /\ conn' = NextAddress
  /\ UNCHANGED result

Expires(out) == \/ out = "want_read" /\ conn.modes.rcvtimeo
                \/ out = "want_write" /\ conn.modes.sndtimeo
SslConnect ==
  /\ conn.pc = "tls"
  /\ \E o \in Handshakes("client") :
       /\ hs' = [hs EXCEPT !["client"] = o.hs]
       /\ \/ /\ o.out = "done"
             /\ conn' = [conn EXCEPT !.pc = "none", !.modes.sndtimeo = FALSE]
             /\ Return("client", "ok") /\ net' = o.net /\ UNCHANGED <<sock, heap, open>>
          \/ /\ o.out \in {"want_read", "want_write"} /\ <<o.hs, o.net>> # <<hs["client"], net>>
             /\ net' = o.net /\ UNCHANGED <<sock, heap, open, conn, result>>
          \/ /\ o.out = "fail"
                \/ (timed /\ o.out = "done")
                \/ (<<o.hs, o.net>> = <<hs["client"], net>> /\ Expires(o.out))
             /\ HandshakeFailed /\ net' = Cut(o.net)
  /\ Unchanged

Connect == \/ ConnectBegin \/ Candidate \/ Exhausted \/ Connected \/ Answer \/ SslConnect
           \/ TimedOut
Clock == Tick \/ Interrupted
=============================================================================

------------------------------ MODULE SocketNb ------------------------------
(***************************************************************************)
(* The non-blocking operations of src/socket.c.  Each is one action: it    *)
(* never waits, and reports in io_want what to wait for before the next    *)
(* call.                                                                   *)
(***************************************************************************)
EXTENDS Socket, SequencesExt

CONSTANT MaxCandidates  \* bound: addresses a name resolves to

ASSUME CandidatesAssumption == MaxCandidates \in Nat

(* The outcomes of one address: socket() or O_NONBLOCK fails, connect()    *)
(* succeeds, is in progress or fails.                                      *)
Outcomes == {"nosocket", "noblock", "progress", "refused"}
            \cup (IF Listening THEN {"connected"} ELSE {})

GiveUp_Fault(fds, f) == fds
GiveUp(fds, f) == Closed(fds, f)

(* One round of the loop over the addresses; a descriptor ends it.         *)
TryCandidate(a, outcome) ==
  LET f == LowestFree(a.open) IN
  IF a.sd # NoFd \/ outcome = "nosocket" THEN a
  ELSE IF outcome \in {"noblock", "refused"} THEN [a EXCEPT !.open = GiveUp(Opened(@), f)]
  ELSE [a EXCEPT !.open = Opened(@), !.sd = f, !.progress = (outcome = "progress")]

Tried(outcomes) ==
  LET try[i \in 0 .. Len(outcomes)] ==
        IF i = 0 THEN [open |-> open, sd |-> NoFd, progress |-> FALSE]
        ELSE TryCandidate(try[i - 1], outcomes[i])
  IN  try[Len(outcomes)]

(* socket_connect_nb_begin; without any address the resolution failed.     *)
(* Only socket_connect goes through a proxy.                               *)
ConnectNbRefused(e) ==
  Return(e, "invalid_argument")
  /\ UNCHANGED <<tls, sock, listener, open, heap, net, hs, wnum, sent, got>>

ConnectNbBegin(e) ==
  \E k \in 0 .. MaxCandidates : \E outcomes \in [1 .. k -> Outcomes] :
    LET a == Tried(outcomes) IN
    /\ open' = a.open
    /\ IF a.sd = NoFd
       THEN Return(e, "error") /\ UNCHANGED <<sock, net>>
       ELSE /\ sock' = [sock EXCEPT ![e].sd = a.sd, ![e].tcp_connected = ~a.progress,
                                    ![e].io_want = IF a.progress THEN "write" ELSE "none"]
            /\ net' = [net EXCEPT !.link = IF a.progress THEN "progress" ELSE "up",
                                  !.host = "server", !.backlog = ~a.progress]
            /\ Return(e, "ok")
    /\ UNCHANGED <<tls, listener, heap, hs, wnum, sent, got>>

(* The TLS state is made on the first call after TCP is up.                *)
Prime(e) ==
  LET s == [sock[e] EXCEPT !.tcp_connected = TRUE] IN
  \/ /\ ~tls
     /\ sock' = [sock EXCEPT ![e] = [s EXCEPT !.handshake_done = TRUE, !.io_want = "none"]]
     /\ Return(e, "ok") /\ UNCHANGED heap
  \/ /\ tls /\ ~s.ssl
     /\ \/ /\ sock' = [sock EXCEPT ![e] = [s EXCEPT !.ssl = TRUE, !.io_want = "read"]]
           /\ heap' = [heap EXCEPT !.ssl = @ + 1]
           /\ Return(e, "ok")
        \/ sock' = [sock EXCEPT ![e] = s] /\ Return(e, "error") /\ UNCHANGED heap
  \/ /\ tls /\ s.ssl
     /\ sock' = [sock EXCEPT ![e] = s]
     /\ Return(e, "ok") /\ UNCHANGED heap

(* socket_connect_nb_continue.  SO_ERROR is 0 while the connect is still   *)
(* in progress, so an early call takes the connection for established.     *)
ConnectNbContinue(e) ==
  /\ IF ~sock[e].tcp_connected /\ net.link = "refused"
     THEN Return(e, "error") /\ UNCHANGED <<sock, heap>>
     ELSE Prime(e)
  /\ UNCHANGED <<tls, listener, open, net, hs, wnum, sent, got>>

(* socket_accept_nb: the ways it fails once it has a descriptor.           *)
AcceptFault == {"noblock", "nobackend", "nossl"}
AcceptUndone(fds, f) == Closed(fds, f)

AcceptNb(e) ==
  \/ ~net.backlog /\ Return(e, "try_again")
     /\ sock' = [sock EXCEPT ![e] = Empty]
     /\ UNCHANGED <<open, heap, net>>
  \/ Return(e, "error")
     /\ sock' = [sock EXCEPT ![e] = Empty]
     /\ UNCHANGED <<open, heap, net>>
  \/ \E fault \in IF tls THEN AcceptFault ELSE {"noblock"} :
       /\ net.backlog
       /\ sock' = [sock EXCEPT ![e] = Empty]
       /\ open' = AcceptUndone(Opened(open), LowestFree(open))
       /\ net' = Hangup(e, [net EXCEPT !.backlog = FALSE])
       /\ Return(e, "error") /\ UNCHANGED heap
  \/ /\ net.backlog
     /\ sock' = [sock EXCEPT ![e] =
                   [sd |-> LowestFree(open), tcp_connected |-> TRUE, handshake_done |-> ~tls,
                    io_want |-> "read", backend |-> tls, ssl |-> tls]]
     /\ open' = Opened(open)
     /\ heap' = IF tls THEN [heap EXCEPT !.backend = @ + 1, !.ssl = @ + 1] ELSE heap
     /\ net' = [net EXCEPT !.backlog = FALSE]
     /\ Return(e, "ok")

SocketAcceptNb(e) == AcceptNb(e) /\ UNCHANGED <<tls, listener, hs, wnum, sent, got>>

(* SSL_get_error to io_want.                                               *)
Wanted_Fault(out) == "read"
Wanted(out) == CASE out = "want_read" -> "read" [] out = "want_write" -> "write"
TryAgain(e, out) ==
  /\ sock' = [sock EXCEPT ![e].io_want = Wanted(out)]
  /\ Return(e, "try_again")

(* socket_handshake_nb.                                                    *)
HandshakeNb(e) ==
  /\ \/ /\ ~tls \/ sock[e].handshake_done
        /\ sock' = [sock EXCEPT ![e].handshake_done = TRUE, ![e].io_want = "none"]
        /\ Return(e, "ok") /\ UNCHANGED <<hs, net>>
     \/ /\ tls /\ ~sock[e].handshake_done
        /\ \E o \in Handshakes(e) :
             /\ hs' = [hs EXCEPT ![e] = o.hs] /\ net' = o.net
             /\ CASE o.out = "done" ->
                       /\ sock' = [sock EXCEPT ![e].handshake_done = TRUE, ![e].io_want = "none"]
                       /\ Return(e, "ok")
                  [] o.out = "fail" -> Return(e, "error") /\ UNCHANGED sock
                  [] OTHER -> TryAgain(e, o.out)
  /\ UNCHANGED <<tls, listener, open, heap, wnum, sent, got>>

(* socket_write_nb of the rest of the message.                             *)
Rest == [i \in 1 .. MessageLen - sent |-> sent + i]
Reported_FaultPartial(n) == sent' = IF n = Len(Rest) THEN sent + n ELSE sent
Reported(n) == sent' = sent + n

WriteNbPlain(e) == \E s \in Sends(e, Rest) :
  /\ net' = s.net
  /\ CASE s.out = "error" -> Return(e, "error") /\ UNCHANGED <<sock, sent>>
       [] s.out = "again" -> TryAgain(e, "want_write") /\ UNCHANGED sent
       [] s.out = "sent" /\ s.n < Len(Rest) -> TryAgain(e, "want_write") /\ Reported(s.n)
       [] OTHER -> /\ sock' = [sock EXCEPT ![e].io_want = "none"]
                   /\ Return(e, "ok") /\ Reported(s.n)
  /\ UNCHANGED wnum

WriteNbTls(e) == \E s \in SslWrites(e, Rest) :
  /\ net' = s.net /\ wnum' = [wnum EXCEPT ![e] = s.wnum]
  /\ CASE s.out = "error" -> Return(e, "error") /\ UNCHANGED <<sock, sent>>
       [] s.out = "want_write" -> TryAgain(e, "want_write") /\ UNCHANGED sent
       [] OTHER -> /\ sock' = [sock EXCEPT ![e].io_want = "none"]
                   /\ Return(e, "ok") /\ Reported(s.n)

WriteNb(e) ==
  /\ IF tls THEN WriteNbTls(e) ELSE WriteNbPlain(e)
  /\ UNCHANGED <<tls, listener, open, heap, hs, got>>

(* socket_read_nb; io_want is not updated at the end of the data.          *)
ReadNb(e) ==
  /\ \E r \in IF tls THEN SslReads(e) ELSE Receives(e) :
       /\ net' = r.net /\ got' = got \o r.data
       /\ CASE r.out = "data" -> /\ sock' = [sock EXCEPT ![e].io_want = "none"]
                                 /\ Return(e, "ok")
            [] r.out = "again" -> TryAgain(e, "want_read")
            [] r.out = "want_read" -> TryAgain(e, "want_read")
            [] r.out \in {"eof", "zero_return"} -> Return(e, "end_of_data") /\ UNCHANGED sock
            [] r.out = "error" -> Return(e, "error") /\ UNCHANGED sock
  /\ UNCHANGED <<tls, listener, open, heap, hs, wnum, sent>>
=============================================================================

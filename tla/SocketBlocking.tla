--------------------------- MODULE SocketBlocking ---------------------------
(***************************************************************************)
(* The blocking operations of src/socket.c on an accepted connection.  A   *)
(* call that has to wait in the kernel takes several actions; between them *)
(* result is "busy".                                                       *)
(***************************************************************************)
EXTENDS SocketNb

(* socket_accept takes the connection and, with TLS, goes on to SSL_accept.*)
Accept(e) ==
  /\ result[e] # "busy"
  /\ \/ /\ net.backlog
        /\ sock' = [sock EXCEPT ![e] =
                      [Empty EXCEPT !.sd = LowestFree(open), !.backend = tls, !.ssl = tls]]
        /\ open' = Opened(open)
        /\ heap' = IF tls THEN [heap EXCEPT !.backend = @ + 1, !.ssl = @ + 1] ELSE heap
        /\ net' = [net EXCEPT !.backlog = FALSE]
        /\ Return(e, IF tls THEN "busy" ELSE "ok")
     \/ /\ net.backlog /\ tls  \* no backend
        /\ sock' = [sock EXCEPT ![e] = Empty]
        /\ open' = AcceptUndone(Opened(open), LowestFree(open))
        /\ net' = Hangup(e, [net EXCEPT !.backlog = FALSE])
        /\ Return(e, "error") /\ UNCHANGED heap
     \/ /\ sock' = [sock EXCEPT ![e] = Empty]
        /\ Return(e, "error") /\ UNCHANGED <<open, heap, net>>
  /\ UNCHANGED <<tls, listener, hs, wnum, sent, got>>

(* SSL_accept: on failure the backend is destroyed, then the descriptor.   *)
AcceptFailed(e) ==
  /\ sock' = [sock EXCEPT ![e] = [BackendDestroyed(@) EXCEPT !.sd = NoFd]]
  /\ heap' = HeapWithout(sock[e])
  /\ open' = Closed(open, sock[e].sd)
  /\ Return(e, "error")

SslAccept(e) ==
  /\ result[e] = "busy" /\ sock[e].ssl
  /\ \E o \in Handshakes(e) :
       /\ hs' = [hs EXCEPT ![e] = o.hs]
       /\ CASE o.out = "done" -> Return(e, "ok") /\ net' = o.net /\ UNCHANGED <<sock, heap, open>>
            [] o.out = "fail" -> AcceptFailed(e) /\ net' = Hangup(e, o.net)
            [] OTHER -> /\ <<o.hs, o.net>> # <<hs[e], net>>
                        /\ net' = o.net /\ UNCHANGED <<sock, heap, open, result>>
  /\ UNCHANGED <<tls, listener, wnum, sent, got>>

(* socket_write: sends until nothing is left; what part of it was sent is  *)
(* local to the call (wnum) and not reported when it fails.                *)
Write(e) ==
  /\ \E s \in Sends(e, SubSeq(Rest, wnum[e] + 1, Len(Rest))) :
       /\ net' = s.net
       /\ CASE s.out = "error" -> Return(e, "error") /\ UNCHANGED <<wnum, sent>>
            [] s.out = "sent" /\ wnum[e] + s.n = Len(Rest) ->
                 Return(e, "ok") /\ Reported(Len(Rest)) /\ wnum' = [wnum EXCEPT ![e] = 0]
            [] s.out = "sent" /\ wnum[e] + s.n < Len(Rest) ->
                 Return(e, "busy") /\ wnum' = [wnum EXCEPT ![e] = @ + s.n] /\ UNCHANGED sent
            [] OTHER -> FALSE  \* waits in the kernel
  /\ UNCHANGED <<tls, sock, listener, open, heap, hs, got>>

(* socket_read: waits for data in the kernel, for io_timeout_ms if it was   *)
(* set on the descriptor.                                                  *)
Read(e, bounded) ==
  /\ \E r \in IF tls THEN SslReads(e) ELSE Receives(e) :
       /\ bounded \/ r.out \notin {"again", "want_read"}
       /\ net' = r.net /\ got' = got \o r.data
       /\ Return(e, CASE r.out = "data" -> "ok"
                      [] r.out \in {"eof", "zero_return"} -> "end_of_data"
                      [] r.out \in {"again", "want_read"} -> "try_again"
                      [] OTHER -> "error")
  /\ UNCHANGED <<tls, sock, listener, open, heap, hs, wnum, sent>>
=============================================================================

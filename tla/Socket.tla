------------------------------- MODULE Socket -------------------------------
(***************************************************************************)
(* socket_t of src/socket.c at the two ends of one connection, and what    *)
(* the operations stand on: the process's descriptors, the kernel's TCP    *)
(* connection and OpenSSL.  The kernel's and OpenSSL's calls are operators *)
(* that give the set of their possible outcomes.                           *)
(***************************************************************************)
EXTENDS Integers, Sequences, FiniteSets, FiniteSetsExt

CONSTANTS MaxFds,      \* bound: descriptors of the process
          PipeRoom,    \* bound: segments the kernel buffers per direction
          MessageLen   \* bound: bytes one end sends to the other

ASSUME SocketAssumption ==
  MaxFds \in Nat \ {0, 1} /\ PipeRoom \in Nat \ {0} /\ MessageLen \in Nat \ {0}

Ends == {"client", "server"}
Peer(e) == IF e = "client" THEN "server" ELSE "client"
Fds == 0 .. MaxFds
NoFd == -1

VARIABLES tls,        \* tls.enabled, the same at both ends
          sock,       \* the socket_t of each end of the connection
          listener,   \* the server's listening socket_t
          open,       \* the descriptors the process holds
          heap,       \* live TLS objects of the two ends: backends and SSLs
          net,        \* the TCP connection
          hs, wnum,   \* OpenSSL: handshake position; part of a write it sent
          result,     \* what the end's last call returned
          sent, got   \* what its write and read calls reported

vars == <<tls, sock, listener, open, heap, net, hs, wnum, result, sent, got>>

Empty == [sd |-> NoFd, tcp_connected |-> FALSE, handshake_done |-> FALSE,
          io_want |-> "none", backend |-> FALSE, ssl |-> FALSE]

NoConnection == [link |-> "none", backlog |-> FALSE, host |-> "none", answer |-> <<>>,
                 pipe |-> [e \in Ends |-> <<>>], fin |-> [e \in Ends |-> FALSE]]

SocketsInit ==
  /\ tls \in BOOLEAN
  /\ sock = [e \in Ends |-> Empty]
  /\ listener = [sd |-> NoFd, backend |-> FALSE]
  /\ open = {} /\ heap = [backend |-> 0, ssl |-> 0]
  /\ net = NoConnection
  /\ hs = [e \in Ends |-> 0] /\ wnum = [e \in Ends |-> 0]
  /\ result = [e \in Ends |-> "ok"]
  /\ sent = 0 /\ got = <<>>
-----------------------------------------------------------------------------
(* The kernel.                                                             *)

LowestFree(fds) == Min(Fds \ fds)
Opened(fds) == fds \cup {LowestFree(fds)}
Closed(fds, f) == fds \ {f}

Inbox(e) == net.pipe[Peer(e)]
Room(e) == IF net.link = "up" THEN PipeRoom - Len(net.pipe[e]) ELSE 0
Dead == net.link \in {"refused", "reset"}

(* poll() on a connected descriptor.                                       *)
Readable(e) == Dead \/ Inbox(e) # <<>> \/ net.fin[Peer(e)]
Writable(e) == Dead \/ Room(e) > 0 \/ (net.link = "up" /\ net.fin[Peer(e)])
Ready(e) == CASE sock[e].io_want = "read" -> Readable(e)
              [] sock[e].io_want = "write" -> Writable(e)
              [] OTHER -> TRUE

(* A segment for a descriptor that was closed is answered by a reset.      *)
Sent(e, n, segments) ==
  IF n.fin[Peer(e)] THEN [n EXCEPT !.link = "reset"]
  ELSE [n EXCEPT !.pipe[e] = @ \o segments]
Taken(e, k) == [net EXCEPT !.pipe[Peer(e)] = SubSeq(@, k + 1, Len(@))]

(* What a receive that finds no data reports.                              *)
Drained(e) == IF Dead THEN "error" ELSE IF net.fin[Peer(e)] THEN "eof" ELSE "again"

(* close(): unread data makes it a reset.                                  *)
Hangup(e, n) ==
  IF n.link = "up" /\ n.pipe[Peer(e)] # <<>>
  THEN [n EXCEPT !.link = "reset", !.fin[e] = TRUE] ELSE [n EXCEPT !.fin[e] = TRUE]

(* send(): as much as there is room for.                                   *)
Sends(e, data) ==
  LET k == IF net.fin[Peer(e)] THEN Len(data) ELSE Min({Len(data), Room(e)}) IN
  {IF Dead THEN [out |-> "error", n |-> 0, net |-> net]
   ELSE IF k = 0 THEN [out |-> "again", n |-> 0, net |-> net]
   ELSE [out |-> "sent", n |-> k, net |-> Sent(e, net, SubSeq(data, 1, k))]}

(* recv(), into a buffer of one segment.                                   *)
Receives(e) ==
  IF Inbox(e) = <<>> THEN {[out |-> Drained(e), data |-> <<>>, net |-> net]}
  ELSE {[out |-> "data", data |-> <<Head(Inbox(e))>>, net |-> Taken(e, 1)]}

(* Outside the calls: a pending connect ends, a connection breaks, and a   *)
(* broken one loses what was still on its way.                             *)
Listening == listener.sd # NoFd
ConnectEnds ==
  /\ net.link = "progress"
  /\ \/ net.host = "server" /\ Listening /\ net' = [net EXCEPT !.link = "up", !.backlog = TRUE]
     \/ net.host \in {"mute", "proxy"} /\ net' = [net EXCEPT !.link = "up"]
     \/ net' = [net EXCEPT !.link = "refused"]
Breaks == net.link = "up" /\ net' = [net EXCEPT !.link = "reset"]
Loses == \E e \in Ends :
  /\ net.link = "reset" /\ net.pipe[e] # <<>>
  /\ net' = [net EXCEPT !.pipe[e] = <<>>]
-----------------------------------------------------------------------------
(* OpenSSL.  A handshake is a script of segments, each sent by one end; a  *)
(* flight can be longer than the kernel's buffer.                          *)
Script == <<"client", "client", "client", "server", "server", "server", "client">>
HelloSegment == 0              \* segments are numbers: the bytes of the message,
CloseNotify == MessageLen + 1  \* and around them what TLS adds
NextOf(e, p) == Min({q \in p .. Len(Script) : q = Len(Script) \/ Script[q + 1] = e})

(* SSL_do_handshake: receives and sends as far as it gets.                 *)
Handshakes(e) ==
  LET toRead == NextOf(e, hs[e])
      toSend == NextOf(Peer(e), toRead)
      taken  == Min({toRead - hs[e], Len(Inbox(e))})
      after  == Taken(e, taken)
      pushed == IF after.fin[Peer(e)] THEN toSend - toRead
                ELSE Min({toSend - toRead, Room(e)})
      stop(out, p, n) == [out |-> out, hs |-> p, net |-> n]
      moved  == Sent(e, after, [i \in 1 .. pushed |-> HelloSegment])
  IN  IF hs[e] + taken < toRead
      THEN {stop(IF Drained(e) = "again" THEN "want_read" ELSE "fail", hs[e] + taken, after)}
      ELSE (IF taken > 0 THEN {stop("fail", toRead, after)} ELSE {})  \* verification
           \cup
           {IF toSend > toRead /\ Dead THEN stop("fail", toRead, after)
            ELSE IF toRead + pushed < toSend THEN stop("want_write", toRead + pushed, moved)
            ELSE IF toSend = Len(Script) THEN stop("done", toSend, IF pushed > 0 THEN moved ELSE after)
            ELSE stop("want_read", toSend, moved)}

(* SSL_write: all of the data or nothing is reported; what was sent before *)
(* a WANT_WRITE is remembered for the repeated call.                       *)
SslWrites(e, data) ==
  LET part == SubSeq(data, wnum[e] + 1, Len(data)) IN
  {IF s.out = "error" THEN [out |-> "error", n |-> 0, wnum |-> wnum[e], net |-> net]
   ELSE IF wnum[e] + s.n = Len(data) THEN [out |-> "sent", n |-> Len(data), wnum |-> 0, net |-> s.net]
   ELSE [out |-> "want_write", n |-> 0, wnum |-> wnum[e] + s.n, net |-> s.net]
     : s \in Sends(e, part)}

(* SSL_read: the end of the data is the peer's close_notify, not its FIN.  *)
SslReads(e) ==
  {CASE r.out = "data" /\ Head(r.data) = CloseNotify ->
           [out |-> "zero_return", data |-> <<>>, net |-> net]
     [] r.out = "again" -> [r EXCEPT !.out = "want_read"]
     [] r.out = "eof" -> [r EXCEPT !.out = "error"]
     [] OTHER -> r
     : r \in Receives(e)}

(* SSL_shutdown: a close_notify after the handshake, if there is room.     *)
Shutdown(e, n) ==
  IF hs[e] = Len(Script) /\ n.link = "up" /\ Len(n.pipe[e]) < PipeRoom /\ wnum[e] = 0
  THEN Sent(e, n, <<CloseNotify>>) ELSE n
-----------------------------------------------------------------------------
(* The operations.                                                         *)

Return(e, r) == result' = [result EXCEPT ![e] = r]

(* socket_init: a malformed address or port is refused before anything is  *)
(* owned; the TLS backend and the listening descriptor that later failures *)
(* leave behind are the caller's.                                          *)
InitClient(e) ==
  /\ \/ Return(e, "invalid_argument") /\ UNCHANGED <<sock, heap>>
     \/ tls /\ Return(e, "error") /\ UNCHANGED <<sock, heap>>       \* no backend
     \/ /\ sock' = [sock EXCEPT ![e].backend = tls]
        /\ heap' = IF tls THEN [heap EXCEPT !.backend = @ + 1] ELSE heap
        /\ Return(e, "ok") \/ (tls /\ Return(e, "error"))         \* certificates
  /\ UNCHANGED <<tls, listener, open, net, hs, wnum, sent, got>>

InitListener(e) ==
  /\ \/ Return(e, "invalid_argument") /\ UNCHANGED <<listener, heap, open>>
     \/ tls /\ Return(e, "error") /\ UNCHANGED <<listener, heap, open>>
     \/ /\ listener' = [sd |-> NoFd, backend |-> tls]               \* socket()
        /\ heap' = IF tls THEN [heap EXCEPT !.backend = @ + 1] ELSE heap
        /\ Return(e, "error") /\ UNCHANGED open
     \/ /\ listener' = [sd |-> LowestFree(open), backend |-> tls]   \* bind, listen
        /\ heap' = IF tls THEN [heap EXCEPT !.backend = @ + 1] ELSE heap
        /\ open' = Opened(open)
        /\ Return(e, "ok") \/ Return(e, "error")
  /\ UNCHANGED <<tls, sock, net, hs, wnum, sent, got>>

(* tls_backend_destroy, then both descriptors; the object may be used up.  *)
BackendDestroyed(s) == [s EXCEPT !.backend = FALSE, !.ssl = FALSE]
HeapWithout(s) ==
  [backend |-> heap.backend - (IF s.backend THEN 1 ELSE 0),
   ssl |-> heap.ssl - (IF s.backend /\ s.ssl THEN 1 ELSE 0)]

(* socket_deinit of one end.                                               *)
Deinit(e) ==
  LET s == sock[e]
      n == IF s.backend /\ s.ssl THEN Shutdown(e, net) ELSE net IN
  /\ sock' = [sock EXCEPT ![e] = [BackendDestroyed(s) EXCEPT !.sd = NoFd]]
  /\ heap' = HeapWithout(s)
  /\ open' = Closed(open, s.sd)
  /\ net' = IF s.sd # NoFd THEN Hangup(e, n) ELSE n
  /\ UNCHANGED <<tls, listener, hs, wnum, result, sent, got>>

(* socket_deinit of the listening socket resets what nobody accepted.      *)
DeinitListener ==
  /\ listener' = [sd |-> NoFd, backend |-> FALSE]
  /\ heap' = HeapWithout([backend |-> listener.backend, ssl |-> FALSE])
  /\ open' = Closed(open, listener.sd)
  /\ net' = IF net.backlog THEN [net EXCEPT !.link = "reset", !.backlog = FALSE] ELSE net
  /\ UNCHANGED <<tls, sock, hs, wnum, result, sent, got>>
=============================================================================

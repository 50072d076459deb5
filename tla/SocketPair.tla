----------------------------- MODULE SocketPair -----------------------------
(***************************************************************************)
(* Two applications at the ends of one connection, each with the blocking  *)
(* or the non-blocking calls.  One of them writes a message and closes,    *)
(* the other reads to the end.  After try_again an application waits for   *)
(* what io_want says; after ok it makes the next call at once, as the      *)
(* sequence in socketx.h has it; after an error it deinitializes.  The     *)
(* server is initialized first.                                            *)
(***************************************************************************)
EXTENDS SocketConnect

VARIABLES api,     \* what each end uses: "nonblocking" or "blocking"
          writer,  \* the end that writes
          phase    \* the call an application is at

appVars == <<api, writer, phase>>
pairVars == <<vars, connectVars, appVars>>

PairInit ==
  /\ SocketsInit /\ ConnectInit
  /\ api \in [Ends -> {"nonblocking", "blocking"}]
  /\ timed => api["client"] = "blocking"
  /\ writer \in Ends
  /\ phase = [e \in Ends |-> "init"]

Blocking(e) == api[e] = "blocking"

(* A call that is done leads to the next one, a failed one to the deinit.  *)
At(e, p) == phase[e] = p /\ (result[e] = "try_again" => Ready(e))
Then(e, next) ==
  /\ phase' = [phase EXCEPT ![e] = CASE result'[e] = "ok" -> next
                                     [] result'[e] \in {"try_again", "busy"} -> @
                                     [] OTHER -> "deinit"]
  /\ UNCHANGED <<api, writer>>
Quiet == UNCHANGED connectVars

Init_client ==
  /\ phase["client"] = "init" /\ phase["server"] # "init" /\ InitClient("client") /\ Quiet
  /\ Then("client", IF Blocking("client") THEN "connect" ELSE "begin")
Init_server ==
  /\ phase["server"] = "init" /\ InitListener("server") /\ Quiet
  /\ Then("server", "accept")
ConnectCall == phase["client"] = "connect" /\ Connect /\ Then("client", "transfer")
Begin ==
  /\ At("client", "begin") /\ Quiet
  /\ IF proxied THEN ConnectNbRefused("client") ELSE ConnectNbBegin("client")
  /\ Then("client", "continue")
Continue ==
  /\ At("client", "continue") /\ ConnectNbContinue("client") /\ Quiet
  /\ Then("client", "handshake")
AcceptCall ==
  /\ phase["server"] = "accept" /\ (result["server"] = "try_again" => net.backlog) /\ Quiet
  /\ \/ Blocking("server") /\ (Accept("server") \/ SslAccept("server"))
     \/ ~Blocking("server") /\ SocketAcceptNb("server")
  /\ Then("server", IF Blocking("server") THEN "transfer" ELSE "handshake")
Handshake(e) == At(e, "handshake") /\ HandshakeNb(e) /\ Quiet /\ Then(e, "transfer")
WriteCall(e) ==
  /\ At(e, "transfer") /\ e = writer /\ Quiet
  /\ IF Blocking(e) THEN Write(e) ELSE WriteNb(e)
  /\ Then(e, "deinit")
ReadCall(e) ==
  /\ At(e, "transfer") /\ e # writer /\ Quiet
  /\ IF Blocking(e) THEN Read(e, e = "client" /\ conn.modes.rcvtimeo) ELSE ReadNb(e)
  /\ Then(e, "transfer")
DeinitCall(e) ==
  /\ phase[e] = "deinit" /\ Deinit(e) /\ Quiet
  /\ phase' = [phase EXCEPT ![e] = "gone"] /\ UNCHANGED <<api, writer>>
CloseListener ==
  /\ phase["server"] = "gone" /\ listener # [sd |-> NoFd, backend |-> FALSE]
  /\ DeinitListener /\ Quiet /\ UNCHANGED appVars

Call(e) ==
  \/ e = "client" /\ (Init_client \/ ConnectCall \/ Begin \/ Continue)
  \/ e = "server" /\ (Init_server \/ AcceptCall \/ CloseListener)
  \/ Handshake(e) \/ WriteCall(e) \/ ReadCall(e) \/ DeinitCall(e)

Kernel == UNCHANGED <<tls, sock, listener, open, heap, hs, wnum, result, sent, got,
                      connectVars, appVars>>
ConnectDone == ConnectEnds /\ Kernel
ProxyStep == ProxyAnswers /\ Kernel
ConnectionLost == (Breaks \/ Loses) /\ Kernel
Time == Clock /\ UNCHANGED appVars

PairNext == (\E e \in Ends : Call(e)) \/ ConnectDone \/ ProxyStep \/ ConnectionLost \/ Time

(* Applications that are not waiting make their next call, a connect ends  *)
(* one way or the other, and time passes.  Nothing is assumed of proxies   *)
(* and of broken connections.                                              *)
PairSpec == PairInit /\ [][PairNext]_pairVars
Fairness == /\ \A e \in Ends : WF_pairVars(Call(e))
            /\ WF_pairVars(ConnectDone)
            /\ WF_pairVars(Tick /\ UNCHANGED appVars)
FairPairSpec == PairSpec /\ Fairness
-----------------------------------------------------------------------------
TypeOK ==
  /\ sock \in [Ends -> [sd : Fds \cup {NoFd}, tcp_connected : BOOLEAN, handshake_done : BOOLEAN,
                        io_want : {"none", "read", "write"}, backend : BOOLEAN, ssl : BOOLEAN]]
  /\ listener \in [sd : Fds \cup {NoFd}, backend : BOOLEAN] /\ open \subseteq Fds
  /\ heap \in [backend : 0 .. 3, ssl : 0 .. 2]
  /\ net.link \in {"none", "progress", "up", "refused", "reset"}
  /\ \A e \in Ends : Len(net.pipe[e]) <= PipeRoom
  /\ hs \in [Ends -> 0 .. Len(Script)] /\ wnum \in [Ends -> 0 .. MessageLen]
  /\ sent \in 0 .. MessageLen
  /\ conn.left \in 0 .. MaxCandidates /\ conn.remaining \in 0 .. Timeout

(* No step of a call, whichever way it fails, loses or gives back twice a  *)
(* descriptor or a TLS object: what the process holds is what the sockets  *)
(* and the running socket_connect name, and a socket that is gone names    *)
(* nothing.                                                                *)
ResourcesOwned ==
  /\ TypeOK
  /\ open = ({sock[e].sd : e \in Ends} \cup {listener.sd, conn.sockfd}) \ {NoFd}
  /\ heap.backend = Cardinality({e \in Ends : sock[e].backend})
                      + (IF listener.backend THEN 1 ELSE 0)
  /\ heap.ssl = Cardinality({e \in Ends : sock[e].ssl})
  /\ \A e \in Ends : phase[e] = "gone" =>
       sock[e].sd = NoFd /\ ~sock[e].backend /\ ~sock[e].ssl

(* io_want names something that comes: two ends that both got try_again on *)
(* one live connection do not wait for each other, in the handshake over   *)
(* full buffers as well as in the transfer.                                *)
NoMutualWait ==
  ~ \A e \in Ends : /\ phase[e] \in {"handshake", "transfer"}
                    /\ result[e] = "try_again" /\ ~Ready(e) /\ net.link = "up"

(* "The whole answer shares one io_timeout_ms budget" (socket.c), and an   *)
(* interrupted connect does not start its budget again: what a step has    *)
(* waited never exceeds the timeout.                                       *)
StepIsBounded == timed /\ conn.pc \in {"connecting", "answer"} => conn.spent <= Timeout

(* "so a terminator split across two reads is still found" (socket.c): the *)
(* call never goes on waiting with a complete answer in its hands.         *)
SplitTerminatorFound ==
  conn.pc = "answer" => \A i \in 1 .. Len(conn.answer) - 3 :
                          SubSeq(conn.answer, i, i + 3) # Terminator

(* The proxy's answer is read to its end and no further than the budget.   *)
AnswerReadInTime == StepIsBounded /\ SplitTerminatorFound

(* What comes after the connect "is written against a blocking             *)
(* descriptor" (socket.c), with receives bounded and writes not: so are    *)
(* the modes of the descriptor a successful socket_connect hands on.       *)
HandedOnBlocking ==
  phase["client"] = "transfer" /\ Blocking("client") =>
    conn.modes = [nonblocking |-> FALSE, rcvtimeo |-> timed, sndtimeo |-> FALSE]

(* "socket_connect moves on to the next one the name gave" (socketx.h):    *)
(* after a name was resolved the call fails only when no address is left,  *)
(* whichever step of reaching the others failed.                           *)
NoUntriedAddress ==
  [][phase["client"] = "connect" /\ conn.pc # "none" /\ result'["client"] = "error"
       => conn'.left = 0]_pairVars

(* The sockets implement a reliable stream: partial writes, retries, the   *)
(* proxy's answer in front of the data and TLS neither lose nor repeat a   *)
(* byte, and end_of_data means that the reader has everything.             *)
Str == INSTANCE Stream WITH
  carried <- sent + wnum[writer], delivered <- got,
  closed <- net.fin[writer], ended <- (result[Peer(writer)] = "end_of_data")
ImplementsStream == Str!Spec

(* With io_timeout_ms set socket_connect returns whatever the hosts do.    *)
ConnectReturns == timed /\ phase["client"] = "connect" ~> phase["client"] # "connect"

(* A bounded connect returns, every wait io_want announces ends, and so    *)
(* does every blocking call on a connection to the server: both            *)
(* applications get to their deinit.                                       *)
Finishes ==
  /\ ConnectReturns
  /\ net.host = "server" /\ phase["client"] \in {"continue", "handshake", "transfer"}
       ~> phase["client"] = "gone"
  /\ phase["server"] \in {"handshake", "transfer"} ~> phase["server"] = "gone"
=============================================================================

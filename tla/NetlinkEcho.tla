----------------------------- MODULE NetlinkEcho -----------------------------
(***************************************************************************)
(* ch15/netlink_simple_intf: a kernel module that answers each message on  *)
(* its netlink protocol, and the user program that sends one message and   *)
(* waits for the answer.  The module's callback runs in the sender's       *)
(* sendmsg().  A user's socket of the protocol keeps the module in.        *)
(***************************************************************************)
EXTENDS Integers

CONSTANT Senders   \* processes that run the user program

VARIABLES
  nlmod,    \* the module is in
  nlsock,   \* it has its kernel socket
  at_sock,  \* at_sock[p]: where the user program is
  inbox,    \* inbox[p]: p's socket has an answer
  dropped   \* dropped[p]: history: the kernel could not answer p

echovars == <<nlmod, nlsock, at_sock, inbox, dropped>>

EchoTypeOK ==
  /\ nlmod \in BOOLEAN /\ nlsock \in BOOLEAN /\ (nlsock => nlmod)
  /\ at_sock \in [Senders -> {"none", "open", "bound", "k_alloc", "k_send", "recv"}]
  /\ inbox \in [Senders -> BOOLEAN] /\ dropped \in [Senders -> BOOLEAN]
  /\ \A p \in Senders : at_sock[p] # "none" => nlsock

Nobody == [p \in Senders |-> FALSE]

EchoInit ==
  /\ nlmod = FALSE /\ nlsock = FALSE
  /\ at_sock = [p \in Senders |-> "none"] /\ inbox = Nobody /\ dropped = Nobody

\* A failing netlink_kernel_create() returns NULL, and PTR_ERR(NULL) is 0: the
\* module is then in without a socket.
NlInsert ==
  /\ ~nlmod /\ nlmod' = TRUE /\ nlsock' \in BOOLEAN
  /\ UNCHANGED <<at_sock, inbox, dropped>>

\* netlink_kernel_release(), which does nothing with NULL.
NlRemove ==
  /\ nlmod /\ \A p \in Senders : at_sock[p] = "none"
  /\ nlmod' = FALSE /\ nlsock' = FALSE
  /\ UNCHANGED <<at_sock, inbox, dropped>>

GoSock(p, from, to) ==
  /\ at_sock[p] = from /\ at_sock' = [at_sock EXCEPT ![p] = to]
  /\ UNCHANGED <<nlmod, nlsock>>

\* The program ends and its socket is closed.
Leave(p, from) ==
  /\ GoSock(p, from, "none")
  /\ inbox' = [inbox EXCEPT ![p] = FALSE]
  /\ dropped' = [dropped EXCEPT ![p] = FALSE]

\* socket() fails unless the protocol has a kernel socket; there is no state
\* in which it is retried.
Socket(p) == nlsock /\ GoSock(p, "none", "open") /\ UNCHANGED <<inbox, dropped>>
Bind(p)   == GoSock(p, "open", "bound") /\ UNCHANGED <<inbox, dropped>>
Sendmsg(p) == GoSock(p, "bound", "k_alloc") /\ UNCHANGED <<inbox, dropped>>

\* bind(), malloc() or sendmsg() fails.
GiveUp(p) == Leave(p, "open") \/ Leave(p, "bound")

\* netlink_recv_and_reply(): nlmsg_new() ...
NewReply(p) == GoSock(p, "k_alloc", "k_send") /\ UNCHANGED <<inbox, dropped>>

\* ... may fail, and the callback returns; so may nlmsg_unicast(), which is
\* only reported in the log.  sendmsg() succeeds all the same.
NoReply(p) ==
  /\ GoSock(p, "k_alloc", "recv") \/ GoSock(p, "k_send", "recv")
  /\ dropped' = [dropped EXCEPT ![p] = TRUE]
  /\ UNCHANGED inbox

\* Mutant: the answer goes to the kernel's own port 0.
Unicast_ToKernel(p) == GoSock(p, "k_send", "recv") /\ UNCHANGED <<inbox, dropped>>

\* nlmsg_unicast() to the port the message came from.
Unicast(p) ==
  /\ GoSock(p, "k_send", "recv")
  /\ inbox' = [inbox EXCEPT ![p] = TRUE]
  /\ UNCHANGED dropped

\* recvmsg(), without a timeout.
Recvmsg(p) == inbox[p] /\ Leave(p, "recv")

\* A user may kill it there.
Killed(p) == Leave(p, "recv")

SenderSteps(p) ==
  \/ Bind(p) \/ Sendmsg(p) \/ GiveUp(p)
  \/ NewReply(p) \/ NoReply(p) \/ Unicast(p) \/ Recvmsg(p)

EchoNext ==
  \/ NlInsert \/ NlRemove
  \/ \E p \in Senders : Socket(p) \/ SenderSteps(p) \/ Killed(p)

-----------------------------------------------------------------------------
\* A program that has its socket ends by itself unless the kernel has dropped
\* its answer; only then does it wait for ever, and hold the module with it.
SendersReturn ==
  \A p \in Senders : (at_sock[p] # "none") ~> (at_sock[p] = "none" \/ dropped[p])
=============================================================================

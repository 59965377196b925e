------------------------------ MODULE Acceptor ------------------------------
(***************************************************************************)
(* The Acceptor: the listening socket and its Channel in the base loop.    *)
(* What the base loop does with an accepted connection is TcpServer's.     *)
(*                                                                         *)
(* The kernel is modelled from its use: it queues connections until they   *)
(* are accepted, and has a limited number of descriptors.  As long as one  *)
(* waits, epoll, level-triggered, reports the socket.                      *)
(***************************************************************************)
EXTENDS Naturals

CONSTANT
  MaxFd    \* descriptors that are left for connections

ASSUME AcceptorAssumption == MaxFd \in Nat \ {0}

VARIABLES
  listening_,  \* Acceptor::listening_: its Channel is in the poller
  backlog      \* how many connections wait to be accepted

acceptorVars == <<listening_, backlog>>

AcceptorTypeOK ==
  /\ listening_ \in BOOLEAN
  /\ backlog \in Nat

AcceptorInit ==
  /\ listening_ = FALSE
  /\ backlog = 0

Listen ==
  /\ listening_' = TRUE
  /\ UNCHANGED backlog

(* A client's handshake is done. *)
Arrive ==
  /\ listening_
  /\ backlog' = backlog + 1
  /\ UNCHANGED listening_

(* accept4, with so many descriptors in use.  At the limit it fails: that  *)
(* is logged, and the connection waits on.                                 *)
Accept(inUse) ==
  /\ listening_ /\ backlog > 0
  /\ inUse < MaxFd
  /\ backlog' = backlog - 1
  /\ UNCHANGED listening_

(* ~Acceptor: the kernel drops what waits with the listening socket.       *)
CloseAcceptor ==
  /\ listening_' = FALSE
  /\ backlog' = 0
=============================================================================

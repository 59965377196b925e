----------------------------- MODULE TcpServer ------------------------------
(***************************************************************************)
(* A TcpServer on top of its Acceptor: start(), and the life of its        *)
(* connections, each accepted in the base loop, tied to an I/O loop,       *)
(* established there, closed there by the peer, removed from connections_  *)
(* in the base loop, destroyed in the I/O loop; and ~TcpServer, which cuts *)
(* all this short, with the EventLoopThreads it quits and joins.           *)
(*                                                                         *)
(* A loop is what EventLoop.tla shows it to implement, a FIFO mailbox, but *)
(* with the batch of doPendingFunctors kept apart, because quit_ is tested *)
(* between batches and a functor that ran is destroyed with its batch.  A  *)
(* functor holds a shared_ptr to the connection it is bound to: all that   *)
(* holds one is in Owned, and a TcpConnection object exists, with its      *)
(* descriptor, while it is there.                                          *)
(***************************************************************************)
EXTENDS Integers, Sequences, SequencesExt, FiniteSets, Acceptor

CONSTANTS
  Base,        \* the base loop
  Threads,     \* the loops that the pool can make, in order
  MaxConn      \* bound: the number of clients

ASSUME TcpServerAssumption ==
  /\ Threads \in Seq(ToSet(Threads))
  /\ \A i, j \in 1 .. Len(Threads) : Threads[i] = Threads[j] => i = j
  /\ Base \notin ToSet(Threads)
  /\ MaxConn \in Nat

Loop == {Base} \cup ToSet(Threads)
Conn == 1 .. MaxConn
NoConn == 0

VARIABLES
  started_,     \* TcpServer::started_ is not 0
  starting,     \* another thread is in EventLoopThreadPool::start
  numThreads_,  \* EventLoopThreadPool::numThreads_
  loops_,       \* EventLoopThreadPool::loops_
  server,       \* ~TcpServer: "up", "body", "joining", "waiting" or "gone"
  joined,       \* how many EventLoopThreads it has joined
  left,         \* history: what connections_ held when ~TcpServer began
  nextConnId_,  \* TcpServer::nextConnId_, also the number of the connection
  next_,        \* EventLoopThreadPool::next_
  connections_, \* TcpServer::connections_
  ioLoop,       \* TcpConnection::loop_
  state_,       \* TcpConnection::state_; "none" before its construction
  index_,       \* its Channel::index_
  pending,      \* per loop: pendingFunctors_
  batch,        \* per loop: what doPendingFunctors has not run yet
  held,         \* per loop: connections of functors the batch has run
  closing,      \* per loop: the connection inside handleClose
  pc,           \* per loop: "enter", "events", "run" or "stopped"
  quit_,        \* per loop
  destroys,     \* history: runs of connectDestroyed
  deadCall      \* history: a functor was run on a TcpServer that is gone

startVars == <<started_, starting, numThreads_, loops_>>
serverVars == <<server, joined, left>>
newVars == <<nextConnId_, next_, ioLoop>>
connVars == <<state_, index_, destroys>>
loopVars == <<held, closing, pc, quit_>>

vars == <<startVars, serverVars, newVars, connVars, loopVars, acceptorVars,
          connections_, pending, batch, deadCall>>

(* A functor, and the connection it is bound to. *)
Functor == {"listen"} \X {NoConn}
             \cup {"established", "destroyed", "remove"} \X Conn

OwnedBy(functors) == {f[2] : f \in ToSet(functors)}

Owned ==
  (connections_
     \cup UNION {OwnedBy(pending[l]) \cup OwnedBy(batch[l]) \cup held[l]
                   \cup {closing[l]} : l \in Loop})
  \ {NoConn}

TypeOK ==
  /\ AcceptorTypeOK
  /\ {started_, starting, deadCall} \subseteq BOOLEAN
  /\ numThreads_ \in 0 .. Len(Threads)
  /\ loops_ \in Seq(ToSet(Threads)) /\ Len(loops_) <= numThreads_
  /\ \A i \in 1 .. Len(loops_) : loops_[i] = Threads[i]
  /\ server \in {"up", "body", "joining", "waiting", "gone"}
  /\ left \in SUBSET Conn
  /\ joined \in 0 .. Len(loops_)
  /\ server = "waiting" => joined < Len(loops_)
  /\ nextConnId_ \in 1 .. MaxConn + 1
  /\ next_ \in 0 .. Len(loops_)
  /\ loops_ # <<>> => next_ < Len(loops_)
  /\ connections_ \in SUBSET Conn
  /\ ioLoop \in [Conn -> Loop]
  /\ state_ \in [Conn -> {"none", "kConnecting", "kConnected",
                          "kDisconnected"}]
  /\ index_ \in [Conn -> {"kNew", "kAdded", "kDeleted"}]
  /\ pending \in [Loop -> Seq(Functor)]
  /\ batch \in [Loop -> Seq(Functor)]
  /\ held \in [Loop -> SUBSET (Conn \cup {NoConn})]
  /\ closing \in [Loop -> Conn \cup {NoConn}]
  /\ pc \in [Loop -> {"enter", "events", "run", "stopped"}]
  /\ quit_ \in [Loop -> BOOLEAN]
  /\ destroys \in [Conn -> Nat]
  /\ \A l \in Loop : batch[l] # <<>> \/ held[l] # {} => pc[l] = "run"

Init ==
  /\ AcceptorInit
  /\ started_ = FALSE /\ starting = FALSE
  /\ numThreads_ = 0 /\ loops_ = <<>>
  /\ server = "up" /\ joined = 0 /\ left = {}
  /\ nextConnId_ = 1 /\ next_ = 0
  /\ connections_ = {}
  /\ ioLoop = [c \in Conn |-> Base]
  /\ state_ = [c \in Conn |-> "none"]
  /\ index_ = [c \in Conn |-> "kNew"]
  /\ pending = [l \in Loop |-> <<>>]
  /\ batch = [l \in Loop |-> <<>>]
  /\ held = [l \in Loop |-> {}]
  /\ closing = [l \in Loop |-> NoConn]
  /\ pc = [l \in Loop |-> "enter"]
  /\ quit_ = [l \in Loop |-> FALSE]
  /\ destroys = [c \in Conn |-> 0]
  /\ deadCall = FALSE

(* The thread of the base loop is busy while it runs ~TcpServer; the other *)
(* loops are there once the pool has started them.                         *)
Free(l) == IF l = Base THEN server \in {"up", "gone"} ELSE l \in ToSet(loops_)

QueueInLoop(l, functor) ==
  pending' = [pending EXCEPT ![l] = Append(@, functor)]

-----------------------------------------------------------------------------
(* TcpServer::start, in the thread of the base loop or in another one.     *)

SetThreadNum(n) ==
  /\ ~started_
  /\ numThreads_' = n
  /\ UNCHANGED <<started_, starting, loops_, serverVars, newVars, connVars,
                 loopVars, acceptorVars, connections_, pending, batch,
                 deadCall>>

(* In the thread of the base loop, all of it is done at once.  startLoop   *)
(* returns when a thread has published its loop; loop() may come later.    *)
StartHere ==
  /\ ~started_ /\ server = "up"
  /\ started_' = TRUE
  /\ loops_' = [i \in 1 .. numThreads_ |-> Threads[i]]
  /\ Listen
  /\ UNCHANGED <<starting, numThreads_, serverVars, newVars, connVars,
                 loopVars, connections_, pending, batch, deadCall>>

(* Elsewhere: if (started_++ == 0) ... *)
StartElsewhere ==
  /\ ~started_ /\ server = "up"
  /\ started_' = TRUE
  /\ starting' = TRUE
  /\ UNCHANGED <<numThreads_, loops_, serverVars, newVars, connVars, loopVars,
                 acceptorVars, connections_, pending, batch, deadCall>>

(* ... EventLoopThreadPool::start, one thread after the other, each with a *)
(* loop that is published and about to be entered ...                      *)
StartThread ==
  /\ starting /\ Len(loops_) < numThreads_
  /\ loops_' = Append(loops_, Threads[Len(loops_) + 1])
  /\ UNCHANGED <<started_, starting, numThreads_, serverVars, newVars,
                 connVars, loopVars, acceptorVars, connections_, pending,
                 batch, deadCall>>

(* Mutant: the Acceptor listens while the pool is still being started. *)
QueueListenEarly ==
  /\ starting /\ loops_ # <<>>
  /\ \A i \in 1 .. Len(pending[Base]) : pending[Base][i][1] # "listen"
  /\ starting' = (Len(loops_) < numThreads_)
  /\ QueueInLoop(Base, <<"listen", NoConn>>)
  /\ UNCHANGED <<started_, numThreads_, loops_, serverVars, newVars, connVars,
                 loopVars, acceptorVars, connections_, batch, deadCall>>

(* ... and loop_->runInLoop(Acceptor::listen) *)
QueueListen ==
  /\ starting /\ Len(loops_) = numThreads_
  /\ starting' = FALSE
  /\ QueueInLoop(Base, <<"listen", NoConn>>)
  /\ UNCHANGED <<started_, numThreads_, loops_, serverVars, newVars, connVars,
                 loopVars, acceptorVars, connections_, batch, deadCall>>

-----------------------------------------------------------------------------
(* TcpConnection. *)

ConnectEstablished(c) ==
  /\ state_' = [state_ EXCEPT ![c] = "kConnected"]
  /\ index_' = [index_ EXCEPT ![c] = "kAdded"]
  /\ UNCHANGED destroys

(* disableAll, if it is still connected, and remove. *)
ConnectDestroyed(c) ==
  /\ state_' = [state_ EXCEPT ![c] = IF @ = "kConnected" THEN "kDisconnected"
                                                         ELSE @]
  /\ index_' = [index_ EXCEPT ![c] = "kNew"]
  /\ destroys' = [destroys EXCEPT ![c] = @ + 1]

(* handleClose, to the end of the user's connectionCallback_.  The tie     *)
(* keeps the object alive from the test in handleEvent.                    *)
HandleClose(l, c) ==
  /\ Free(l)
  /\ pc[l] = "events" /\ closing[l] = NoConn
  /\ ioLoop[c] = l /\ index_[c] = "kAdded" /\ c \in Owned
  /\ state_' = [state_ EXCEPT ![c] = "kDisconnected"]
  /\ index_' = [index_ EXCEPT ![c] = "kDeleted"]
  /\ closing' = [closing EXCEPT ![l] = c]
  /\ UNCHANGED <<startVars, serverVars, newVars, destroys, held, pc, quit_,
                 acceptorVars, connections_, pending, batch, deadCall>>

-----------------------------------------------------------------------------
(* TcpServer. *)

(* EventLoopThreadPool::getNextLoop: the loop and the new next_. *)
GetNextLoop(n) ==
  IF loops_ = <<>> THEN <<Base, n>>
  ELSE <<loops_[n + 1], IF n + 1 >= Len(loops_) THEN 0 ELSE n + 1>>

(* Mutant: the base loop establishes its own connections later, too. *)
EstablishQueued(l, c) ==
  /\ QueueInLoop(l, <<"established", c>>)
  /\ state_' = [state_ EXCEPT ![c] = "kConnecting"]
  /\ UNCHANGED <<index_, destroys>>

(* ioLoop->runInLoop(connectEstablished), called by the base loop. *)
Establish(l, c) ==
  IF l = Base
  THEN ConnectEstablished(c) /\ UNCHANGED pending
  ELSE /\ QueueInLoop(l, <<"established", c>>)
       /\ state_' = [state_ EXCEPT ![c] = "kConnecting"]
       /\ UNCHANGED <<index_, destroys>>

(* A client connects; of those that wait, the first is accepted. *)
ClientConnects ==
  /\ nextConnId_ + backlog <= MaxConn
  /\ server # "gone"
  /\ Arrive
  /\ UNCHANGED <<startVars, serverVars, newVars, connVars, loopVars,
                 connections_, pending, batch, deadCall>>

NewConnection ==
  /\ server = "up" /\ pc[Base] = "events" /\ closing[Base] = NoConn
  /\ Accept(Cardinality(Owned))
  /\ nextConnId_' = nextConnId_ + 1
  /\ connections_' = connections_ \cup {nextConnId_}
  /\ next_' = GetNextLoop(next_)[2]
  /\ ioLoop' = [ioLoop EXCEPT ![nextConnId_] = GetNextLoop(next_)[1]]
  /\ Establish(GetNextLoop(next_)[1], nextConnId_)
  /\ UNCHANGED <<startVars, serverVars, loopVars, batch, deadCall>>

(* Mutant: connectDestroyed is never queued. *)
RemoveForgetful(c) ==
  /\ connections_' = connections_ \ {c}
  /\ UNCHANGED <<pending, deadCall>>

(* Mutant: the connection is not erased from connections_. *)
RemoveKeeping(c) ==
  /\ QueueInLoop(ioLoop[c], <<"destroyed", c>>)
  /\ UNCHANGED <<connections_, deadCall>>

(* removeConnectionInLoop.  With the server gone it works on a destroyed   *)
(* map, which has no defined outcome: it is recorded that it happened.     *)
RemoveConnectionInLoop(c) ==
  IF server = "gone"
  THEN deadCall' = TRUE /\ UNCHANGED <<connections_, pending>>
  ELSE /\ connections_' = connections_ \ {c}
       /\ QueueInLoop(ioLoop[c], <<"destroyed", c>>)
       /\ UNCHANGED deadCall

(* Mutant: removeConnection always goes through the queue. *)
RemoveConnectionQueued(l, c) ==
  /\ QueueInLoop(Base, <<"remove", c>>)
  /\ UNCHANGED <<connections_, deadCall>>

(* removeConnection: loop_->runInLoop(removeConnectionInLoop). *)
RemoveConnection(l, c) ==
  IF l = Base THEN RemoveConnectionInLoop(c)
              ELSE /\ QueueInLoop(Base, <<"remove", c>>)
                   /\ UNCHANGED <<connections_, deadCall>>

(* handleClose: closeCallback_ *)
CloseCallback(l) ==
  /\ Free(l)
  /\ closing[l] # NoConn
  /\ closing' = [closing EXCEPT ![l] = NoConn]
  /\ RemoveConnection(l, closing[l])
  /\ UNCHANGED <<startVars, serverVars, newVars, connVars, held, pc, quit_,
                 acceptorVars, batch>>

-----------------------------------------------------------------------------
(* The loops. *)

(* loop() begins: what a quit() has stored before is overwritten.  Then    *)
(* comes the test of quit_, as after a batch (EndFunctors).                *)
EnterLoop(l) ==
  /\ Free(l)
  /\ pc[l] = "enter"
  /\ quit_' = [quit_ EXCEPT ![l] = FALSE]
  /\ pc' = [pc EXCEPT ![l] = "run"]
  /\ UNCHANGED <<startVars, serverVars, newVars, connVars, held, closing,
                 acceptorVars, connections_, pending, batch, deadCall>>

SwapFunctors(l) ==
  /\ Free(l)
  /\ pc[l] = "events" /\ closing[l] = NoConn
  /\ pc' = [pc EXCEPT ![l] = "run"]
  /\ batch' = [batch EXCEPT ![l] = pending[l]]
  /\ pending' = [pending EXCEPT ![l] = <<>>]
  /\ UNCHANGED <<startVars, serverVars, newVars, connVars, held, closing,
                 quit_, acceptorVars, connections_, deadCall>>

(* Functor f runs. *)
RunFunctor(l, f) ==
  /\ Free(l)
  /\ batch[l] # <<>> /\ f = Head(batch[l])
  /\ batch' = [batch EXCEPT ![l] = Tail(@)]
  /\ held' = [held EXCEPT ![l] = @ \cup OwnedBy(<<f>>)]
  /\ UNCHANGED <<startVars, serverVars, newVars, closing, pc, quit_>>

RunListen(l) ==
  /\ RunFunctor(l, <<"listen", NoConn>>)
  /\ Listen
  /\ UNCHANGED <<connVars, connections_, pending, deadCall>>

RunOnConnection(l, c) ==
  \/ /\ RunFunctor(l, <<"established", c>>) /\ ConnectEstablished(c)
     /\ UNCHANGED <<acceptorVars, connections_, pending, deadCall>>
  \/ /\ RunFunctor(l, <<"destroyed", c>>) /\ ConnectDestroyed(c)
     /\ UNCHANGED <<acceptorVars, connections_, pending, deadCall>>
  \/ /\ RunFunctor(l, <<"remove", c>>) /\ RemoveConnectionInLoop(c)
     /\ UNCHANGED <<acceptorVars, connVars>>

(* Mutant: the batch is a member, and is cleared by the next one only. *)
EndFunctorsKeeping(l) ==
  /\ Free(l)
  /\ pc[l] = "run" /\ batch[l] = <<>>
  /\ pc' = [pc EXCEPT ![l] = IF quit_[l] THEN "stopped" ELSE "events"]
  /\ pending' = IF quit_[l] /\ l # Base THEN [pending EXCEPT ![l] = <<>>]
                                        ELSE pending
  /\ UNCHANGED <<startVars, serverVars, newVars, connVars, held, closing,
                 quit_, acceptorVars, connections_, batch, deadCall>>

(* The batch goes out of scope; while (!quit_).  After EnterLoop there is  *)
(* no batch yet, only the test.  An I/O loop that is left is destroyed     *)
(* with what is still in its pendingFunctors_; the base loop is the        *)
(* user's, and outlives the server.                                        *)
EndFunctors(l) ==
  /\ Free(l)
  /\ pc[l] = "run" /\ batch[l] = <<>>
  /\ held' = [held EXCEPT ![l] = {}]
  /\ pc' = [pc EXCEPT ![l] = IF quit_[l] THEN "stopped" ELSE "events"]
  /\ pending' = IF quit_[l] /\ l # Base THEN [pending EXCEPT ![l] = <<>>]
                                        ELSE pending
  /\ UNCHANGED <<startVars, serverVars, newVars, connVars, closing, quit_,
                 acceptorVars, connections_, batch, deadCall>>

-----------------------------------------------------------------------------
(* ~TcpServer, in the thread of the base loop: by a functor, or outside    *)
(* loop(), as at the end of the example's main; when start() has come to   *)
(* its end, listen included.                                               *)

QuitBase ==
  /\ server = "up" /\ ~quit_[Base]
  /\ quit_' = [quit_ EXCEPT ![Base] = TRUE]
  /\ UNCHANGED <<startVars, serverVars, newVars, connVars, held, closing, pc,
                 acceptorVars, connections_, pending, batch, deadCall>>

BeginDestroy ==
  /\ server = "up" /\ pc[Base] # "events"
  /\ started_ /\ ~starting
  /\ listening_ \/ pc[Base] = "stopped"
  /\ server' = "body"
  /\ left' = connections_
  /\ UNCHANGED <<startVars, joined, newVars, connVars, loopVars, acceptorVars,
                 connections_, pending, batch, deadCall>>

(* One connection: getLoop()->runInLoop(connectDestroyed) *)
DestroyConnection(c) ==
  /\ server = "body"
  /\ c \in connections_
  /\ connections_' = connections_ \ {c}
  /\ IF ioLoop[c] = Base
     THEN ConnectDestroyed(c) /\ UNCHANGED pending
     ELSE /\ QueueInLoop(ioLoop[c], <<"destroyed", c>>)
          /\ UNCHANGED connVars
  /\ UNCHANGED <<startVars, serverVars, newVars, loopVars, acceptorVars, batch,
                 deadCall>>

(* ~EventLoopThreadPool begins.  *)
EndBody ==
  /\ server = "body"
  /\ connections_ = {}
  /\ server' = "joining"
  /\ UNCHANGED <<startVars, joined, left, newVars, connVars, loopVars,
                 acceptorVars, connections_, pending, batch, deadCall>>

(* Mutant: the thread is joined first. *)
QuitAfterJoin ==
  /\ server = "joining" /\ joined < Len(loops_)
  /\ pc[loops_[joined + 1]] = "stopped"
  /\ server' = "waiting"
  /\ quit_' = [quit_ EXCEPT ![loops_[joined + 1]] = TRUE]
  /\ UNCHANGED <<startVars, joined, left, newVars, connVars, held, closing, pc,
                 acceptorVars, connections_, pending, batch, deadCall>>

(* ~EventLoopThread of the next thread: loop_->quit(), once, though the    *)
(* loop may not have been entered yet ...                                  *)
QuitLoop ==
  /\ server = "joining" /\ joined < Len(loops_)
  /\ server' = "waiting"
  /\ quit_' = [quit_ EXCEPT ![loops_[joined + 1]] = TRUE]
  /\ UNCHANGED <<startVars, joined, left, newVars, connVars, held, closing, pc,
                 acceptorVars, connections_, pending, batch, deadCall>>

(* ... and thread_.join() *)
JoinLoop ==
  /\ server = "waiting"
  /\ pc[loops_[joined + 1]] = "stopped"
  /\ server' = "joining"
  /\ joined' = joined + 1
  /\ UNCHANGED <<startVars, left, newVars, connVars, loopVars, acceptorVars,
                 connections_, pending, batch, deadCall>>

(* ~Acceptor *)
EndDestroy ==
  /\ server = "joining" /\ joined = Len(loops_)
  /\ server' = "gone"
  /\ CloseAcceptor
  /\ UNCHANGED <<startVars, joined, left, newVars, connVars, loopVars,
                 connections_, pending, batch, deadCall>>

-----------------------------------------------------------------------------
StartStep == StartThread \/ QueueListen

LoopStep(l) ==
  \/ EnterLoop(l)
  \/ CloseCallback(l) \/ SwapFunctors(l) \/ RunListen(l)
  \/ \E c \in Conn : RunOnConnection(l, c)
  \/ EndFunctors(l)

DestructorStep == \/ \E c \in Conn : DestroyConnection(c)
                  \/ EndBody \/ QuitLoop \/ JoinLoop \/ EndDestroy

Next ==
  \/ \E n \in 0 .. Len(Threads) : SetThreadNum(n)
  \/ StartHere \/ StartElsewhere \/ StartStep
  \/ ClientConnects
  \/ NewConnection
  \/ \E l \in Loop, c \in Conn : HandleClose(l, c)
  \/ \E l \in Loop : LoopStep(l)
  \/ QuitBase
  \/ BeginDestroy
  \/ DestructorStep

Spec == Init /\ [][Next]_vars

(* The threads run, and enter their loops, as the user does the base loop; *)
(* the base loop's runs in ~TcpServer too.  Handlers and functors return,  *)
(* and a queued functor or a quit wakes its loop (NoLostWakeup and         *)
(* QuitWakesPoll of EventLoopProps).  epoll_wait reports the listening     *)
(* socket whenever it is called, in between other things.                  *)
Fairness ==
  /\ WF_vars(StartStep)
  /\ \A l \in Loop : WF_vars(LoopStep(l))
  /\ SF_vars(NewConnection)
  /\ WF_vars(DestructorStep)

FairSpec == Spec /\ Fairness
=============================================================================

----------------------------- MODULE EventLoop ------------------------------
(***************************************************************************)
(* One EventLoop object: its own thread inside loop(), and any number of   *)
(* other threads calling queueInLoop, runInLoop and quit on it.  What is   *)
(* at stake is the mailbox pendingFunctors_ and the two reasons the loop   *)
(* thread has to leave epoll_wait: a callback was queued, or quit_ was     *)
(* set.  Both are announced by a store followed, as a separate step, by a  *)
(* write to wakeupFd_; every interleaving of the two is explored.          *)
(*                                                                         *)
(* User code (the thread-init callback, the handlers of I/O channels, the  *)
(* functors themselves) is a period in which inCallback is TRUE and the    *)
(* loop's own thread may call any operation of the loop, in any order.     *)
(***************************************************************************)
EXTENDS Naturals, Sequences, SequencesExt

CONSTANTS
  Functors,      \* the callbacks, each handed over at most once
  InitFunctors,  \* those the thread-init callback may queue, before loop()
  Threads,       \* the threads other than the loop's own
  Loop           \* the loop's own thread

ASSUME EventLoopAssumption ==
  /\ InitFunctors \subseteq Functors
  /\ Loop \notin Threads

Callers == Threads \cup {Loop}

VARIABLES
  pc,                       \* where the loop's thread is
  inCallback,               \* it is running user code there
  quit_,                    \* EventLoop::quit_
  callingPendingFunctors_,  \* EventLoop::callingPendingFunctors_
  pendingFunctors_,         \* EventLoop::pendingFunctors_, guarded by mutex_
  functors,                 \* doPendingFunctors' local batch, not yet run part
  activeChannels_,          \* what poll() reported and is not yet handled
  eventfd,                  \* wakeupFd_ is readable (its counter is not 0)
  call,                     \* per thread: half-done call on the loop
  ran                       \* history: callbacks in the order they were run

vars == <<pc, inCallback, quit_, callingPendingFunctors_, pendingFunctors_,
          functors, activeChannels_, eventfd, call, ran>>

(* pc: "init" covers the time from the constructor to the store            *)
(* quit_ = false in loop(); "handle" is the loop over activeChannels_;     *)
(* "run" is doPendingFunctors after the swap.                              *)
Control == {"init", "while", "poll", "handle", "swap", "run", "stopped"}

(* call: "emplaced" is between pendingFunctors_.emplace_back and the test  *)
(* whether to wake the loop; "quitting" between quit_ = true and wakeup(). *)
CallState == {"none", "emplaced", "quitting"}

(* The channels of a loop: the wakeup channel, and all others as one.      *)
Channels == {"wakeup", "io"}

TypeOK ==
  /\ pc \in Control
  /\ inCallback \in BOOLEAN
  /\ inCallback => pc \in {"init", "handle", "run"}
  /\ quit_ \in BOOLEAN
  /\ callingPendingFunctors_ \in BOOLEAN
  /\ callingPendingFunctors_ <=> pc = "run"
  /\ pendingFunctors_ \in Seq(Functors)
  /\ functors \in Seq(Functors)
  /\ functors # <<>> => pc = "run"
  /\ activeChannels_ \in SUBSET Channels
  /\ eventfd \in BOOLEAN
  /\ call \in [Callers -> CallState]
  /\ call[Loop] # "none" => inCallback
  /\ ran \in Seq(Functors)

Init ==
  /\ pc = "init"
  /\ inCallback = TRUE
  /\ quit_ = FALSE
  /\ callingPendingFunctors_ = FALSE
  /\ pendingFunctors_ = <<>>
  /\ functors = <<>>
  /\ activeChannels_ = {}
  /\ eventfd = FALSE
  /\ call = [t \in Callers |-> "none"]
  /\ ran = <<>>

-----------------------------------------------------------------------------
(* Calls on the loop, by its own thread from user code or by any other.    *)

Fresh(f) ==
  f \notin ToSet(pendingFunctors_) \cup ToSet(functors) \cup ToSet(ran)

MayCall(t) ==
  /\ call[t] = "none"
  /\ t = Loop => inCallback

(* queueInLoop: the critical section.  A runInLoop by another thread is    *)
(* the same call.                                                          *)
QueueInLoop(t, f) ==
  /\ MayCall(t)
  /\ Fresh(f)
  /\ t = Loop /\ pc = "init" => f \in InitFunctors
  /\ pendingFunctors_' = Append(pendingFunctors_, f)
  /\ call' = [call EXCEPT ![t] = "emplaced"]
  /\ UNCHANGED <<pc, inCallback, quit_, callingPendingFunctors_, functors,
                 activeChannels_, eventfd, ran>>

(* Mutant: the running batch is forgotten in queueInLoop's condition.      *)
NeedsWakeupOnlyFromOutside(t) == t # Loop

(* Mutant: only the loop's own calls wake it. *)
NeedsWakeupOnlyInBatch(t) == callingPendingFunctors_

NeedsWakeup(t) == t # Loop \/ callingPendingFunctors_

(* queueInLoop: the rest. *)
QueueWakeup(t) ==
  /\ call[t] = "emplaced"
  /\ eventfd' = (eventfd \/ NeedsWakeup(t))
  /\ call' = [call EXCEPT ![t] = "none"]
  /\ UNCHANGED <<pc, inCallback, quit_, callingPendingFunctors_,
                 pendingFunctors_, functors, activeChannels_, ran>>

(* runInLoop by the loop's own thread: cb() on the spot. *)
RunInLoop(f) ==
  /\ MayCall(Loop)
  /\ Fresh(f)
  /\ ran' = Append(ran, f)
  /\ UNCHANGED <<pc, inCallback, quit_, callingPendingFunctors_,
                 pendingFunctors_, functors, activeChannels_, eventfd, call>>

(* quit: the store. *)
Quit(t) ==
  /\ MayCall(t)
  /\ quit_' = TRUE
  /\ call' = [call EXCEPT ![t] = "quitting"]
  /\ UNCHANGED <<pc, inCallback, callingPendingFunctors_, pendingFunctors_,
                 functors, activeChannels_, eventfd, ran>>

(* Mutant: quit() leaves out the wakeup. *)
QuitWithoutWakeup(t) ==
  /\ call[t] = "quitting"
  /\ call' = [call EXCEPT ![t] = "none"]
  /\ UNCHANGED <<pc, inCallback, quit_, callingPendingFunctors_,
                 pendingFunctors_, functors, activeChannels_, eventfd, ran>>

(* quit: wakeup() unless called in the loop's thread. *)
QuitWakeup(t) ==
  /\ call[t] = "quitting"
  /\ eventfd' = (eventfd \/ t # Loop)
  /\ call' = [call EXCEPT ![t] = "none"]
  /\ UNCHANGED <<pc, inCallback, quit_, callingPendingFunctors_,
                 pendingFunctors_, functors, activeChannels_, ran>>

FinishCall(t) == QueueWakeup(t) \/ QuitWakeup(t)

-----------------------------------------------------------------------------
(* The loop's thread. *)

(* The user's callback returns; nothing it started is half done. *)
ReturnFromCallback ==
  /\ inCallback
  /\ call[Loop] = "none"
  /\ inCallback' = FALSE
  /\ UNCHANGED <<pc, quit_, callingPendingFunctors_, pendingFunctors_,
                 functors, activeChannels_, eventfd, call, ran>>

(* loop(): quit_ = false, whatever was stored there before. *)
EnterLoop ==
  /\ pc = "init"
  /\ ~inCallback
  /\ quit_' = FALSE
  /\ pc' = "while"
  /\ UNCHANGED <<inCallback, callingPendingFunctors_, pendingFunctors_,
                 functors, activeChannels_, eventfd, call, ran>>

(* while (!quit_); activeChannels_.clear() *)
TestQuit ==
  /\ pc = "while"
  /\ pc' = IF quit_ THEN "stopped" ELSE "poll"
  /\ activeChannels_' = {}
  /\ UNCHANGED <<inCallback, quit_, callingPendingFunctors_,
                 pendingFunctors_, functors, eventfd, call, ran>>

(* epoll_wait reports events.  It is level triggered: a readable wakeupFd_ *)
(* is always among them.                                                   *)
PollReturns(ioReady) ==
  /\ pc = "poll"
  /\ activeChannels_' = {c \in Channels : \/ c = "wakeup" /\ eventfd
                                          \/ c = "io" /\ ioReady}
  /\ activeChannels_' # {}
  /\ pc' = "handle"
  /\ UNCHANGED <<inCallback, quit_, callingPendingFunctors_,
                 pendingFunctors_, functors, eventfd, call, ran>>

(* Mutant: loop() goes on if no channel is active. *)
TimeOutIdly ==
  /\ pc = "poll"
  /\ ~eventfd
  /\ pc' = "while"
  /\ UNCHANGED <<inCallback, quit_, callingPendingFunctors_,
                 pendingFunctors_, functors, activeChannels_, eventfd, call,
                 ran>>

(* epoll_wait reports nothing: kPollTimeMs are over, or EINTR. *)
PollTimesOut ==
  /\ pc = "poll"
  /\ ~eventfd
  /\ pc' = "handle"
  /\ UNCHANGED <<inCallback, quit_, callingPendingFunctors_,
                 pendingFunctors_, functors, activeChannels_, eventfd, call,
                 ran>>

(* EventLoop::handleRead resets the counter of wakeupFd_. *)
HandleWakeup ==
  /\ pc = "handle"
  /\ ~inCallback
  /\ "wakeup" \in activeChannels_
  /\ eventfd' = FALSE
  /\ activeChannels_' = activeChannels_ \ {"wakeup"}
  /\ UNCHANGED <<pc, inCallback, quit_, callingPendingFunctors_,
                 pendingFunctors_, functors, call, ran>>

(* Channel::handleEvent of some other channel enters user code. *)
HandleIO ==
  /\ pc = "handle"
  /\ ~inCallback
  /\ "io" \in activeChannels_
  /\ inCallback' = TRUE
  /\ activeChannels_' = activeChannels_ \ {"io"}
  /\ UNCHANGED <<pc, quit_, callingPendingFunctors_, pendingFunctors_,
                 functors, eventfd, call, ran>>

HandledAll ==
  /\ pc = "handle"
  /\ ~inCallback
  /\ activeChannels_ = {}
  /\ pc' = "swap"
  /\ UNCHANGED <<inCallback, quit_, callingPendingFunctors_,
                 pendingFunctors_, functors, activeChannels_, eventfd, call,
                 ran>>

(* Mutant: the batch is copied and pendingFunctors_ is left as it was. *)
CopyFunctors ==
  /\ pc = "swap"
  /\ callingPendingFunctors_' = TRUE
  /\ functors' = pendingFunctors_
  /\ pc' = "run"
  /\ UNCHANGED <<inCallback, quit_, pendingFunctors_, activeChannels_,
                 eventfd, call, ran>>

(* doPendingFunctors: callingPendingFunctors_ = true and the swap under    *)
(* mutex_.  One step: callingPendingFunctors_ is only read by this thread. *)
SwapFunctors ==
  /\ pc = "swap"
  /\ callingPendingFunctors_' = TRUE
  /\ functors' = pendingFunctors_
  /\ pendingFunctors_' = <<>>
  /\ pc' = "run"
  /\ UNCHANGED <<inCallback, quit_, activeChannels_, eventfd, call, ran>>

(* The next functor() of the batch enters user code. *)
RunFunctor ==
  /\ pc = "run"
  /\ ~inCallback
  /\ functors # <<>>
  /\ ran' = Append(ran, Head(functors))
  /\ functors' = Tail(functors)
  /\ inCallback' = TRUE
  /\ UNCHANGED <<pc, quit_, callingPendingFunctors_, pendingFunctors_,
                 activeChannels_, eventfd, call>>

(* Mutant: callingPendingFunctors_ is not reset. *)
EndFunctorsStillCalling ==
  /\ pc = "run"
  /\ ~inCallback
  /\ functors = <<>>
  /\ pc' = "while"
  /\ UNCHANGED <<inCallback, quit_, callingPendingFunctors_,
                 pendingFunctors_, functors, activeChannels_, eventfd, call,
                 ran>>

EndFunctors ==
  /\ pc = "run"
  /\ ~inCallback
  /\ functors = <<>>
  /\ callingPendingFunctors_' = FALSE
  /\ pc' = "while"
  /\ UNCHANGED <<inCallback, quit_, pendingFunctors_, functors,
                 activeChannels_, eventfd, call, ran>>

(* Every step of the loop's thread that does not wait for the outside. *)
LoopStep ==
  \/ FinishCall(Loop)
  \/ EnterLoop
  \/ TestQuit
  \/ eventfd /\ \E ioReady \in BOOLEAN : PollReturns(ioReady)
  \/ HandleWakeup
  \/ HandleIO
  \/ HandledAll
  \/ SwapFunctors
  \/ RunFunctor
  \/ EndFunctors

Next ==
  \/ \E t \in Callers :
       \/ \E f \in Functors : QueueInLoop(t, f)
       \/ Quit(t)
       \/ FinishCall(t)
  \/ \E f \in Functors : RunInLoop(f)
  \/ ReturnFromCallback
  \/ EnterLoop
  \/ TestQuit
  \/ \E ioReady \in BOOLEAN : PollReturns(ioReady)
  \/ PollTimesOut
  \/ HandleWakeup
  \/ HandleIO
  \/ HandledAll
  \/ SwapFunctors
  \/ RunFunctor
  \/ EndFunctors

Spec == Init /\ [][Next]_vars

(* The scheduler runs every thread; user callbacks return (strong, because *)
(* a callback may go on calling quit()).  Nobody has to queue anything, to *)
(* quit or to send data, and epoll_wait need not time out.                 *)
Fairness ==
  /\ WF_vars(LoopStep)
  /\ SF_vars(ReturnFromCallback)
  /\ \A t \in Threads : WF_vars(FinishCall(t))

FairSpec == Spec /\ Fairness

(* epoll_wait times out after kPollTimeMs, if nothing else ends it. *)
Timeouts == WF_vars(PollTimesOut)
=============================================================================

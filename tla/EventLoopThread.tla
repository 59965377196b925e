-------------------------- MODULE EventLoopThread ---------------------------
(***************************************************************************)
(* An EventLoopThreadPool, its EventLoopThreads and their Threads: one     *)
(* loop per thread, on the stack of the thread.  The owner, which is the   *)
(* base loop's thread, starts them one after another, each time waiting    *)
(* on cond_ until the new thread has published its loop, and destroys them *)
(* in the same order.                                                      *)
(*                                                                         *)
(* The critical sections of mutex_ are short, do not nest and are one step *)
(* each, but for the unlock that ends threadFunc, which touches the        *)
(* EventLoopThread once more.  The destructor does not take mutex_.        *)
(***************************************************************************)
EXTENDS Naturals, Sequences

CONSTANT
  numThreads_   \* EventLoopThreadPool::numThreads_

ASSUME EventLoopThreadAssumption == numThreads_ \in Nat

Worker == 1 .. numThreads_
null == 0

VARIABLES
  owner,     \* what the owner is doing
  threads_,  \* how many EventLoopThreads it has made
  loops_,    \* EventLoopThreadPool::loops_; loop i is that of worker i
  freed,     \* how many EventLoopThreads it has destroyed
  loop_,     \* per worker: EventLoopThread::loop_, the loop or null
  thread,    \* per worker: where threadFunc is
  quit_,     \* per worker: quit_ of its loop
  byUser     \* history, per worker: user code on its thread called quit()

vars == <<owner, threads_, loops_, freed, loop_, thread, quit_, byUser>>

(* "start": in the for of start(); "check" and "wait": in the while of     *)
(* startLoop; "delete" to "join": in the destructor of one worker.         *)
Owner == {"start", "check", "wait", "up", "delete", "quit", "wakeup", "join",
          "gone"}

(* "none" is before Thread::start, "callback" the time from the            *)
(* construction of the loop to the end of callback_, "loop" that before    *)
(* the store quit_ = false of loop(), "unlock" after loop_ = nullptr,      *)
(* "~loop" before the end of threadFunc's frame.                           *)
ThreadFunc == {"none", "callback", "publish", "loop", "looping", "leave",
               "unlock", "~loop", "done"}

TypeOK ==
  /\ owner \in Owner
  /\ threads_ \in 0 .. numThreads_
  /\ loops_ \in Seq(Worker \cup {null})
  /\ Len(loops_) <= threads_
  /\ freed \in 0 .. threads_
  /\ loop_ \in [Worker -> Worker \cup {null}]
  /\ thread \in [Worker -> ThreadFunc]
  /\ \A i \in Worker : thread[i] # "none" => i <= threads_
  /\ quit_ \in [Worker -> BOOLEAN]
  /\ byUser \in [Worker -> BOOLEAN]
  /\ owner \in {"up", "delete", "quit", "wakeup", "join", "gone"}
       => Len(loops_) = numThreads_

Init ==
  /\ owner = "start"
  /\ threads_ = 0
  /\ loops_ = <<>>
  /\ freed = 0
  /\ loop_ = [i \in Worker |-> null]
  /\ thread = [i \in Worker |-> "none"]
  /\ quit_ = [i \in Worker |-> FALSE]
  /\ byUser = [i \in Worker |-> FALSE]

LoopExists(i) == thread[i] \notin {"none", "done"}

-----------------------------------------------------------------------------
(* The owner: EventLoopThreadPool::start. *)

(* The next EventLoopThread, and thread_.start() of its startLoop.  The    *)
(* thread's loop is as good as constructed when it runs.                   *)
StartThread ==
  /\ owner = "start"
  /\ threads_ < numThreads_
  /\ threads_' = threads_ + 1
  /\ thread' = [thread EXCEPT ![threads_ + 1] = "callback"]
  /\ owner' = "check"
  /\ UNCHANGED <<loops_, freed, loop_, quit_, byUser>>

Started ==
  /\ owner = "start"
  /\ threads_ = numThreads_
  /\ owner' = "up"
  /\ UNCHANGED <<threads_, loops_, freed, loop_, thread, quit_, byUser>>

(* Mutant: what startLoop returns is not kept. *)
ReturnUnpushed ==
  /\ owner' = "start"
  /\ UNCHANGED loops_

(* return loop, and loops_.push_back *)
ReturnLoop ==
  /\ loops_' = Append(loops_, loop_[threads_])
  /\ owner' = "start"

(* while (loop_ == nullptr) cond_.wait(lock), under mutex_ *)
CheckLoop ==
  /\ owner = "check"
  /\ IF loop_[threads_] = null
     THEN owner' = "wait" /\ UNCHANGED loops_
     ELSE ReturnLoop
  /\ UNCHANGED <<threads_, freed, loop_, thread, quit_, byUser>>

(* Mutant: if stands for while. *)
WaitOnce ==
  /\ owner = "wait"
  /\ ReturnLoop
  /\ UNCHANGED <<threads_, freed, loop_, thread, quit_, byUser>>

(* cond_.wait may return without a notify. *)
WakeSpuriously ==
  /\ owner = "wait"
  /\ owner' = "check"
  /\ UNCHANGED <<threads_, loops_, freed, loop_, thread, quit_, byUser>>

-----------------------------------------------------------------------------
(* The owner: ~EventLoopThreadPool destroys threads_ in order.             *)

BeginDestroy ==
  /\ owner = "up"
  /\ owner' = "delete"
  /\ UNCHANGED <<threads_, loops_, freed, loop_, thread, quit_, byUser>>

(* ~EventLoopThread of worker i is done, or detaches the thread. *)
Free(i) ==
  /\ freed' = i
  /\ owner' = "delete"

Dying == freed + 1

(* if (loop_ != nullptr) *)
ReadLoop ==
  /\ owner = "delete" /\ freed < threads_
  /\ IF loop_[Dying] = null
     THEN Free(Dying)
     ELSE owner' = "quit" /\ UNCHANGED freed
  /\ UNCHANGED <<threads_, loops_, loop_, thread, quit_, byUser>>

(* loop_->quit() reads loop_ again: null by now, if user code has quit the *)
(* loop, is the end of the program.  The store to quit_ ...                *)
QuitStore ==
  /\ owner = "quit"
  /\ loop_[Dying] # null
  /\ quit_' = [quit_ EXCEPT ![Dying] = TRUE]
  /\ owner' = "wakeup"
  /\ UNCHANGED <<threads_, loops_, freed, loop_, thread, byUser>>

(* ... isInLoopThread() and wakeup(), which use the loop. *)
QuitWakeup ==
  /\ owner = "wakeup"
  /\ owner' = "join"
  /\ UNCHANGED <<threads_, loops_, freed, loop_, thread, quit_, byUser>>

(* Mutant: the thread is left to itself. *)
DetachAfterQuit ==
  /\ owner = "join"
  /\ Free(Dying)
  /\ UNCHANGED <<threads_, loops_, loop_, thread, quit_, byUser>>

Join ==
  /\ owner = "join"
  /\ thread[Dying] = "done"
  /\ Free(Dying)
  /\ UNCHANGED <<threads_, loops_, loop_, thread, quit_, byUser>>

EndDestroy ==
  /\ owner = "delete" /\ freed = threads_
  /\ owner' = "gone"
  /\ UNCHANGED <<threads_, loops_, freed, loop_, thread, quit_, byUser>>

-----------------------------------------------------------------------------
(* threadFunc of worker i. *)

Go(i, from, to) ==
  /\ thread[i] = from
  /\ thread' = [thread EXCEPT ![i] = to]

(* callback_(&loop) returns. *)
EndCallback(i) ==
  /\ Go(i, "callback", "publish")
  /\ UNCHANGED <<owner, threads_, loops_, freed, loop_, quit_, byUser>>

(* Mutant: the owner is not notified. *)
PublishSilently(i) ==
  /\ Go(i, "publish", "loop")
  /\ loop_' = [loop_ EXCEPT ![i] = i]
  /\ UNCHANGED <<owner, threads_, loops_, freed, quit_, byUser>>

(* loop_ = &loop; cond_.notify_one() *)
Publish(i) ==
  /\ Go(i, "publish", "loop")
  /\ loop_' = [loop_ EXCEPT ![i] = i]
  /\ owner' = IF owner = "wait" /\ threads_ = i THEN "check" ELSE owner
  /\ UNCHANGED <<threads_, loops_, freed, quit_, byUser>>

EnterLoop(i) ==
  /\ Go(i, "loop", "looping")
  /\ quit_' = [quit_ EXCEPT ![i] = FALSE]
  /\ UNCHANGED <<owner, threads_, loops_, freed, loop_, byUser>>

(* User code on the loop's own thread quits it. *)
QuitByUser(i) ==
  /\ thread[i] \in {"callback", "looping"}
  /\ quit_' = [quit_ EXCEPT ![i] = TRUE]
  /\ byUser' = [byUser EXCEPT ![i] = TRUE]
  /\ UNCHANGED <<owner, threads_, loops_, freed, loop_, thread>>

LeaveLoop(i) ==
  /\ quit_[i]
  /\ Go(i, "looping", "leave")
  /\ UNCHANGED <<owner, threads_, loops_, freed, loop_, quit_, byUser>>

(* Mutant: threadFunc leaves loop_ as it is. *)
KeepPublished(i) ==
  /\ Go(i, "leave", "unlock")
  /\ UNCHANGED <<owner, threads_, loops_, freed, loop_, quit_, byUser>>

(* loop_ = nullptr, under mutex_ *)
Unpublish(i) ==
  /\ Go(i, "leave", "unlock")
  /\ loop_' = [loop_ EXCEPT ![i] = null]
  /\ UNCHANGED <<owner, threads_, loops_, freed, quit_, byUser>>

Unlock(i) ==
  /\ Go(i, "unlock", "~loop")
  /\ UNCHANGED <<owner, threads_, loops_, freed, loop_, quit_, byUser>>

DestroyLoop(i) ==
  /\ Go(i, "~loop", "done")
  /\ UNCHANGED <<owner, threads_, loops_, freed, loop_, quit_, byUser>>

-----------------------------------------------------------------------------
OwnerStep ==
  \/ StartThread \/ CheckLoop \/ Started
  \/ ReadLoop \/ QuitStore \/ QuitWakeup \/ Join \/ EndDestroy

ThreadStep(i) ==
  \/ EndCallback(i) \/ Publish(i) \/ EnterLoop(i)
  \/ LeaveLoop(i) \/ Unpublish(i) \/ Unlock(i) \/ DestroyLoop(i)

Next ==
  \/ OwnerStep
  \/ WakeSpuriously
  \/ BeginDestroy
  \/ \E i \in Worker : ThreadStep(i) \/ QuitByUser(i)

Spec == Init /\ [][Next]_vars

(* The threads run; a quit wakes the loop (QuitWakesPoll of                *)
(* EventLoopProps).                                                        *)
FairSpec == /\ Spec
            /\ WF_vars(OwnerStep)
            /\ \A i \in Worker : WF_vars(ThreadStep(i))
=============================================================================

--------------------------- MODULE EventLoopProps ---------------------------
(***************************************************************************)
(* What EventLoop has to guarantee, and the mailbox it implements.         *)
(***************************************************************************)
EXTENDS EventLoop

(* Somebody has promised to make, or has made, wakeupFd_ readable. *)
WakeupIsDue ==
  \/ eventfd
  \/ \E t \in Threads : call[t] = "emplaced"

(* No lost wakeup: the loop's thread never sits in epoll_wait on a queued  *)
(* callback unless wakeupFd_ is readable or the thread that queued it is   *)
(* about to make it so.  This is the condition in queueInLoop              *)
(* (EventLoop.cc:126) working together with the order of handleRead and    *)
(* the swap.  Only what the thread-init callback queued is exempt.         *)
NoLostWakeup ==
  pc = "poll" /\ ~(ToSet(pendingFunctors_) \subseteq InitFunctors)
    => WakeupIsDue

(* quit() gets through to a sleeping loop: a thread in epoll_wait with     *)
(* quit_ set has been woken or is about to be (EventLoop.cc:94-103).       *)
QuitWakesPoll ==
  pc = "poll" /\ quit_ => eventfd \/ \E t \in Threads : call[t] = "quitting"

(* Every callback queued after loop() began is run without help from the   *)
(* poll timeout, unless the loop stops first (EventLoop.cc:117-130).       *)
PromptlyRun ==
  \A f \in Functors \ InitFunctors :
    f \in ToSet(pendingFunctors_) ~> (f \in ToSet(ran) \/ pc = "stopped")

(* A loop that runs and sees quit_ set leaves loop(), also without help    *)
(* from the poll timeout (EventLoop.cc:63-91).                             *)
QuitStopsLoop ==
  (quit_ /\ pc \notin {"init", "stopped"}) ~> pc = "stopped"

(* What EventLoop.h:26 says of quit(): a call ends the loop.               *)
QuitExits ==
  \A t \in Threads : call[t] = "quitting" ~> pc = "stopped"

(* The mailbox: what is accepted and not yet run is the rest of the batch  *)
(* followed by what came in since the swap.                                *)
Mailbox == INSTANCE FunctorQueue
             WITH queue <- functors \o pendingFunctors_,
                  ran <- ran,
                  open <- pc # "stopped"

(* The loop implements the mailbox: callbacks run once, in the order they  *)
(* were accepted, none after loop() returned (EventLoop.cc:105-130 and     *)
(* 169-185).                                                               *)
MailboxSafety == Mailbox!Spec

(* With the poll timeout, every accepted callback, also one queued before  *)
(* loop(), is run while the loop is open: the progress of the mailbox.     *)
MailboxProgress == Timeouts => Mailbox!Fairness
=============================================================================

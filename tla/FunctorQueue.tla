---------------------------- MODULE FunctorQueue ----------------------------
(***************************************************************************)
(* What EventLoop promises about the callbacks handed to it: a mailbox.    *)
(* runInLoop and queueInLoop may be called by any thread; every callback   *)
(* they accept is run by the loop's thread once, in the order it was       *)
(* accepted, for as long as the loop is open.  A runInLoop of the loop's   *)
(* own thread runs its callback on the spot, ahead of the queue.           *)
(*                                                                         *)
(* EventLoop.tla implements this specification with a mutex-protected      *)
(* vector, a local batch and an eventfd.                                   *)
(***************************************************************************)
EXTENDS Naturals, Sequences, SequencesExt

CONSTANT Functors   \* the callbacks, each handed over at most once

VARIABLES
  queue,   \* accepted and not yet run, oldest first
  ran,     \* run so far, in order
  open     \* FALSE once loop() has returned

vars == <<queue, ran, open>>

TypeOK ==
  /\ queue \in Seq(Functors)
  /\ ran \in Seq(Functors)
  /\ open \in BOOLEAN

Init ==
  /\ queue = <<>>
  /\ ran = <<>>
  /\ open = TRUE

Fresh(f) == f \notin ToSet(queue) /\ f \notin ToSet(ran)

Submit(f) ==
  /\ Fresh(f)
  /\ queue' = Append(queue, f)
  /\ UNCHANGED <<ran, open>>

RunNow(f) ==
  /\ open
  /\ Fresh(f)
  /\ ran' = Append(ran, f)
  /\ UNCHANGED <<queue, open>>

RunNext ==
  /\ open
  /\ queue # <<>>
  /\ ran' = Append(ran, Head(queue))
  /\ queue' = Tail(queue)
  /\ UNCHANGED open

Close ==
  /\ open
  /\ open' = FALSE
  /\ UNCHANGED <<queue, ran>>

Next ==
  \/ \E f \in Functors : Submit(f) \/ RunNow(f)
  \/ RunNext
  \/ Close

Spec == Init /\ [][Next]_vars

(* What is queued is run while the loop is open. *)
Fairness == WF_vars(RunNext)
=============================================================================

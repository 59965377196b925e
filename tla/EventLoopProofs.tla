-------------------------- MODULE EventLoopProofs ---------------------------
(***************************************************************************)
(* Theorems about EventLoop, for any number of threads and callbacks.      *)
(***************************************************************************)
EXTENDS EventLoopProps, SequenceTheorems, TLAPS

(* Every variable keeps its type, the batch is empty outside of            *)
(* doPendingFunctors, and callingPendingFunctors_ says exactly when that   *)
(* function runs callbacks (EventLoop.cc:169-185).                         *)
THEOREM TypeCorrect == Spec => []TypeOK
<1> USE EventLoopAssumption DEF Callers, Control, CallState, Channels
<1>1. Init => TypeOK
  <2> SUFFICES ASSUME Init PROVE TypeOK
    OBVIOUS
  <2>1. callingPendingFunctors_ <=> pc = "run"
    BY DEF Init
  <2>2. call \in [Callers -> CallState] /\ call[Loop] = "none"
    BY DEF Init
  <2>3. <<>> \in Seq(Functors)
    OBVIOUS
  <2> QED BY <2>1, <2>2, <2>3, Zenon DEF Init, TypeOK
<1>2. TypeOK /\ [Next]_vars => TypeOK'
  <2> SUFFICES ASSUME TypeOK, [Next]_vars PROVE TypeOK'
    OBVIOUS
  <2> USE DEF TypeOK
  <2>1. ASSUME NEW t \in Callers, NEW f \in Functors, QueueInLoop(t, f)
        PROVE  TypeOK'
    BY <2>1 DEF QueueInLoop, MayCall
  <2>2. ASSUME NEW t \in Callers, Quit(t) PROVE TypeOK'
    BY <2>2 DEF Quit, MayCall
  <2>3. ASSUME NEW t \in Callers, FinishCall(t) PROVE TypeOK'
    <3>1. eventfd' \in BOOLEAN
      BY <2>3, Zenon DEF FinishCall, QueueWakeup, QuitWakeup
    <3>2. call' \in [Callers -> CallState]
      BY <2>3 DEF FinishCall, QueueWakeup, QuitWakeup
    <3>3. call'[Loop] # "none" => inCallback'
      BY <2>3 DEF FinishCall, QueueWakeup, QuitWakeup
    <3>4. UNCHANGED <<pc, inCallback, quit_, callingPendingFunctors_,
                      pendingFunctors_, functors, activeChannels_, ran>>
      BY <2>3 DEF FinishCall, QueueWakeup, QuitWakeup
    <3> QED BY <3>1, <3>2, <3>3, <3>4
  <2>4. ASSUME NEW f \in Functors, RunInLoop(f) PROVE TypeOK'
    BY <2>4 DEF RunInLoop
  <2>5. CASE ReturnFromCallback BY <2>5 DEF ReturnFromCallback
  <2>6. CASE EnterLoop BY <2>6 DEF EnterLoop
  <2>7. CASE TestQuit BY <2>7 DEF TestQuit
  <2>8. ASSUME NEW ioReady \in BOOLEAN, PollReturns(ioReady) PROVE TypeOK'
    BY <2>8 DEF PollReturns
  <2>9. CASE PollTimesOut BY <2>9 DEF PollTimesOut
  <2>10. CASE HandleWakeup BY <2>10 DEF HandleWakeup
  <2>11. CASE HandleIO BY <2>11 DEF HandleIO
  <2>12. CASE HandledAll BY <2>12 DEF HandledAll
  <2>13. CASE SwapFunctors BY <2>13 DEF SwapFunctors
  <2>14. CASE RunFunctor BY <2>14 DEF RunFunctor
  <2>15. CASE EndFunctors BY <2>15 DEF EndFunctors
  <2>16. CASE UNCHANGED vars BY <2>16 DEF vars
  <2> QED
    BY <2>1, <2>2, <2>3, <2>4, <2>5, <2>6, <2>7, <2>8, <2>9, <2>10, <2>11,
       <2>12, <2>13, <2>14, <2>15, <2>16 DEF Next
<1> QED BY <1>1, <1>2, PTL DEF Spec

-----------------------------------------------------------------------------
(* Lemmas on the range and the concatenation of sequences. *)

(* The range of the empty sequence: nothing is queued after the swap. *)
LEMMA ToSetEmpty == ToSet(<<>>) = {}
BY DEF ToSet

(* emplace_back adds one callback to what is queued. *)
LEMMA ToSetAppend ==
  ASSUME NEW S, NEW s \in Seq(S), NEW e \in S
  PROVE  ToSet(Append(s, e)) = ToSet(s) \cup {e}
<1>1. /\ DOMAIN s = 1 .. Len(s)
      /\ DOMAIN Append(s, e) = 1 .. Len(s) + 1
      /\ Len(s) \in Nat
  BY LenProperties, AppendProperties
<1>2. /\ \A i \in 1 .. Len(s) : Append(s, e)[i] = s[i]
      /\ Append(s, e)[Len(s) + 1] = e
  BY AppendProperties
<1>3. ToSet(Append(s, e)) \subseteq ToSet(s) \cup {e}
  <2>1. ASSUME NEW i \in 1 .. Len(s) + 1
        PROVE  Append(s, e)[i] \in ToSet(s) \cup {e}
    BY <1>1, <1>2 DEF ToSet
  <2> QED BY <1>1, <2>1 DEF ToSet
<1>4. ToSet(s) \subseteq ToSet(Append(s, e))
  <2>1. ASSUME NEW i \in 1 .. Len(s) PROVE s[i] \in ToSet(Append(s, e))
    BY <1>1, <1>2 DEF ToSet
  <2> QED BY <1>1, <2>1 DEF ToSet
<1>5. e \in ToSet(Append(s, e))
  BY <1>1, <1>2 DEF ToSet
<1> QED BY <1>3, <1>4, <1>5

(* The callbacks of the batch and the queue together. *)
LEMMA ToSetConcat ==
  ASSUME NEW S, NEW s \in Seq(S), NEW t \in Seq(S)
  PROVE  ToSet(s \o t) = ToSet(s) \cup ToSet(t)
<1>1. ToSet(s \o t) \subseteq ToSet(s) \cup ToSet(t)
  BY ConcatProperties DEF ToSet
<1>2. ToSet(s) \subseteq ToSet(s \o t)
  BY ConcatProperties DEF ToSet
<1>3. ASSUME NEW i \in 1 .. Len(t) PROVE t[i] \in ToSet(s \o t)
  <2>1. i + Len(s) \in 1 .. Len(s \o t) /\ (s \o t)[i + Len(s)] = t[i]
    BY ConcatProperties, LenProperties
  <2> QED BY <2>1, ConcatProperties DEF ToSet
<1> QED BY <1>1, <1>2, <1>3 DEF ToSet

(* A callback queued behind the batch is queued behind both. *)
LEMMA ConcatAppend ==
  ASSUME NEW S, NEW s \in Seq(S), NEW t \in Seq(S), NEW e \in S
  PROVE  s \o Append(t, e) = Append(s \o t, e)
OBVIOUS

(* Taking the first of the batch is taking the first of both. *)
LEMMA ConcatHeadTail ==
  ASSUME NEW S, NEW s \in Seq(S), NEW t \in Seq(S), s # <<>>
  PROVE  /\ s \o t # <<>>
         /\ Head(s \o t) = Head(s)
         /\ Tail(s \o t) = Tail(s) \o t
OBVIOUS

-----------------------------------------------------------------------------
(***************************************************************************)
(* The inductive form of NoLostWakeup.  While the loop's thread is between *)
(* the end of a batch and the end of the next epoll_wait, or still running *)
(* the batch, whatever is in pendingFunctors_ has a wakeup to its name;    *)
(* during the batch this may be one the loop's own thread is about to      *)
(* write.  Between handleRead and the swap nothing is claimed: there the   *)
(* loop is on its way to the swap anyway.                                  *)
(***************************************************************************)
WakeupInv ==
  /\ pc \in {"init", "while", "poll", "run"}
  /\ ~(ToSet(pendingFunctors_) \subseteq InitFunctors)
  => WakeupIsDue \/ (callingPendingFunctors_ /\ call[Loop] = "emplaced")

(* No callback queued after loop() began is ever left behind in a sleeping *)
(* loop (EventLoop::queueInLoop, handleRead and doPendingFunctors).        *)
THEOREM NoLostWakeupHolds == Spec => []NoLostWakeup
<1> USE EventLoopAssumption DEF Callers
<1>1. Init => WakeupInv
  BY ToSetEmpty DEF Init, WakeupInv
<1>2. TypeOK /\ WakeupInv /\ [Next]_vars => WakeupInv'
  <2> SUFFICES ASSUME TypeOK, WakeupInv, [Next]_vars PROVE WakeupInv'
    OBVIOUS
  <2> USE DEF WakeupInv, WakeupIsDue
  <2>1. ASSUME NEW t \in Callers, NEW f \in Functors, QueueInLoop(t, f)
        PROVE  WakeupInv'
    <3>1. ToSet(pendingFunctors_') = ToSet(pendingFunctors_) \cup {f}
      BY <2>1, ToSetAppend DEF QueueInLoop, TypeOK
    <3>2. CASE t \in Threads
      <4>1. call'[t] = "emplaced"
        BY <2>1, <3>2 DEF QueueInLoop, TypeOK
      <4> QED BY <4>1, <3>2
    <3>3. CASE t = Loop /\ pc = "init"
      BY <2>1, <3>1, <3>3 DEF QueueInLoop, MayCall, TypeOK
    <3>4. CASE t = Loop /\ pc # "init"
      <4>1. inCallback /\ pc \in {"handle", "run"}
        BY <2>1, <3>4 DEF QueueInLoop, MayCall, TypeOK
      <4>2. CASE pc = "handle"
        BY <2>1, <4>2 DEF QueueInLoop
      <4>3. CASE pc = "run"
        BY <2>1, <3>4, <4>3 DEF QueueInLoop, TypeOK
      <4> QED BY <4>1, <4>2, <4>3
    <3> QED BY <3>2, <3>3, <3>4
  <2>2. ASSUME NEW t \in Callers, Quit(t) PROVE WakeupInv'
    BY <2>2 DEF Quit, MayCall, TypeOK
  <2>3. ASSUME NEW t \in Callers, QueueWakeup(t) PROVE WakeupInv'
    <3>1. CASE t \in Threads
      <4>1. eventfd' = TRUE
        BY <2>3, <3>1, Zenon DEF QueueWakeup, NeedsWakeup
      <4> QED BY <4>1
    <3>2. CASE t = Loop /\ callingPendingFunctors_
      <4>1. eventfd' = TRUE
        BY <2>3, <3>2, Zenon DEF QueueWakeup, NeedsWakeup
      <4> QED BY <4>1
    <3>3. CASE t = Loop /\ ~callingPendingFunctors_
      <4>1. eventfd => eventfd'
        BY <2>3, Zenon DEF QueueWakeup
      <4> QED BY <2>3, <3>3, <4>1 DEF QueueWakeup, TypeOK
    <3> QED BY <3>1, <3>2, <3>3
  <2>4. ASSUME NEW t \in Callers, QuitWakeup(t) PROVE WakeupInv'
    <3>1. eventfd => eventfd'
      BY <2>4, Zenon DEF QuitWakeup
    <3> QED BY <2>4, <3>1 DEF QuitWakeup, TypeOK
  <2>5. ASSUME NEW f \in Functors, RunInLoop(f) PROVE WakeupInv'
    BY <2>5 DEF RunInLoop
  <2>6. CASE ReturnFromCallback BY <2>6 DEF ReturnFromCallback
  <2>7. CASE EnterLoop BY <2>7 DEF EnterLoop
  <2>8. CASE TestQuit BY <2>8 DEF TestQuit
  <2>9. ASSUME NEW ioReady \in BOOLEAN, PollReturns(ioReady)
        PROVE  WakeupInv'
    BY <2>9 DEF PollReturns
  <2>10. CASE PollTimesOut BY <2>10 DEF PollTimesOut
  <2>11. CASE HandleWakeup BY <2>11 DEF HandleWakeup
  <2>12. CASE HandleIO BY <2>12 DEF HandleIO
  <2>13. CASE HandledAll BY <2>13 DEF HandledAll
  <2>14. CASE SwapFunctors BY <2>14, ToSetEmpty DEF SwapFunctors
  <2>15. CASE RunFunctor BY <2>15 DEF RunFunctor
  <2>16. CASE EndFunctors BY <2>16 DEF EndFunctors, TypeOK
  <2>17. CASE UNCHANGED vars BY <2>17 DEF vars
  <2> QED
    BY <2>1, <2>2, <2>3, <2>4, <2>5, <2>6, <2>7, <2>8, <2>9, <2>10, <2>11,
       <2>12, <2>13, <2>14, <2>15, <2>16, <2>17 DEF Next, FinishCall
<1>3. TypeOK /\ WakeupInv => NoLostWakeup
  BY DEF TypeOK, WakeupInv, NoLostWakeup
<1> QED BY <1>1, <1>2, <1>3, TypeCorrect, PTL DEF Spec

-----------------------------------------------------------------------------
(* A quit() that reaches a loop inside epoll_wait wakes it: the wakeup is  *)
(* there or is the next thing the quitting thread does                     *)
(* (EventLoop.cc:94-103).                                                  *)
THEOREM QuitWakesPollHolds == Spec => []QuitWakesPoll
<1> USE EventLoopAssumption DEF Callers
<1>1. Init => QuitWakesPoll
  BY DEF Init, QuitWakesPoll
<1>2. TypeOK /\ QuitWakesPoll /\ [Next]_vars => QuitWakesPoll'
  <2> SUFFICES ASSUME TypeOK, QuitWakesPoll, [Next]_vars
               PROVE  QuitWakesPoll'
    OBVIOUS
  <2> USE DEF QuitWakesPoll
  <2>1. ASSUME NEW t \in Callers, NEW f \in Functors, QueueInLoop(t, f)
        PROVE  QuitWakesPoll'
    BY <2>1 DEF QueueInLoop, MayCall, TypeOK
  <2>2. ASSUME NEW t \in Callers, Quit(t) PROVE QuitWakesPoll'
    <3>1. CASE t \in Threads
      <4>1. call'[t] = "quitting"
        BY <2>2 DEF Quit, TypeOK
      <4> QED BY <3>1, <4>1
    <3>2. CASE t = Loop
      <4>1. pc' # "poll"
        BY <2>2, <3>2 DEF Quit, MayCall, TypeOK
      <4> QED BY <4>1
    <3> QED BY <3>1, <3>2
  <2>3. ASSUME NEW t \in Callers, QueueWakeup(t) PROVE QuitWakesPoll'
    <3>1. eventfd => eventfd'
      BY <2>3, Zenon DEF QueueWakeup
    <3> QED BY <2>3, <3>1 DEF QueueWakeup, TypeOK
  <2>4. ASSUME NEW t \in Callers, QuitWakeup(t) PROVE QuitWakesPoll'
    <3>1. CASE t \in Threads
      <4>1. eventfd' = TRUE
        BY <2>4, <3>1, Zenon DEF QuitWakeup
      <4> QED BY <4>1
    <3>2. CASE t = Loop
      <4>1. eventfd => eventfd'
        BY <2>4, Zenon DEF QuitWakeup
      <4> QED BY <2>4, <3>2, <4>1 DEF QuitWakeup, TypeOK
    <3> QED BY <3>1, <3>2
  <2>5. ASSUME NEW f \in Functors, RunInLoop(f) PROVE QuitWakesPoll'
    BY <2>5 DEF RunInLoop
  <2>6. CASE ReturnFromCallback BY <2>6 DEF ReturnFromCallback
  <2>7. CASE EnterLoop BY <2>7 DEF EnterLoop
  <2>8. CASE TestQuit BY <2>8 DEF TestQuit
  <2>9. ASSUME NEW ioReady \in BOOLEAN, PollReturns(ioReady)
        PROVE  QuitWakesPoll'
    BY <2>9 DEF PollReturns
  <2>10. CASE PollTimesOut BY <2>10 DEF PollTimesOut
  <2>11. CASE HandleWakeup BY <2>11 DEF HandleWakeup
  <2>12. CASE HandleIO BY <2>12 DEF HandleIO
  <2>13. CASE HandledAll BY <2>13 DEF HandledAll
  <2>14. CASE SwapFunctors BY <2>14 DEF SwapFunctors
  <2>15. CASE RunFunctor BY <2>15 DEF RunFunctor
  <2>16. CASE EndFunctors BY <2>16 DEF EndFunctors
  <2>17. CASE UNCHANGED vars BY <2>17 DEF vars
  <2> QED
    BY <2>1, <2>2, <2>3, <2>4, <2>5, <2>6, <2>7, <2>8, <2>9, <2>10, <2>11,
       <2>12, <2>13, <2>14, <2>15, <2>16, <2>17 DEF Next, FinishCall
<1> QED BY <1>1, <1>2, TypeCorrect, PTL DEF Spec

-----------------------------------------------------------------------------
(* The loop implements the mailbox of FunctorQueue: whatever the threads   *)
(* do, callbacks are run once each, in the order they were accepted, and   *)
(* none after loop() returned (EventLoop.cc:105-130 and 169-185).          *)
THEOREM MailboxSafetyHolds == Spec => MailboxSafety
<1> DEFINE queue == functors \o pendingFunctors_
           open  == pc # "stopped"
<1> USE DEF Callers
<1>1. Init => Mailbox!Init
  BY DEF Init, Mailbox!Init
<1>2. TypeOK /\ [Next]_vars => [Mailbox!Next]_(Mailbox!vars)
  <2> SUFFICES ASSUME TypeOK, [Next]_vars
               PROVE  Mailbox!Next \/ UNCHANGED Mailbox!vars
    OBVIOUS
  <2>fresh. ASSUME NEW f \in Functors, Fresh(f) PROVE Mailbox!Fresh(f)
    <3>1. \A s : Mailbox!ToSet(s) = ToSet(s)
      BY DEF ToSet, Mailbox!ToSet
    <3>2. ToSet(queue) = ToSet(functors) \cup ToSet(pendingFunctors_)
      BY ToSetConcat DEF TypeOK
    <3> QED BY <2>fresh, <3>1, <3>2 DEF Fresh, Mailbox!Fresh
  <2>stutter. ASSUME UNCHANGED <<functors, pendingFunctors_, ran>>,
                     open' = open
              PROVE  UNCHANGED Mailbox!vars
    BY <2>stutter DEF Mailbox!vars
  <2>1. ASSUME NEW t \in Callers, NEW f \in Functors, QueueInLoop(t, f)
        PROVE  Mailbox!Submit(f)
    <3>1. queue' = Append(queue, f)
      BY <2>1, ConcatAppend DEF QueueInLoop, TypeOK
    <3>2. open' = open /\ ran' = ran
      BY <2>1 DEF QueueInLoop
    <3> QED BY <2>1, <2>fresh, <3>1, <3>2 DEF QueueInLoop, Mailbox!Submit
  <2>2. ASSUME NEW f \in Functors, RunInLoop(f) PROVE Mailbox!RunNow(f)
    <3>1. open
      BY <2>2 DEF RunInLoop, MayCall, TypeOK
    <3>2. queue' = queue /\ open' = open
      BY <2>2 DEF RunInLoop
    <3> QED BY <2>2, <2>fresh, <3>1, <3>2 DEF RunInLoop, Mailbox!RunNow
  <2>3. CASE RunFunctor
    <3>1. open /\ open' = open
      BY <2>3 DEF RunFunctor
    <3>2. /\ queue # <<>>
          /\ Head(queue) = Head(functors)
          /\ queue' = Tail(queue)
      BY <2>3, ConcatHeadTail DEF RunFunctor, TypeOK
    <3> QED BY <2>3, <3>1, <3>2 DEF RunFunctor, Mailbox!RunNext, Mailbox!Next
  <2>4. CASE SwapFunctors
    <3>1. functors = <<>>
      BY <2>4 DEF SwapFunctors, TypeOK
    <3>2. queue' = queue
      BY <2>4, <3>1 DEF SwapFunctors, TypeOK
    <3>3. open' = open /\ ran' = ran
      BY <2>4 DEF SwapFunctors
    <3> QED BY <3>2, <3>3 DEF Mailbox!vars
  <2>5. CASE TestQuit
    <3>1. queue' = queue /\ ran' = ran
      BY <2>5 DEF TestQuit
    <3>2. CASE quit_
      <4>1. open /\ open' = FALSE
        BY <2>5, <3>2 DEF TestQuit
      <4> QED BY <3>1, <4>1 DEF Mailbox!Close, Mailbox!Next
    <3>3. CASE ~quit_
      <4>1. open' = open
        BY <2>5, <3>3 DEF TestQuit
      <4> QED BY <3>1, <4>1 DEF Mailbox!vars
    <3> QED BY <3>2, <3>3
  <2>6. ASSUME NEW t \in Callers, Quit(t) PROVE UNCHANGED Mailbox!vars
    BY <2>6, <2>stutter DEF Quit
  <2>7. ASSUME NEW t \in Callers, FinishCall(t) PROVE UNCHANGED Mailbox!vars
    BY <2>7, <2>stutter DEF FinishCall, QueueWakeup, QuitWakeup
  <2>8. CASE ReturnFromCallback BY <2>8, <2>stutter DEF ReturnFromCallback
  <2>9. CASE EnterLoop BY <2>9, <2>stutter DEF EnterLoop
  <2>10. ASSUME NEW ioReady \in BOOLEAN, PollReturns(ioReady)
         PROVE  UNCHANGED Mailbox!vars
    BY <2>10, <2>stutter DEF PollReturns
  <2>11. CASE PollTimesOut BY <2>11, <2>stutter DEF PollTimesOut
  <2>12. CASE HandleWakeup BY <2>12, <2>stutter DEF HandleWakeup
  <2>13. CASE HandleIO BY <2>13, <2>stutter DEF HandleIO
  <2>14. CASE HandledAll BY <2>14, <2>stutter DEF HandledAll
  <2>15. CASE EndFunctors BY <2>15, <2>stutter DEF EndFunctors
  <2>16. CASE UNCHANGED vars BY <2>16, <2>stutter DEF vars
  <2> QED
    BY <2>1, <2>2, <2>3, <2>4, <2>5, <2>6, <2>7, <2>8, <2>9, <2>10, <2>11,
       <2>12, <2>13, <2>14, <2>15, <2>16 DEF Next, Mailbox!Next
<1> QED
  BY <1>1, <1>2, TypeCorrect, PTL DEF Spec, MailboxSafety, Mailbox!Spec
=============================================================================

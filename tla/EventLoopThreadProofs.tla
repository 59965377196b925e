----------------------- MODULE EventLoopThreadProofs ------------------------
(***************************************************************************)
(* The invariants of EventLoopThreadProps, for any number of threads.      *)
(* What makes them inductive: where the thread is fixes what is published, *)
(* where the owner is fixes how many loops it has been handed, and only    *)
(* user code or the destructor of its own worker ends a loop.              *)
(***************************************************************************)
EXTENDS EventLoopThreadProps, TLAPS

Published(i) == thread[i] \in {"loop", "looping", "leave"}

LoopPublished ==
  \A i \in Worker : loop_[i] = IF Published(i) THEN i ELSE null

(* The threads that run, and the loops that startLoop has returned. *)
Counted ==
  /\ \A i \in Worker : thread[i] # "none" <=> i <= threads_
  /\ owner \in {"check", "wait"} => threads_ > 0 /\ Len(loops_) = threads_ - 1
  /\ owner \notin {"check", "wait"} => Len(loops_) = threads_
  /\ owner \in {"start", "check", "wait", "up"} => freed = 0
  /\ owner \in {"quit", "wakeup", "join"} => freed < threads_

(* The worker that the destructor has told to quit. *)
Told(i) == i = Dying /\ owner \in {"wakeup", "join"}

QuitHasReason ==
  \A i \in Worker :
    /\ quit_[i] => byUser[i] \/ Told(i) \/ i <= freed
    /\ thread[i] \in {"leave", "unlock", "~loop", "done"}
         => byUser[i] \/ Told(i) \/ i <= freed

Inv ==
  /\ TypeOK
  /\ LoopPublished
  /\ Counted
  /\ StartedLoopsAreReal
  /\ QuitHasReason
  /\ JoinedBeforeFreed

LEMMA InitInv == Init => Inv
  BY EventLoopThreadAssumption
  DEF Init, Inv, TypeOK, Owner, ThreadFunc, Worker, null, LoopPublished,
      Published, Counted, StartedLoopsAreReal, QuitHasReason, Told,
      JoinedBeforeFreed

(* The steps of the owner in start(). *)
LEMMA StartInv ==
  ASSUME Inv, StartThread \/ CheckLoop \/ Started \/ WakeSpuriously
  PROVE  Inv'
<1> USE EventLoopThreadAssumption
    DEF Inv, TypeOK, Owner, ThreadFunc, Worker, null, LoopPublished,
        Published, Counted, StartedLoopsAreReal, QuitHasReason, Told, Dying,
        JoinedBeforeFreed
<1>1. CASE StartThread
  BY <1>1 DEF StartThread
<1>2. CASE CheckLoop
  <2>1. CASE loop_[threads_] = null
    BY <1>2, <2>1 DEF CheckLoop
  <2>2. CASE loop_[threads_] # null
    <3>1. threads_ \in Worker /\ loop_[threads_] = threads_
      BY <1>2, <2>2 DEF CheckLoop
    <3>2. /\ loops_' = Append(loops_, threads_)
          /\ owner' = "start"
      BY <1>2, <2>2, <3>1 DEF CheckLoop, ReturnLoop
    <3>3. /\ UNCHANGED <<threads_, freed, loop_, thread, quit_, byUser>>
          /\ Len(loops_) = threads_ - 1
      BY <1>2 DEF CheckLoop
    <3>4. /\ loops_' \in Seq(Worker \cup {null})
          /\ Len(loops_') = threads_
          /\ \A i \in 1 .. Len(loops_') : loops_'[i] = i
      BY <3>1, <3>2, <3>3
    <3>5. thread[threads_] \in {"loop", "looping", "leave"}
      BY <3>1
    <3> QED BY <1>2, <3>1, <3>2, <3>3, <3>4, <3>5 DEF CheckLoop
  <2> QED BY <2>1, <2>2
<1>3. CASE Started
  BY <1>3 DEF Started
<1>4. CASE WakeSpuriously
  BY <1>4 DEF WakeSpuriously
<1> QED BY <1>1, <1>2, <1>3, <1>4

(* The steps of the owner in ~EventLoopThreadPool. *)
LEMMA DestroyInv ==
  ASSUME Inv,
         \/ BeginDestroy \/ ReadLoop \/ QuitStore \/ QuitWakeup
         \/ Join \/ EndDestroy
  PROVE  Inv'
<1> USE EventLoopThreadAssumption
    DEF Inv, TypeOK, Owner, ThreadFunc, Worker, null, LoopPublished,
        Published, Counted, StartedLoopsAreReal, QuitHasReason, Told, Dying,
        JoinedBeforeFreed
<1>1. CASE BeginDestroy
  BY <1>1 DEF BeginDestroy
<1>2. CASE ReadLoop
  <2>1. /\ Dying \in Worker /\ Dying \in 1 .. Len(loops_)
        /\ Len(loops_) = numThreads_
    BY <1>2 DEF ReadLoop
  <2>2. CASE loop_[Dying] = null
    <3>1. thread[Dying] \in {"unlock", "~loop", "done"}
      BY <1>2, <2>1, <2>2 DEF ReadLoop
    <3>2. byUser[Dying]
      BY <1>2, <2>1, <3>1 DEF ReadLoop
    <3> QED BY <1>2, <2>1, <2>2, <3>2 DEF ReadLoop, Free
  <2>3. CASE loop_[Dying] # null
    BY <1>2, <2>1, <2>3 DEF ReadLoop
  <2> QED BY <2>2, <2>3
<1>3. CASE QuitStore
  BY <1>3 DEF QuitStore
<1>4. CASE QuitWakeup
  BY <1>4 DEF QuitWakeup
<1>5. CASE Join
  BY <1>5 DEF Join, Free
<1>6. CASE EndDestroy
  BY <1>6 DEF EndDestroy
<1> QED BY <1>1, <1>2, <1>3, <1>4, <1>5, <1>6

(* A step of a thread that neither publishes nor ends a loop. *)
LEMMA MoveInv ==
  ASSUME Inv, NEW i \in Worker, NEW from, NEW to, Go(i, from, to),
         \/ from = "callback" /\ to = "publish"
         \/ from = "unlock" /\ to = "~loop"
         \/ from = "~loop" /\ to = "done",
         UNCHANGED <<owner, threads_, loops_, freed, loop_, quit_, byUser>>
  PROVE  Inv'
<1>1. /\ thread \in [Worker -> ThreadFunc] /\ thread[i] = from
      /\ thread' = [thread EXCEPT ![i] = to] /\ to \in ThreadFunc
  BY DEF Inv, TypeOK, Go, ThreadFunc
<1>2. /\ thread' \in [Worker -> ThreadFunc] /\ thread'[i] = to
      /\ \A j \in Worker : j # i => thread'[j] = thread[j]
  BY <1>1
<1>3. /\ from \notin {"none", "loop", "looping", "leave", "done"}
      /\ to \notin {"none", "callback", "loop", "looping", "leave"}
      /\ to \in {"unlock", "~loop", "done"} =>
           from \in {"unlock", "~loop"}
      /\ to = "publish" => from = "callback"
  OBVIOUS
<1>4. ASSUME NEW j \in Worker
      PROVE  /\ thread'[j] = "none" <=> thread[j] = "none"
             /\ Published(j)' <=> Published(j)
             /\ thread[j] = "done" => thread'[j] = "done"
             /\ thread'[j] \in {"leave", "unlock", "~loop", "done"}
                  => thread[j] \in {"leave", "unlock", "~loop", "done"}
             /\ thread'[j] \in {"none", "callback", "publish"}
                  => thread[j] \in {"none", "callback", "publish"}
  <2>1. CASE j = i
    BY <1>1, <1>2, <1>3, <2>1 DEF Published
  <2>2. CASE j # i
    BY <1>2, <2>2 DEF Published
  <2> QED BY <2>1, <2>2
<1> HIDE DEF Go
<1>5. TypeOK'
  BY <1>2, <1>4 DEF Inv, TypeOK
<1>6. LoopPublished'
  BY <1>4 DEF Inv, LoopPublished
<1>7. Counted'
  BY <1>4 DEF Inv, Counted
<1>8. StartedLoopsAreReal'
  <2>1. ASSUME NEW k \in 1 .. Len(loops_)
        PROVE  /\ k \in Worker /\ loops_[k] = k
               /\ thread[k] \notin {"none", "callback", "publish"}
    BY EventLoopThreadAssumption DEF Inv, TypeOK, StartedLoopsAreReal, Worker
  <2> QED BY <1>4, <2>1 DEF StartedLoopsAreReal
<1>9. QuitHasReason'
  BY <1>4 DEF Inv, QuitHasReason, Told, Dying
<1>10. JoinedBeforeFreed'
  <2>1. ASSUME NEW k \in 1 .. freed
        PROVE  k \in Worker /\ (thread[k] = "done" \/ byUser[k])
    BY EventLoopThreadAssumption DEF Inv, TypeOK, JoinedBeforeFreed, Worker
  <2> QED BY <1>4, <2>1 DEF JoinedBeforeFreed
<1> QED BY <1>5, <1>6, <1>7, <1>8, <1>9, <1>10 DEF Inv

(* The steps of a thread. *)
LEMMA ThreadInv ==
  ASSUME Inv, NEW i \in Worker, ThreadStep(i) \/ QuitByUser(i)
  PROVE  Inv'
<1>1. CASE EndCallback(i) BY <1>1, MoveInv DEF EndCallback
<1>6. CASE Unlock(i) BY <1>6, MoveInv DEF Unlock
<1>7. CASE DestroyLoop(i) BY <1>7, MoveInv DEF DestroyLoop
<1> USE EventLoopThreadAssumption
    DEF Inv, TypeOK, Owner, ThreadFunc, Worker, null, LoopPublished,
        Published, Counted, StartedLoopsAreReal, QuitHasReason, Told, Dying,
        JoinedBeforeFreed, Go
<1>2. CASE Publish(i) BY <1>2 DEF Publish
<1>3. CASE EnterLoop(i) BY <1>3 DEF EnterLoop
<1>4. CASE LeaveLoop(i) BY <1>4 DEF LeaveLoop
<1>5. CASE Unpublish(i) BY <1>5 DEF Unpublish
<1>8. CASE QuitByUser(i) BY <1>8 DEF QuitByUser
<1> QED
  BY <1>1, <1>2, <1>3, <1>4, <1>5, <1>6, <1>7, <1>8 DEF ThreadStep

LEMMA InvInductive == Spec => []Inv
<1>1. Inv /\ [Next]_vars => Inv'
  <2> SUFFICES ASSUME Inv, [Next]_vars PROVE Inv'
    OBVIOUS
  <2>1. CASE OwnerStep \/ WakeSpuriously \/ BeginDestroy
    BY <2>1, StartInv, DestroyInv DEF OwnerStep
  <2>2. ASSUME NEW i \in Worker, ThreadStep(i) \/ QuitByUser(i)
        PROVE  Inv'
    BY <2>2, ThreadInv
  <2>3. CASE UNCHANGED vars
    BY <2>3
    DEF vars, Inv, TypeOK, LoopPublished, Published, Counted,
        StartedLoopsAreReal, QuitHasReason, Told, Dying, JoinedBeforeFreed
  <2> QED BY <2>1, <2>2, <2>3 DEF Next
<1> QED BY <1>1, InitInv, PTL DEF Spec

(* The type invariant of the pool, its threads and their owner             *)
(* (EventLoopThread.cc, EventLoopThreadPool.cc, Thread.cc).                *)
THEOREM TypeCorrect == Spec => []TypeOK
<1>1. Inv => TypeOK
  BY DEF Inv
<1> QED BY <1>1, InvInductive, PTL

(* loop_ is reset while the loop on the thread's stack still exists        *)
(* (EventLoopThread.cc:51-60).                                             *)
THEOREM PublishedIsThere == Spec => []PublishedExists
<1>1. Inv => PublishedExists
  BY DEF Inv, LoopPublished, Published, PublishedExists, LoopExists
<1> QED BY <1>1, InvInductive, PTL

(* start() returns the threads' loops, each after its thread-init callback *)
(* (EventLoopThread.cc:24-39, EventLoopThreadPool.cc:17-34).               *)
THEOREM StartReturnsLoops == Spec => []StartedLoopsAreReal
<1>1. Inv => StartedLoopsAreReal
  BY DEF Inv
<1> QED BY <1>1, InvInductive, PTL

(* No EventLoopThread is destroyed under its running thread, unless user   *)
(* code has quit its loop (EventLoopThread.cc:14-22).                      *)
THEOREM ThreadsAreJoined == Spec => []JoinedBeforeFreed
<1>1. Inv => JoinedBeforeFreed
  BY DEF Inv
<1> QED BY <1>1, InvInductive, PTL

(* The owner goes to sleep only if loop_ is null, and Publish wakes it     *)
(* (EventLoopThread.cc:30-37, 51-55).                                      *)
THEOREM NotifyIsNotMissed == Spec => []NoMissedNotify
<1>1. Init => NoMissedNotify
  BY DEF Init, NoMissedNotify
<1>2. ASSUME Inv, NoMissedNotify, [Next]_vars PROVE NoMissedNotify'
  <2> SUFFICES ASSUME owner' = "wait"
               PROVE  \/ thread'[threads_'] \in {"callback", "publish"}
                      \/ byUser'[threads_']
    BY DEF NoMissedNotify
  <2> DEFINE w == threads_
  <2>1. CASE CheckLoop
    <3>1. owner = "check" /\ loop_[w] = null
      BY <2>1 DEF CheckLoop, ReturnLoop
    <3>2. w \in Worker /\ freed = 0 /\ thread[w] # "none"
      BY <1>2, <3>1 DEF Inv, TypeOK, Counted, Worker
    <3>3. ~Published(w)
      BY <1>2, <3>1, <3>2 DEF Inv, LoopPublished, Worker, null
    <3>4. thread[w] \in {"leave", "unlock", "~loop", "done"} => byUser[w]
      BY <1>2, <3>1, <3>2 DEF Inv, QuitHasReason, Told, Worker
    <3>5. thread[w] \in ThreadFunc
      BY <1>2, <3>2 DEF Inv, TypeOK
    <3> QED
      BY <2>1, <3>2, <3>3, <3>4, <3>5 DEF CheckLoop, Published, ThreadFunc
  <2>2. ASSUME NEW i \in Worker, ThreadStep(i) \/ QuitByUser(i)
        PROVE  \/ thread'[threads_'] \in {"callback", "publish"}
               \/ byUser'[threads_']
    <3>1. /\ owner = "wait" /\ threads_' = threads_ /\ w \in Worker
          /\ ~(Publish(i) /\ i = w)
          /\ thread \in [Worker -> ThreadFunc]
          /\ byUser \in [Worker -> BOOLEAN]
      <4>1. owner = "wait" /\ threads_' = threads_ /\ ~(Publish(i) /\ i = w)
        BY <2>2
        DEF ThreadStep, EndCallback, Publish, EnterLoop, LeaveLoop, Unpublish,
            Unlock, DestroyLoop, QuitByUser
      <4> QED BY <1>2, <4>1 DEF Inv, TypeOK, Counted, Worker
    <3>2. CASE byUser[w]
      BY <2>2, <3>1, <3>2
      DEF ThreadStep, EndCallback, Publish, EnterLoop, LeaveLoop, Unpublish,
          Unlock, DestroyLoop, QuitByUser
    <3>3. CASE thread[w] \in {"callback", "publish"}
      BY <2>2, <3>1, <3>3
      DEF ThreadStep, EndCallback, Publish, EnterLoop, LeaveLoop, Unpublish,
          Unlock, DestroyLoop, QuitByUser, Go
    <3> QED BY <1>2, <3>1, <3>2, <3>3 DEF NoMissedNotify
  <2>3. CASE OwnerStep \/ WakeSpuriously \/ BeginDestroy \/ UNCHANGED vars
    <3>1. CASE UNCHANGED vars
      BY <1>2, <3>1 DEF vars, NoMissedNotify
    <3>2. CASE ~UNCHANGED vars /\ ~CheckLoop
      BY <2>3, <3>2
      DEF OwnerStep, WakeSpuriously, BeginDestroy, StartThread, Started,
          ReadLoop, QuitStore, QuitWakeup, Join, EndDestroy, Free
    <3> QED BY <2>1, <3>1, <3>2
  <2> QED BY <1>2, <2>2, <2>3 DEF Next
<1> QED BY <1>1, <1>2, InvInductive, PTL DEF Spec
=============================================================================

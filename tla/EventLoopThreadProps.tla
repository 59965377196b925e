------------------------ MODULE EventLoopThreadProps ------------------------
(* What the pool, its threads and their owner have to agree on.            *)
EXTENDS EventLoopThread

(* Whoever finds loop_ set finds a loop: it is reset before the loop on    *)
(* the thread's stack is destroyed (EventLoopThread.cc:51-60).             *)
PublishedExists ==
  \A i \in Worker : loop_[i] # null => loop_[i] = i /\ LoopExists(i)

(* What start() hands out are the loops of the threads, in order, not a    *)
(* null pointer, and after the thread-init callback is done, however the   *)
(* wait on cond_ ended (EventLoopThread.cc:24-39).                         *)
StartedLoopsAreReal ==
  \A i \in 1 .. Len(loops_) :
    loops_[i] = i /\ thread[i] \notin {"none", "callback", "publish"}

(* An EventLoopThread outlives its thread, which uses its mutex_ and loop_ *)
(* to the end, unless user code has ended the loop behind its back         *)
(* (EventLoopThread.cc:14-22).                                             *)
JoinedBeforeFreed ==
  \A i \in 1 .. freed : thread[i] = "done" \/ byUser[i]

(* An owner that sleeps on cond_ has not missed its notify: the thread it  *)
(* waits for has still to publish its loop, unless user code has quit the  *)
(* loop in the meantime (EventLoopThread.cc:30-37, 51-55).                 *)
NoMissedNotify ==
  owner = "wait" =>
    thread[threads_] \in {"callback", "publish"} \/ byUser[threads_]

(* start() returns: no notify is missed, however the thread and the owner  *)
(* race, unless user code quits a loop that has just begun                 *)
(* (EventLoopThread.cc:30-37, 51-55).                                      *)
StartReturns ==
  owner = "check" ~> owner = "up" \/ \E i \in Worker : byUser[i]
=============================================================================

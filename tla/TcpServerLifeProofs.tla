------------------------ MODULE TcpServerLifeProofs -------------------------
(***************************************************************************)
(* TcpServer implements ConnectionLives, for any number of I/O loops,      *)
(* clients and descriptors, and forgets no closed connection.              *)
(*                                                                         *)
(* Added to the invariant of TcpServerProofs: a connection that has not    *)
(* been established waits for it, unless its loop has ended; while the     *)
(* server is up, no I/O loop ends.                                         *)
(***************************************************************************)
EXTENDS TcpServerProofs

EstablishedFirst(c) ==
  c < nextConnId_ /\ destroys[c] = 0 =>
    \/ index_[c] # "kNew"
    \/ Waits(ioLoop[c], Est(c))
    \/ pc[ioLoop[c]] = "stopped" /\ ioLoop[c] # Base

OnItsWay(c) ==
  server = "up" /\ index_[c] = "kDeleted" =>
    \/ closing[ioLoop[c]] = c
    \/ Waits(Base, Rem(c))
    \/ Waits(ioLoop[c], Des(c))

ThreadsRun ==
  server = "up" =>
    \A l \in Loop : l # Base => ~quit_[l] /\ pc[l] # "stopped"

LifeInv == ThreadsRun /\ \A c \in Conn : EstablishedFirst(c) /\ OnItsWay(c)

(* What every step does to the threads. *)
LoopsGoOn ==
  /\ server' = "up" => server = "up"
  /\ \A l \in Loop : pc[l] = "stopped" => pc'[l] = "stopped"

LivesStep == Lives!Next \/ UNCHANGED Phases

-----------------------------------------------------------------------------
LEMMA GoOn == Inv /\ [Next]_vars => LoopsGoOn
<1> SUFFICES ASSUME Inv, [Next]_vars PROVE LoopsGoOn
  OBVIOUS
<1> USE DEF LoopsGoOn, serverVars, loopVars
<1>1. CASE UNCHANGED vars
  BY <1>1 DEF vars
<1>2. CASE \/ \E n \in 0 .. Len(Threads) : SetThreadNum(n)
           \/ StartHere \/ StartElsewhere \/ StartStep
  BY <1>2 DEF SetThreadNum, StartHere, StartElsewhere, StartStep, StartThread,
              QueueListen
<1>3. CASE \/ ClientConnects \/ NewConnection \/ QuitBase \/ BeginDestroy
           \/ \E l \in Loop, c \in Conn : HandleClose(l, c)
  BY <1>3 DEF ClientConnects, NewConnection, QuitBase, BeginDestroy,
              HandleClose
<1>4. ASSUME NEW l \in Loop, LoopStep(l) PROVE LoopsGoOn
  <2>1. CASE CloseCallback(l)
    BY <2>1 DEF CloseCallback
  <2>2. CASE EnterLoop(l) \/ SwapFunctors(l) \/ EndFunctors(l)
    <3>1. /\ pc[l] # "stopped" /\ server' = server
          /\ \A k \in Loop \ {l} : pc'[k] = pc[k]
      BY <2>2 DEF EnterLoop, SwapFunctors, EndFunctors, Inv, TypeOK
    <3> QED BY <3>1
  <2>3. CASE RunListen(l) \/ \E c \in Conn : RunOnConnection(l, c)
    BY <2>3 DEF RunListen, RunOnConnection, RunFunctor
  <2> QED BY <1>4, <2>1, <2>2, <2>3 DEF LoopStep
<1>5. CASE DestructorStep
  BY <1>5 DEF DestructorStep, DestroyConnection, EndBody, QuitLoop, JoinLoop,
              EndDestroy
<1> QED BY <1>1, <1>2, <1>3, <1>4, <1>5 DEF Next

(* quit() is called on an I/O loop by ~TcpServer only. *)
LEMMA ThreadsRunOn == Inv /\ ThreadsRun /\ [Next]_vars => ThreadsRun'
<1> SUFFICES ASSUME Inv, ThreadsRun, [Next]_vars, server' = "up",
                    NEW l \in Loop, l # Base
             PROVE  ~quit_'[l] /\ pc'[l] # "stopped"
  BY DEF ThreadsRun
<1>1. server = "up" /\ ~quit_[l] /\ pc[l] # "stopped"
  BY GoOn DEF LoopsGoOn, ThreadsRun
<1> USE <1>1 DEF serverVars, loopVars
<1>2. CASE UNCHANGED vars
  BY <1>2 DEF vars
<1>3. CASE \/ \E n \in 0 .. Len(Threads) : SetThreadNum(n)
           \/ StartHere \/ StartElsewhere \/ StartStep
  BY <1>3 DEF SetThreadNum, StartHere, StartElsewhere, StartStep, StartThread,
              QueueListen
<1>4. CASE \/ ClientConnects \/ NewConnection \/ BeginDestroy
           \/ \E k \in Loop, c \in Conn : HandleClose(k, c)
  BY <1>4 DEF ClientConnects, NewConnection, BeginDestroy, HandleClose
<1>5. CASE QuitBase
  BY <1>5 DEF QuitBase, Inv, TypeOK
<1>6. ASSUME NEW k \in Loop, LoopStep(k)
      PROVE  ~quit_'[l] /\ pc'[l] # "stopped"
  <2>1. CASE CloseCallback(k)
    BY <2>1 DEF CloseCallback
  <2>2. CASE EnterLoop(k) \/ SwapFunctors(k) \/ EndFunctors(k)
    BY <2>2 DEF EnterLoop, SwapFunctors, EndFunctors, Inv, TypeOK
  <2>3. CASE RunListen(k) \/ \E c \in Conn : RunOnConnection(k, c)
    BY <2>3 DEF RunListen, RunOnConnection, RunFunctor
  <2> QED BY <1>6, <2>1, <2>2, <2>3 DEF LoopStep
<1>7. CASE DestructorStep
  BY <1>7 DEF DestructorStep, DestroyConnection, EndBody, QuitLoop, JoinLoop,
              EndDestroy
<1> QED BY <1>2, <1>3, <1>4, <1>5, <1>6, <1>7 DEF Next

-----------------------------------------------------------------------------
(* A connection that a step has nothing to do with stays where it is.      *)
LEMMA SameStory ==
  ASSUME Inv, LifeInv, ThreadsRun', LoopsGoOn, NEW d \in Conn,
         d < nextConnId_' <=> d < nextConnId_,
         d >= nextConnId_' <=> d >= nextConnId_,
         ioLoop'[d] = ioLoop[d], index_'[d] = index_[d],
         destroys'[d] = destroys[d],
         \A l \in Loop : closing[l] = d => closing'[l] = d,
         \A l \in Loop, f \in Functor :
           /\ f[2] = d /\ Waits(l, f)
           /\ ~(pc'[l] = "stopped" /\ l # Base)
           => Waits(l, f)'
  PROVE  /\ EstablishedFirst(d)' /\ OnItsWay(d)'
         /\ Phase(d)' = Phase(d)
<1>1. /\ {Est(d), Des(d), Rem(d)} \subseteq Functor
      /\ Est(d)[2] = d /\ Des(d)[2] = d /\ Rem(d)[2] = d
  BY FunctorFacts
<1>2. ioLoop[d] \in Loop /\ Base \in Loop
  BY LoopFacts DEF Inv, TypeOK
<1>3. EstablishedFirst(d) /\ OnItsWay(d)
  BY DEF LifeInv
<1>4. /\ Waits(ioLoop[d], Est(d)) /\ ~(pc'[ioLoop[d]] = "stopped"
                                       /\ ioLoop[d] # Base)
           => Waits(ioLoop[d], Est(d))'
      /\ server' = "up" /\ Waits(ioLoop[d], Des(d)) => Waits(ioLoop[d], Des(d))'
      /\ Waits(Base, Rem(d)) => Waits(Base, Rem(d))'
  BY <1>1, <1>2 DEF ThreadsRun
<1>5. EstablishedFirst(d)'
  BY <1>2, <1>3, <1>4 DEF EstablishedFirst, LoopsGoOn
<1>6. OnItsWay(d)'
  BY <1>2, <1>3, <1>4 DEF OnItsWay, LoopsGoOn
<1>7. Phase(d)' = Phase(d)
  <2>1. CASE d >= nextConnId_
    BY <2>1 DEF Phase
  <2>2. CASE ~(d >= nextConnId_)
    BY <2>2 DEF Phase
  <2> QED BY <2>1, <2>2
<1> QED BY <1>5, <1>6, <1>7

LEMMA NoneMoves ==
  ASSUME ThreadsRun',
         \A d \in Conn : /\ EstablishedFirst(d)' /\ OnItsWay(d)'
                         /\ Phase(d)' = Phase(d)
  PROVE  LifeInv' /\ LivesStep
<1>1. LifeInv'
  BY DEF LifeInv
<1>2. UNCHANGED Phases
  BY DEF Phases
<1> QED BY <1>1, <1>2 DEF LivesStep

LEMMA OneMoves ==
  ASSUME NEW c \in Conn, NEW from, NEW to,
         Phase(c) \in from, Phase(c)' = to,
         \A d \in Conn : d # c => Phase(d)' = Phase(d)
  PROVE  Lives!Move(c, from, to)
<1>1. Phases[c] = Phase(c) /\ Phases' = [Phases EXCEPT ![c] = to]
  BY DEF Phases
<1> QED BY <1>1 DEF Lives!Move

-----------------------------------------------------------------------------
(* The steps that move no connection.                                      *)

LEMMA Queued ==
  ASSUME Inv, NEW l \in Loop, NEW f \in Functor, QueueInLoop(l, f),
         batch' = batch
  PROVE  \A k \in Loop, g \in Functor :
           Waits(k, g)' <=> Waits(k, g) \/ (k = l /\ g = f)
<1>1. pending \in [Loop -> Seq(Functor)] /\ pending[l] \in Seq(Functor)
  BY DEF Inv, TypeOK
<1>2. /\ pending'[l] = Append(pending[l], f)
      /\ \A k \in Loop \ {l} : pending'[k] = pending[k]
  BY <1>1 DEF QueueInLoop
<1>3. ToSet(pending'[l]) = ToSet(pending[l]) \cup {f}
  BY <1>1, <1>2, ToSetAppend
<1> QED BY <1>2, <1>3 DEF Waits, Waiting

LEMMA QuietStep ==
  ASSUME Inv, LifeInv, ThreadsRun', LoopsGoOn,
         \/ UNCHANGED vars
         \/ \E n \in 0 .. Len(Threads) : SetThreadNum(n)
         \/ StartHere \/ StartElsewhere \/ StartThread \/ ClientConnects
         \/ QuitBase \/ BeginDestroy \/ EndBody \/ QuitLoop \/ JoinLoop
         \/ EndDestroy
  PROVE  LifeInv' /\ LivesStep
<1>1. UNCHANGED lifeVars
  BY DEF vars, lifeVars, newVars, connVars, loopVars, SetThreadNum, StartHere,
         StartElsewhere, StartThread, ClientConnects, QuitBase, BeginDestroy,
         EndBody, QuitLoop, JoinLoop, EndDestroy
<1>2. \A l \in Loop, f \in Functor : Waits(l, f)' <=> Waits(l, f)
  BY <1>1 DEF lifeVars, Waits
<1>3. ASSUME NEW d \in Conn
      PROVE  /\ EstablishedFirst(d)' /\ OnItsWay(d)'
             /\ Phase(d)' = Phase(d)
  BY <1>1, <1>2, SameStory DEF lifeVars
<1> QED BY <1>3, NoneMoves

LEMMA QueueListenStep ==
  ASSUME Inv, LifeInv, ThreadsRun', LoopsGoOn, QueueListen
  PROVE  LifeInv' /\ LivesStep
<1>1. /\ UNCHANGED <<nextConnId_, ioLoop, index_, destroys, closing>>
      /\ QueueInLoop(Base, Lis) /\ batch' = batch
  BY DEF QueueListen, newVars, connVars, loopVars, Lis
<1>2. \A l \in Loop, f \in Functor : Waits(l, f) => Waits(l, f)'
  BY <1>1, Queued, LoopFacts, FunctorFacts
<1>3. ASSUME NEW d \in Conn
      PROVE  /\ EstablishedFirst(d)' /\ OnItsWay(d)'
             /\ Phase(d)' = Phase(d)
  BY <1>1, <1>2, SameStory
<1> QED BY <1>3, NoneMoves

LEMMA EnterLoopStep ==
  ASSUME Inv, LifeInv, ThreadsRun', LoopsGoOn, NEW l \in Loop, EnterLoop(l)
  PROVE  LifeInv' /\ LivesStep
<1>1. /\ UNCHANGED <<nextConnId_, ioLoop, index_, destroys, closing>>
      /\ UNCHANGED <<pending, batch>>
  BY DEF EnterLoop, newVars, connVars
<1>2. \A k \in Loop, f \in Functor : Waits(k, f)' <=> Waits(k, f)
  BY <1>1 DEF Waits
<1>3. ASSUME NEW d \in Conn
      PROVE  /\ EstablishedFirst(d)' /\ OnItsWay(d)'
             /\ Phase(d)' = Phase(d)
  BY <1>1, <1>2, SameStory
<1> QED BY <1>3, NoneMoves

LEMMA SwapStep ==
  ASSUME Inv, LifeInv, ThreadsRun', LoopsGoOn, NEW l \in Loop,
         SwapFunctors(l) \/ EndFunctors(l)
  PROVE  LifeInv' /\ LivesStep
<1>1. UNCHANGED <<nextConnId_, ioLoop, index_, destroys, closing>>
  BY DEF SwapFunctors, EndFunctors, newVars, connVars
<1>2. \A k \in Loop, f \in Functor :
        Waits(k, f) /\ ~(pc'[k] = "stopped" /\ k # Base) => Waits(k, f)'
  <2>1. CASE SwapFunctors(l)
    <3>1. /\ batch[l] = <<>>
          /\ batch' = [batch EXCEPT ![l] = pending[l]]
          /\ pending' = [pending EXCEPT ![l] = <<>>]
      BY <2>1 DEF SwapFunctors, Inv, TypeOK
    <3> QED BY <3>1, Swap DEF Inv, TypeOK
  <2>2. CASE EndFunctors(l)
    <3>1. /\ batch' = batch
          /\ \A k \in Loop : ~(pc'[k] = "stopped" /\ k # Base)
                                => pending'[k] = pending[k]
      BY <2>2 DEF EndFunctors, Inv, TypeOK
    <3> QED BY <3>1 DEF Waits, Waiting
  <2> QED BY <2>1, <2>2
<1>3. ASSUME NEW d \in Conn
      PROVE  /\ EstablishedFirst(d)' /\ OnItsWay(d)'
             /\ Phase(d)' = Phase(d)
  BY <1>1, <1>2, SameStory
<1> QED BY <1>3, NoneMoves

(* closeCallback_ sends the closed connection on its way. *)
LEMMA CloseCallbackStep ==
  ASSUME Inv, LifeInv, ThreadsRun', LoopsGoOn, NEW l \in Loop, CloseCallback(l)
  PROVE  LifeInv' /\ LivesStep
<1>1. PICK c \in Conn : closing[l] = c
  BY DEF CloseCallback, Inv, TypeOK
<1>2. /\ UNCHANGED <<nextConnId_, ioLoop, index_, destroys, pc, server>>
      /\ batch' = batch /\ RemoveConnection(l, c)
      /\ \A k \in Loop \ {l} : closing'[k] = closing[k]
      /\ ioLoop[c] = l
  BY <1>1 DEF CloseCallback, newVars, connVars, serverVars, Inv, TypeOK, Life,
              Home
<1>3. \A k \in Loop, f \in Functor :
        /\ Waits(k, f) => Waits(k, f)'
        /\ server = "up"
             => (Waits(Base, Rem(c)) \/ Waits(ioLoop[c], Des(c)))'
  <2>1. Base \in Loop /\ {Des(c), Rem(c)} \subseteq Functor
    BY LoopFacts, FunctorFacts
  <2>2. CASE l # Base
    <3>1. QueueInLoop(Base, Rem(c))
      BY <1>2, <2>2 DEF RemoveConnection, Rem
    <3> QED BY <1>2, <2>1, <3>1, Queued
  <2>3. CASE l = Base /\ server # "gone"
    <3>1. QueueInLoop(l, Des(c))
      BY <1>2, <2>3 DEF RemoveConnection, RemoveConnectionInLoop, Des
    <3>2. \A k \in Loop, f \in Functor :
            Waits(k, f)' <=> Waits(k, f) \/ (k = l /\ f = Des(c))
      BY <1>2, <2>1, <3>1, Queued
    <3> QED BY <1>2, <2>1, <3>2
  <2>4. CASE l = Base /\ server = "gone"
    <3>1. pending' = pending
      BY <1>2, <2>4 DEF RemoveConnection, RemoveConnectionInLoop
    <3> QED BY <1>2, <2>4, <3>1 DEF Waits
  <2> QED BY <2>2, <2>3, <2>4
<1>4. ASSUME NEW d \in Conn, d # c
      PROVE  /\ EstablishedFirst(d)' /\ OnItsWay(d)'
             /\ Phase(d)' = Phase(d)
  <2>1. \A k \in Loop : closing[k] = d => closing'[k] = d
    BY <1>1, <1>2, <1>4
  <2> QED BY <1>2, <1>3, <2>1, SameStory
<1>5. /\ EstablishedFirst(c)' /\ OnItsWay(c)'
      /\ Phase(c)' = Phase(c)
  <2>1. Phase(c)' = Phase(c)
    BY <1>2 DEF Phase
  <2>2. OnItsWay(c)'
    BY <1>2, <1>3, LoopFacts, FunctorFacts DEF OnItsWay
  <2>3. EstablishedFirst(c) /\ ioLoop[c] \in Loop /\ Est(c) \in Functor
    BY FunctorFacts DEF LifeInv, Inv, TypeOK
  <2>4. EstablishedFirst(c)'
    BY <1>2, <1>3, <2>3 DEF EstablishedFirst
  <2> QED BY <2>1, <2>2, <2>4
<1> QED BY <1>4, <1>5, NoneMoves

-----------------------------------------------------------------------------
(* The steps that move one.  *)

LEMMA NewConnectionStep ==
  ASSUME Inv, LifeInv, ThreadsRun', LoopsGoOn, NewConnection
  PROVE  LifeInv' /\ LivesStep
<1>0. PICK n \in Conn, m \in Loop :
        n = nextConnId_ /\ m = GetNextLoop(next_)[1]
  <2>1. nextConnId_ \in Conn
    BY TcpServerAssumption
    DEF Inv, TypeOK, AcceptorTypeOK, Bounded, NewConnection, Accept, Conn
  <2> QED BY <2>1, NextLoop
<1>1. /\ n \in Nat /\ nextConnId_ = n /\ nextConnId_' = n + 1
      /\ ioLoop' = [ioLoop EXCEPT ![n] = m]
      /\ Establish(m, n) /\ batch' = batch /\ closing' = closing
  BY <1>0, TcpServerAssumption DEF NewConnection, Conn, loopVars
<1>2. ioLoop'[n] = m
  BY <1>1 DEF Inv, TypeOK
<1>3. index_[n] = "kNew" /\ destroys[n] = 0
  BY <1>1 DEF Inv, Life, Unused
<1>4. /\ \A k \in Loop, f \in Functor : Waits(k, f) => Waits(k, f)'
      /\ index_' = [index_ EXCEPT ![n] = IF m = Base THEN "kAdded" ELSE "kNew"]
      /\ destroys' = destroys
      /\ m # Base => Waits(m, Est(n))'
  <2>1. CASE m = Base
    <3>1. pending' = pending /\ ConnectEstablished(n)
      BY <1>1, <2>1 DEF Establish
    <3> QED BY <1>1, <2>1, <3>1 DEF Waits, ConnectEstablished
  <2>2. CASE m # Base
    <3>1. /\ QueueInLoop(m, Est(n)) /\ index_' = index_ /\ destroys' = destroys
          /\ Est(n) \in Functor
      BY <1>1, <2>2, FunctorFacts DEF Establish, Est
    <3>2. \A k \in Loop, f \in Functor :
            Waits(k, f)' <=> Waits(k, f) \/ (k = m /\ f = Est(n))
      BY <1>1, <1>2, <3>1, Queued
    <3>3. index_' = [index_ EXCEPT ![n] = "kNew"]
      BY <1>3, <3>1 DEF Inv, TypeOK
    <3> QED BY <1>2, <2>2, <3>1, <3>2, <3>3
  <2> QED BY <2>1, <2>2
<1>5. ASSUME NEW d \in Conn, d # n
      PROVE  /\ EstablishedFirst(d)' /\ OnItsWay(d)'
             /\ Phase(d)' = Phase(d)
  <2>1. /\ ioLoop'[d] = ioLoop[d] /\ index_'[d] = index_[d]
        /\ destroys'[d] = destroys[d]
    BY <1>1, <1>4, <1>5 DEF Inv, TypeOK
  <2>2. /\ d < nextConnId_' <=> d < nextConnId_
        /\ d >= nextConnId_' <=> d >= nextConnId_
    BY <1>1, <1>5, TcpServerAssumption DEF Conn
  <2> QED BY <1>1, <1>4, <2>1, <2>2, SameStory
<1>6. /\ index_'[n] = IF m = Base THEN "kAdded" ELSE "kNew"
      /\ destroys'[n] = 0
  BY <1>1, <1>3, <1>4 DEF Inv, TypeOK
<1>7. EstablishedFirst(n)' /\ OnItsWay(n)'
  BY <1>2, <1>4, <1>6 DEF EstablishedFirst, OnItsWay
<1>8. /\ Phase(n) = "none"
      /\ Phase(n)' \in {"accepted", "up"}
  BY <1>1, <1>6 DEF Phase
<1>9. Lives!Accept(n)
  <2>1. ASSUME NEW d \in Conn, d < n PROVE Phases[d] # "none"
    <3>1. /\ index_[d] \in {"kNew", "kAdded", "kDeleted"}
          /\ ~(d >= nextConnId_)
      BY <1>1, <2>1, TcpServerAssumption DEF Inv, TypeOK, Conn
    <3> QED BY <3>1 DEF Phases, Phase
  <2>2. \/ Lives!Move(n, {"none"}, "accepted")
        \/ Lives!Move(n, {"none"}, "up")
    BY <1>1, <1>5, <1>8, OneMoves
  <2> QED BY <2>1, <2>2 DEF Lives!Accept
<1>10. LifeInv'
  BY <1>5, <1>7 DEF LifeInv
<1> QED BY <1>1, <1>9, <1>10 DEF LivesStep, Lives!Next

LEMMA HandleCloseStep ==
  ASSUME Inv, LifeInv, ThreadsRun', LoopsGoOn,
         NEW l \in Loop, NEW c \in Conn, HandleClose(l, c)
  PROVE  LifeInv' /\ LivesStep
<1>1. /\ UNCHANGED <<nextConnId_, ioLoop, destroys, pending, batch>>
      /\ ioLoop[c] = l /\ index_[c] = "kAdded" /\ closing[l] = NoConn
      /\ index_' = [index_ EXCEPT ![c] = "kDeleted"]
      /\ closing' = [closing EXCEPT ![l] = c]
  BY DEF HandleClose, newVars
<1>2. /\ index_'[c] = "kDeleted" /\ closing'[l] = c
      /\ \A d \in Conn \ {c} : index_'[d] = index_[d]
      /\ \A k \in Loop \ {l} : closing'[k] = closing[k]
  BY <1>1 DEF Inv, TypeOK
<1>3. ASSUME NEW d \in Conn, d # c
      PROVE  /\ EstablishedFirst(d)' /\ OnItsWay(d)'
             /\ Phase(d)' = Phase(d)
  <2>1. \A k \in Loop : closing[k] = d => closing'[k] = d
    BY <1>1, <1>2, FunctorFacts
  <2>2. \A k \in Loop, f \in Functor : Waits(k, f) => Waits(k, f)'
    BY <1>1 DEF Waits
  <2> QED BY <1>1, <1>2, <1>3, <2>1, <2>2, SameStory
<1>4. EstablishedFirst(c)' /\ OnItsWay(c)'
  BY <1>1, <1>2 DEF EstablishedFirst, OnItsWay
<1>5. destroys[c] = 0 /\ ~(c >= nextConnId_)
  <2>1. Unused(c) /\ Destroyed(c) /\ destroys[c] \in Nat
    BY DEF Inv, TypeOK, Life
  <2> QED BY <1>1, <2>1 DEF Unused, Destroyed
<1>6. Phase(c) = "up" /\ Phase(c)' = "closed"
  BY <1>1, <1>2, <1>5 DEF Phase
<1>7. Lives!Move(c, {"up"}, "closed")
  BY <1>3, <1>6, OneMoves
<1>8. LifeInv'
  BY <1>3, <1>4 DEF LifeInv
<1> QED BY <1>7, <1>8 DEF LivesStep, Lives!Next, Lives!Close

LEMMA RunListenStep ==
  ASSUME Inv, LifeInv, ThreadsRun', LoopsGoOn, NEW l \in Loop, RunListen(l)
  PROVE  LifeInv' /\ LivesStep
<1>1. /\ UNCHANGED <<nextConnId_, ioLoop, index_, destroys, closing, pending>>
      /\ RunFunctor(l, Lis)
  BY DEF RunListen, RunFunctor, newVars, connVars, Lis
<1>2. \A k \in Loop, f \in Functor :
        Waiting(pending, batch', k, f) <=> Waits(k, f) /\ ~(k = l /\ f = Lis)
  BY <1>1, RunFacts
<1>3. ASSUME NEW d \in Conn
      PROVE  /\ EstablishedFirst(d)' /\ OnItsWay(d)'
             /\ Phase(d)' = Phase(d)
  <2>1. \A k \in Loop, f \in Functor : f[2] = d /\ Waits(k, f) => Waits(k, f)'
    BY <1>1, <1>2, FunctorFacts DEF Lis, Waits
  <2> QED BY <1>1, <2>1, SameStory
<1> QED BY <1>3, NoneMoves

LEMMA RunEstablishedStep ==
  ASSUME Inv, LifeInv, ThreadsRun', LoopsGoOn,
         NEW l \in Loop, NEW c \in Conn,
         RunFunctor(l, Est(c)), ConnectEstablished(c), pending' = pending
  PROVE  LifeInv' /\ LivesStep
<1>1. /\ UNCHANGED <<nextConnId_, ioLoop, destroys, closing>>
      /\ index_' = [index_ EXCEPT ![c] = "kAdded"]
  BY DEF RunFunctor, ConnectEstablished, newVars
<1>2. /\ Waits(l, Est(c)) /\ Est(c) \in Functor /\ Est(c)[2] = c
      /\ index_'[c] = "kAdded"
      /\ \A d \in Conn \ {c} : index_'[d] = index_[d]
  BY <1>1, RunFacts, FunctorFacts DEF Inv, TypeOK
<1>3. \A k \in Loop, f \in Functor :
        Waits(k, f)' <=> Waits(k, f) /\ ~(k = l /\ f = Est(c))
  BY RunFacts DEF Waits
<1>4. ASSUME NEW d \in Conn, d # c
      PROVE  /\ EstablishedFirst(d)' /\ OnItsWay(d)'
             /\ Phase(d)' = Phase(d)
  <2>1. \A k \in Loop, f \in Functor : f[2] = d /\ Waits(k, f) => Waits(k, f)'
    BY <1>2, <1>3, <1>4
  <2> QED BY <1>1, <1>2, <1>4, <2>1, SameStory
<1>5. EstablishedFirst(c)' /\ OnItsWay(c)'
  BY <1>2 DEF EstablishedFirst, OnItsWay
<1>6. ioLoop[c] = l /\ index_[c] = "kNew" /\ destroys[c] = 0
      /\ ~(c >= nextConnId_)
  BY <1>2 DEF Inv, Life, Home, ToBeEstablished, Unused
<1>7. Phase(c) = "accepted" /\ Phase(c)' = "up"
  BY <1>1, <1>2, <1>6 DEF Phase
<1>8. Lives!Move(c, {"accepted"}, "up")
  BY <1>4, <1>7, OneMoves
<1>9. LifeInv'
  BY <1>4, <1>5 DEF LifeInv
<1> QED BY <1>8, <1>9 DEF LivesStep, Lives!Next, Lives!Establish

LEMMA RunDestroyedStep ==
  ASSUME Inv, LifeInv, ThreadsRun', LoopsGoOn,
         NEW l \in Loop, NEW c \in Conn,
         RunFunctor(l, Des(c)), ConnectDestroyed(c), pending' = pending
  PROVE  LifeInv' /\ LivesStep
<1>1. /\ UNCHANGED <<nextConnId_, ioLoop, closing>>
      /\ index_' = [index_ EXCEPT ![c] = "kNew"]
      /\ destroys' = [destroys EXCEPT ![c] = @ + 1]
  BY DEF RunFunctor, ConnectDestroyed, newVars
<1>2. /\ Waits(l, Des(c)) /\ ~Waits(l, Est(c)) /\ pc[l] = "run"
      /\ Des(c) \in Functor /\ Des(c)[2] = c
  BY RunFacts, FunctorFacts
<1>3. \A k \in Loop, f \in Functor :
        Waits(k, f)' <=> Waits(k, f) /\ ~(k = l /\ f = Des(c))
  BY RunFacts DEF Waits
<1>4. ioLoop[c] = l /\ destroys[c] = 0 /\ ~(c >= nextConnId_)
  BY <1>2 DEF Inv, Life, Home, Destroyed, Unused
<1>5. /\ index_'[c] = "kNew" /\ destroys'[c] = 1
      /\ \A d \in Conn \ {c} : /\ index_'[d] = index_[d]
                               /\ destroys'[d] = destroys[d]
  BY <1>1, <1>4 DEF Inv, TypeOK
<1>6. ASSUME NEW d \in Conn, d # c
      PROVE  /\ EstablishedFirst(d)' /\ OnItsWay(d)'
             /\ Phase(d)' = Phase(d)
  <2>1. \A k \in Loop, f \in Functor : f[2] = d /\ Waits(k, f) => Waits(k, f)'
    BY <1>2, <1>3, <1>6
  <2> QED BY <1>1, <1>5, <1>6, <2>1, SameStory
<1>7. EstablishedFirst(c)' /\ OnItsWay(c)'
  BY <1>5 DEF EstablishedFirst, OnItsWay
<1>8. index_[c] \in {"kAdded", "kDeleted"}
  <2>1. c < nextConnId_ /\ index_[c] \in {"kNew", "kAdded", "kDeleted"}
    BY <1>4, TcpServerAssumption DEF Inv, TypeOK, Conn
  <2> QED BY <1>2, <1>4, <2>1 DEF LifeInv, EstablishedFirst
<1>9. Phase(c) \in {"up", "closed"} /\ Phase(c)' = "destroyed"
  BY <1>1, <1>4, <1>5, <1>8 DEF Phase
<1>10. Lives!Move(c, {"up", "closed"}, "destroyed")
  BY <1>6, <1>9, OneMoves
<1>11. LifeInv'
  BY <1>6, <1>7 DEF LifeInv
<1> QED BY <1>10, <1>11 DEF LivesStep, Lives!Next, Lives!Destroy

LEMMA RunRemoveStep ==
  ASSUME Inv, LifeInv, ThreadsRun', LoopsGoOn,
         NEW l \in Loop, NEW c \in Conn,
         RunFunctor(l, Rem(c)), RemoveConnectionInLoop(c), UNCHANGED connVars
  PROVE  LifeInv' /\ LivesStep
<1>1. UNCHANGED <<nextConnId_, ioLoop, index_, destroys, closing, server, pc>>
  BY DEF RunFunctor, newVars, connVars, serverVars
<1>2. /\ Rem(c)[2] = c /\ Rem(c) \in Functor /\ Des(c) \in Functor
      /\ Est(c) \in Functor /\ Rem(c) # Est(c)
  BY FunctorFacts
<1>3. pending \in [Loop -> Seq(Functor)] /\ ioLoop[c] \in Loop
  BY DEF Inv, TypeOK
<1>4. /\ \A k \in Loop : ToSet(pending[k]) \subseteq ToSet(pending'[k])
      /\ server = "up" => Des(c) \in ToSet(pending'[ioLoop[c]])
  <2>1. CASE server = "gone"
    BY <2>1 DEF RemoveConnectionInLoop
  <2>2. CASE server # "gone"
    <3>1. /\ pending'[ioLoop[c]] = Append(pending[ioLoop[c]], Des(c))
          /\ \A k \in Loop \ {ioLoop[c]} : pending'[k] = pending[k]
      BY <1>3, <2>2 DEF RemoveConnectionInLoop, QueueInLoop, Des
    <3>2. ToSet(pending'[ioLoop[c]]) = ToSet(pending[ioLoop[c]]) \cup {Des(c)}
      BY <1>2, <1>3, <3>1, ToSetAppend
    <3> QED BY <3>1, <3>2
  <2> QED BY <2>1, <2>2
<1>5. /\ \A k \in Loop, f \in Functor :
           Waits(k, f) /\ ~(k = l /\ f = Rem(c)) => Waits(k, f)'
      /\ server = "up" => Waits(ioLoop[c], Des(c))'
  BY <1>1, <1>3, <1>4, RunFacts DEF Waits, Waiting
<1>6. ASSUME NEW d \in Conn, d # c
      PROVE  /\ EstablishedFirst(d)' /\ OnItsWay(d)'
             /\ Phase(d)' = Phase(d)
  <2>1. \A k \in Loop, f \in Functor : f[2] = d /\ Waits(k, f) => Waits(k, f)'
    BY <1>2, <1>5, <1>6
  <2> QED BY <1>1, <2>1, SameStory
<1>7. EstablishedFirst(c)' /\ OnItsWay(c)'
  <2>1. EstablishedFirst(c)
    BY DEF LifeInv
  <2>2. EstablishedFirst(c)'
    BY <1>1, <1>2, <1>3, <1>5, <2>1 DEF EstablishedFirst
  <2> QED BY <1>1, <1>5, <2>2 DEF OnItsWay
<1>8. Phase(c)' = Phase(c)
  BY <1>1 DEF Phase
<1> QED BY <1>6, <1>7, <1>8, NoneMoves

LEMMA DestroyConnectionStep ==
  ASSUME Inv, LifeInv, ThreadsRun', LoopsGoOn, NEW c \in Conn,
         DestroyConnection(c)
  PROVE  LifeInv' /\ LivesStep
<1>1. /\ UNCHANGED <<nextConnId_, ioLoop, closing, pc, server, batch>>
      /\ server = "body" /\ c \in connections_
  BY DEF DestroyConnection, newVars, loopVars, serverVars
<1>2. ioLoop[c] \in Loop /\ {Est(c), Des(c)} \subseteq Functor
  BY FunctorFacts DEF Inv, TypeOK
<1>3. destroys[c] = 0 /\ ~(c >= nextConnId_)
  BY <1>1 DEF Inv, Life, Destroyed, Unused
<1>4. OnItsWay(c)'
  BY <1>1 DEF OnItsWay
<1>5. CASE ioLoop[c] = Base
  <2>1. /\ pending' = pending
        /\ index_' = [index_ EXCEPT ![c] = "kNew"]
        /\ destroys' = [destroys EXCEPT ![c] = @ + 1]
    BY <1>5 DEF DestroyConnection, ConnectDestroyed
  <2>2. /\ index_'[c] = "kNew" /\ destroys'[c] = 1
        /\ \A d \in Conn \ {c} : /\ index_'[d] = index_[d]
                                 /\ destroys'[d] = destroys[d]
    BY <1>3, <2>1 DEF Inv, TypeOK
  <2>3. \A k \in Loop, f \in Functor : Waits(k, f) => Waits(k, f)'
    BY <1>1, <2>1 DEF Waits
  <2>4. ASSUME NEW d \in Conn, d # c
        PROVE  /\ EstablishedFirst(d)' /\ OnItsWay(d)'
               /\ Phase(d)' = Phase(d)
    BY <1>1, <2>2, <2>3, <2>4, SameStory
  <2>5. EstablishedFirst(c)'
    BY <2>2 DEF EstablishedFirst
  <2>6. index_[c] \in {"kAdded", "kDeleted"}
    <3>1. c < nextConnId_ /\ index_[c] \in {"kNew", "kAdded", "kDeleted"}
      BY <1>3, TcpServerAssumption DEF Inv, TypeOK, Conn
    <3>2. ~Waits(ioLoop[c], Est(c))
      BY <1>2, <1>5 DEF Inv, Life, Home
    <3> QED BY <1>3, <1>5, <3>1, <3>2 DEF LifeInv, EstablishedFirst
  <2>7. Phase(c) \in {"up", "closed"} /\ Phase(c)' = "destroyed"
    BY <1>1, <1>3, <2>2, <2>6 DEF Phase
  <2>8. Lives!Move(c, {"up", "closed"}, "destroyed")
    BY <2>4, <2>7, OneMoves
  <2>9. LifeInv'
    BY <1>4, <2>4, <2>5 DEF LifeInv
  <2> QED BY <2>8, <2>9 DEF LivesStep, Lives!Next, Lives!Destroy
<1>6. CASE ioLoop[c] # Base
  <2>1. QueueInLoop(ioLoop[c], Des(c)) /\ UNCHANGED <<index_, destroys>>
    BY <1>6 DEF DestroyConnection, connVars, Des
  <2>2. \A k \in Loop, f \in Functor : Waits(k, f) => Waits(k, f)'
    BY <1>1, <1>2, <2>1, Queued
  <2>3. ASSUME NEW d \in Conn
        PROVE  /\ EstablishedFirst(d)' /\ OnItsWay(d)'
               /\ Phase(d)' = Phase(d)
    BY <1>1, <2>1, <2>2, SameStory
  <2> QED BY <2>3, NoneMoves
<1> QED BY <1>5, <1>6

-----------------------------------------------------------------------------
LEMMA LifeInductive == Inv /\ LifeInv /\ [Next]_vars => LifeInv' /\ LivesStep
<1> SUFFICES ASSUME Inv, LifeInv, [Next]_vars PROVE LifeInv' /\ LivesStep
  OBVIOUS
<1>1. LoopsGoOn /\ ThreadsRun'
  BY GoOn, ThreadsRunOn DEF LifeInv
<1>2. CASE \/ UNCHANGED vars
           \/ \E n \in 0 .. Len(Threads) : SetThreadNum(n)
           \/ StartHere \/ StartElsewhere \/ StartThread \/ ClientConnects
           \/ QuitBase \/ BeginDestroy \/ EndBody \/ QuitLoop \/ JoinLoop
           \/ EndDestroy
  BY <1>1, <1>2, QuietStep
<1>3. CASE QueueListen
  BY <1>1, <1>3, QueueListenStep
<1>4. CASE NewConnection
  BY <1>1, <1>4, NewConnectionStep
<1>5. CASE \E l \in Loop, c \in Conn : HandleClose(l, c)
  BY <1>1, <1>5, HandleCloseStep
<1>6. ASSUME NEW l \in Loop, LoopStep(l) PROVE LifeInv' /\ LivesStep
  <2>1. CASE CloseCallback(l) BY <1>1, <2>1, CloseCallbackStep
  <2>2. CASE SwapFunctors(l) \/ EndFunctors(l) BY <1>1, <2>2, SwapStep
  <2>3. CASE RunListen(l) \/ EnterLoop(l)
    BY <1>1, <2>3, RunListenStep, EnterLoopStep
  <2>4. ASSUME NEW c \in Conn, RunOnConnection(l, c)
        PROVE  LifeInv' /\ LivesStep
    <3>1. CASE /\ RunFunctor(l, <<"established", c>>) /\ ConnectEstablished(c)
               /\ UNCHANGED <<acceptorVars, connections_, pending, deadCall>>
      BY <1>1, <3>1, RunEstablishedStep DEF Est
    <3>2. CASE /\ RunFunctor(l, <<"destroyed", c>>) /\ ConnectDestroyed(c)
               /\ UNCHANGED <<acceptorVars, connections_, pending, deadCall>>
      BY <1>1, <3>2, RunDestroyedStep DEF Des
    <3>3. CASE /\ RunFunctor(l, <<"remove", c>>) /\ RemoveConnectionInLoop(c)
               /\ UNCHANGED <<acceptorVars, connVars>>
      BY <1>1, <3>3, RunRemoveStep DEF Rem
    <3> QED BY <2>4, <3>1, <3>2, <3>3 DEF RunOnConnection
  <2> QED BY <1>6, <2>1, <2>2, <2>3, <2>4 DEF LoopStep
<1>7. CASE \E c \in Conn : DestroyConnection(c)
  BY <1>1, <1>7, DestroyConnectionStep
<1> QED
  BY <1>2, <1>3, <1>4, <1>5, <1>6, <1>7 DEF Next, StartStep, DestructorStep

LEMMA InitLife == Init => LifeInv /\ Lives!Init
<1> SUFFICES ASSUME Init PROVE LifeInv /\ Lives!Init
  OBVIOUS
<1>1. /\ \A l \in Loop : ~quit_[l] /\ pc[l] # "stopped"
      /\ \A c \in Conn : index_[c] = "kNew" /\ c >= nextConnId_
                           /\ ~(c < nextConnId_)
  BY TcpServerAssumption DEF Init, Conn
<1>2. LifeInv
  BY <1>1 DEF LifeInv, ThreadsRun, EstablishedFirst, OnItsWay
<1>3. Lives!Init
  BY <1>1 DEF Lives!Init, Phases, Phase
<1> QED BY <1>2, <1>3

(* The invariant of the connections' lives.  *)
THEOREM LifeInvariance == Spec => []LifeInv
<1> QED BY Invariance, InitLife, LifeInductive, PTL DEF Spec

(* TcpServer implements ConnectionLives: whatever the order of accepts,    *)
(* starts, closes, removals and ~TcpServer, every connection comes up      *)
(* once, after it was accepted in its turn, closes at most once, and       *)
(* connectDestroyed, if it runs, comes once and last                       *)
(* (TcpServer.cc:32-43, 61-119).                                           *)
THEOREM LivesRefined == Spec => EachLivesOnce
<1>1. Inv /\ LifeInv /\ [Next]_vars => [Lives!Next]_Phases
  BY LifeInductive DEF LivesStep
<1> QED
  BY <1>1, Invariance, LifeInvariance, InitLife, PTL
  DEF Spec, EachLivesOnce, Lives!Spec

(* While the server is up, the next step of every closed connection on its *)
(* way to connectDestroyed is about to be taken (TcpServer.cc:105-119).    *)
THEOREM ClosedIsNotForgotten == Spec => []ClosedIsOnItsWay
<1>1. LifeInv => ClosedIsOnItsWay
  BY DEF LifeInv, OnItsWay, ClosedIsOnItsWay, QueuedIn, Waits, Waiting, Rem, Des
<1> QED BY <1>1, LifeInvariance, PTL
=============================================================================

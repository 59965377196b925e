-------------------------- MODULE TcpServerProofs ---------------------------
(***************************************************************************)
(* The safety properties of TcpServerProps, for any number of I/O loops,   *)
(* clients and descriptors.                                                *)
(*                                                                         *)
(* The life of a connection is followed through the functors that wait for *)
(* it: no functor waits twice, established never waits behind destroyed,   *)
(* and of connections_, a waiting connectDestroyed and a finished one, a   *)
(* connection is always in exactly one.                                    *)
(***************************************************************************)
EXTENDS TcpServerProps, SequenceTheorems, FiniteSetTheorems, TLAPS

Est(c) == <<"established", c>>
Des(c) == <<"destroyed", c>>
Rem(c) == <<"remove", c>>
Lis == <<"listen", NoConn>>

-----------------------------------------------------------------------------
(* The functors that wait in each loop. *)

Waiting(p, b, l, f) == f \in ToSet(p[l]) \/ f \in ToSet(b[l])

Waits(l, f) == Waiting(pending, batch, l, f)

Distinct(q) == \A i, j \in 1 .. Len(q) : q[i] = q[j] => i = j

Ordered(q) ==
  \A c \in Conn : \A i, j \in 1 .. Len(q) :
    q[i] = Est(c) /\ q[j] = Des(c) => i < j

(* Pending functors come after those of the batch. *)
InOrder(p, b, l) ==
  /\ Distinct(p[l]) /\ Distinct(b[l])
  /\ ToSet(p[l]) \cap ToSet(b[l]) = {}
  /\ Ordered(p[l]) /\ Ordered(b[l])
  /\ \A c \in Conn : Des(c) \in ToSet(b[l]) => Est(c) \notin ToSet(p[l])

Queues == \A l \in Loop : InOrder(pending, batch, l)

-----------------------------------------------------------------------------
(* The parts of the invariant. *)

Started ==
  /\ ~started_ => loops_ = <<>> /\ ~starting
  /\ starting \/ ~started_
       => /\ nextConnId_ = 1 /\ ~listening_ /\ next_ = 0
          /\ \A l \in Loop : ~Waits(l, Lis)
  /\ \A c \in Conn : ioLoop[c] \in {Base} \cup ToSet(loops_)
  /\ deadCall => loops_ # <<>>

Bounded == nextConnId_ + backlog <= MaxConn + 1

Unused(c) ==
  c >= nextConnId_ =>
    /\ index_[c] = "kNew" /\ destroys[c] = 0 /\ c \notin connections_
    /\ \A l \in Loop : /\ closing[l] # c
                       /\ \A f \in Functor : Waits(l, f) => f[2] # c

Home(c) ==
  \A l \in Loop :
    /\ Waits(l, Est(c)) => l = ioLoop[c] /\ l # Base
    /\ Waits(l, Des(c)) => l = ioLoop[c]
    /\ Waits(l, Rem(c)) => l = Base /\ ioLoop[c] # Base
    /\ closing[l] = c => l = ioLoop[c]

ToBeEstablished(c) ==
  Waits(ioLoop[c], Est(c)) =>
    /\ index_[c] = "kNew" /\ destroys[c] = 0
    /\ closing[ioLoop[c]] # c /\ ~Waits(Base, Rem(c))

Closed(c) ==
  /\ closing[ioLoop[c]] = c \/ Waits(Base, Rem(c))
       => index_[c] # "kAdded" /\ (server = "up" => c \in connections_)
  /\ closing[ioLoop[c]] = c => ~Waits(Base, Rem(c))

Destroyed(c) ==
  /\ destroys[c] <= 1
  /\ c \in connections_ => ~Waits(ioLoop[c], Des(c)) /\ destroys[c] = 0
  /\ Waits(ioLoop[c], Des(c)) => destroys[c] = 0
  /\ server = "up" /\ Waits(ioLoop[c], Des(c))
       => index_[c] # "kAdded" /\ ~Waits(ioLoop[c], Est(c))
  /\ destroys[c] > 0 => index_[c] = "kNew" /\ ~Waits(ioLoop[c], Est(c))

Kept(c) ==
  Waits(ioLoop[c], Est(c)) \/ index_[c] # "kNew" =>
    \/ c \in connections_
    \/ Waits(ioLoop[c], Des(c))
    \/ pc[ioLoop[c]] = "stopped"

KeptByMap(c) == ioLoop[c] = Base /\ index_[c] = "kAdded" => c \in connections_

Life(c) ==
  /\ Unused(c) /\ Home(c) /\ ToBeEstablished(c) /\ Closed(c)
  /\ Destroyed(c) /\ Kept(c) /\ KeptByMap(c)

Quiet ==
  /\ server # "up" => closing[Base] = NoConn
  /\ server \in {"joining", "waiting", "gone"} => connections_ = {}
  /\ \A l \in Loop : pc[l] # "events" => closing[l] = NoConn

Inv ==
  /\ TypeOK /\ Started /\ Bounded /\ Queues /\ Quiet
  /\ \A c \in Conn : Life(c)

Given(m) == {c \in 1 .. nextConnId_ - 1 : ioLoop[c] = m}

InTurn ==
  loops_ # <<>> => \E q \in Nat :
    \A i \in 1 .. Len(loops_) :
      Cardinality(Given(loops_[i])) = q + IF i <= next_ THEN 1 ELSE 0

-----------------------------------------------------------------------------
(* Functors and sequences. *)

LEMMA FunctorFacts ==
  /\ Lis \in Functor
  /\ \A c \in Conn : /\ {Est(c), Des(c), Rem(c)} \subseteq Functor
                     /\ Est(c)[2] = c /\ Des(c)[2] = c /\ Rem(c)[2] = c
                     /\ Lis \notin {Est(c), Des(c), Rem(c)}
  /\ \A c, d \in Conn : /\ Est(c) \notin {Des(d), Rem(d)} /\ Des(c) # Rem(d)
                        /\ Est(c) = Est(d) => c = d
                        /\ Des(c) = Des(d) => c = d
                        /\ Rem(c) = Rem(d) => c = d
  /\ NoConn \notin Conn
  BY TcpServerAssumption DEF Lis, Est, Des, Rem, Functor, Conn, NoConn

LEMMA ToSetMember ==
  ASSUME NEW S, NEW q \in Seq(S)
  PROVE  /\ \A i \in 1 .. Len(q) : q[i] \in ToSet(q)
         /\ \A e \in ToSet(q) : \E i \in 1 .. Len(q) : q[i] = e
         /\ ToSet(q) \subseteq S
  BY DEF ToSet

LEMMA ToSetAppend ==
  ASSUME NEW S, NEW q \in Seq(S), NEW e \in S
  PROVE  ToSet(Append(q, e)) = ToSet(q) \cup {e}
<1> DEFINE r == Append(q, e)
<1>1. /\ r \in Seq(S) /\ Len(r) = Len(q) + 1
      /\ \A i \in 1 .. Len(q) : r[i] = q[i]
      /\ r[Len(q) + 1] = e
  BY AppendProperties
<1> HIDE DEF r
<1>2. ASSUME NEW x \in ToSet(r) PROVE x \in ToSet(q) \cup {e}
  BY <1>1, <1>2, ToSetMember
<1>3. ASSUME NEW x \in ToSet(q) \cup {e} PROVE x \in ToSet(r)
  <2>1. CASE x = e
    <3>1. Len(q) + 1 \in 1 .. Len(r)
      BY <1>1
    <3> QED BY <1>1, <2>1, <3>1, ToSetMember
  <2>2. CASE x \in ToSet(q)
    <3>1. PICK i \in 1 .. Len(q) : q[i] = x
      BY <2>2, ToSetMember
    <3>2. i \in 1 .. Len(r) /\ r[i] = x
      BY <1>1, <3>1
    <3> QED BY <1>1, <3>2, ToSetMember
  <2> QED BY <1>3, <2>1, <2>2
<1> QED BY <1>2, <1>3 DEF r

(* Of a sequence without repetitions, the tail has all but the head. *)
LEMMA ToSetTail ==
  ASSUME NEW S, NEW q \in Seq(S), q # <<>>, Distinct(q)
  PROVE  /\ Head(q) \in ToSet(q)
         /\ ToSet(Tail(q)) = ToSet(q) \ {Head(q)}
         /\ Distinct(Tail(q))
<1> DEFINE r == Tail(q)
<1>1. /\ r \in Seq(S) /\ Len(r) = Len(q) - 1 /\ Len(q) \in Nat \ {0}
      /\ \A i \in 1 .. Len(r) : r[i] = q[i + 1]
      /\ Head(q) = q[1]
  OBVIOUS
<1> HIDE DEF r
<1>2. Head(q) \in ToSet(q)
  BY <1>1, ToSetMember
<1>3. ASSUME NEW x \in ToSet(r) PROVE x \in ToSet(q) \ {Head(q)}
  <2>1. PICK i \in 1 .. Len(r) : r[i] = x
    BY <1>1, <1>3, ToSetMember
  <2>2. i + 1 \in 1 .. Len(q) /\ 1 \in 1 .. Len(q) /\ q[i + 1] = x
    BY <1>1, <2>1
  <2>3. x # q[1]
    BY <2>2 DEF Distinct
  <2> QED BY <1>1, <2>2, <2>3, ToSetMember
<1>4. ASSUME NEW x \in ToSet(q) \ {Head(q)} PROVE x \in ToSet(r)
  <2>1. PICK i \in 1 .. Len(q) : q[i] = x
    BY <1>4, ToSetMember
  <2>2. i - 1 \in 1 .. Len(r) /\ r[i - 1] = x
    BY <1>1, <1>4, <2>1
  <2> QED BY <1>1, <2>2, ToSetMember
<1>5. Distinct(r)
  BY <1>1 DEF Distinct
<1> QED BY <1>2, <1>3, <1>4, <1>5 DEF r

LEMMA OrderedTail ==
  ASSUME NEW S, NEW q \in Seq(S), q # <<>>, Ordered(q)
  PROVE  /\ Ordered(Tail(q))
         /\ \A c \in Conn : Head(q) = Des(c) => Est(c) \notin ToSet(q)
<1>1. /\ Tail(q) \in Seq(S) /\ Len(Tail(q)) = Len(q) - 1
      /\ Len(q) \in Nat \ {0}
      /\ \A i \in 1 .. Len(Tail(q)) : Tail(q)[i] = q[i + 1]
      /\ Head(q) = q[1]
  OBVIOUS
<1>2. Ordered(Tail(q))
  BY <1>1 DEF Ordered
<1>3. ASSUME NEW c \in Conn, Head(q) = Des(c), Est(c) \in ToSet(q)
      PROVE  FALSE
  <2>1. PICK i \in 1 .. Len(q) : q[i] = Est(c)
    BY <1>3, ToSetMember
  <2>2. i < 1
    BY <1>1, <1>3, <2>1 DEF Ordered
  <2> QED BY <2>1, <2>2
<1> QED BY <1>2, <1>3

LEMMA OrderedAppend ==
  ASSUME NEW S, NEW q \in Seq(S), NEW f \in S, f \notin ToSet(q),
         Distinct(q), Ordered(q),
         \A c \in Conn : f = Est(c) => Des(c) \notin ToSet(q)
  PROVE  Distinct(Append(q, f)) /\ Ordered(Append(q, f))
<1> DEFINE r == Append(q, f)
<1>1. /\ r \in Seq(S) /\ Len(r) = Len(q) + 1 /\ Len(q) \in Nat
      /\ \A i \in 1 .. Len(q) : r[i] = q[i] /\ q[i] \in ToSet(q)
      /\ r[Len(q) + 1] = f
  BY AppendProperties, ToSetMember
<1> HIDE DEF r
<1>2. Distinct(r)
  BY <1>1 DEF Distinct
<1>3. Ordered(r)
  <2> SUFFICES ASSUME NEW c \in Conn, NEW i \in 1 .. Len(r),
                      NEW j \in 1 .. Len(r), r[i] = Est(c), r[j] = Des(c)
               PROVE  i < j
    BY DEF Ordered
  <2>1. CASE i = Len(q) + 1
    <3>1. f = Est(c) /\ j # i
      BY <1>1, <2>1, FunctorFacts
    <3>2. j \in 1 .. Len(q)
      BY <1>1, <2>1, <3>1
    <3> QED BY <1>1, <3>1, <3>2
  <2>2. CASE j = Len(q) + 1 /\ i # j
    BY <1>1, <2>2
  <2>3. CASE i \in 1 .. Len(q) /\ j \in 1 .. Len(q)
    BY <1>1, <2>3 DEF Ordered
  <2> QED BY <1>1, <2>1, <2>2, <2>3
<1> QED BY <1>2, <1>3 DEF r

-----------------------------------------------------------------------------
(* What the loops do to their queues p, the pending ones, and b.           *)

LEMMA WaitingMember ==
  ASSUME NEW p \in [Loop -> Seq(Functor)], NEW b \in [Loop -> Seq(Functor)],
         NEW l \in Loop, NEW f, Waiting(p, b, l, f)
  PROVE  f \in Functor
<1>1. p[l] \in Seq(Functor) /\ b[l] \in Seq(Functor)
  OBVIOUS
<1>2. ToSet(p[l]) \subseteq Functor /\ ToSet(b[l]) \subseteq Functor
  BY <1>1, ToSetMember
<1> QED BY <1>2 DEF Waiting

(* The functor f is put in loop l's queue. *)
LEMMA Enqueue ==
  ASSUME pending \in [Loop -> Seq(Functor)], batch' \in [Loop -> Seq(Functor)],
         \A k \in Loop : InOrder(pending, batch', k),
         NEW l \in Loop, NEW f \in Functor, ~Waiting(pending, batch', l, f),
         \A c \in Conn : f = Est(c) => ~Waiting(pending, batch', l, Des(c)),
         QueueInLoop(l, f)
  PROVE  /\ pending' \in [Loop -> Seq(Functor)]
         /\ Queues'
         /\ \A k \in Loop, g \in Functor :
              Waits(k, g)'
                <=> Waiting(pending, batch', k, g) \/ (k = l /\ g = f)
<1>1. pending[l] \in Seq(Functor) /\ Append(pending[l], f) \in Seq(Functor)
  BY AppendProperties
<1>2. /\ pending' \in [Loop -> Seq(Functor)]
      /\ pending'[l] = Append(pending[l], f)
      /\ \A k \in Loop \ {l} : pending'[k] = pending[k]
  BY <1>1 DEF QueueInLoop
<1>3. ToSet(pending'[l]) = ToSet(pending[l]) \cup {f}
  BY <1>1, <1>2, ToSetAppend
<1>4. f \notin ToSet(pending[l]) /\ f \notin ToSet(batch'[l])
  BY DEF Waiting
<1>5. Distinct(pending'[l]) /\ Ordered(pending'[l])
  BY <1>1, <1>2, <1>4, OrderedAppend DEF InOrder, Waiting
<1>6. InOrder(pending', batch', l)
  BY <1>3, <1>4, <1>5 DEF InOrder, Waiting
<1>7. Queues'
  BY <1>2, <1>6 DEF InOrder, Queues
<1> QED BY <1>2, <1>3, <1>7 DEF Waiting, Waits

(* The head of loop l's batch is taken. *)
LEMMA Dequeue ==
  ASSUME pending \in [Loop -> Seq(Functor)], batch \in [Loop -> Seq(Functor)],
         Queues,
         NEW l \in Loop, batch[l] # <<>>,
         NEW f, f = Head(batch[l]),
         batch' = [batch EXCEPT ![l] = Tail(batch[l])]
  PROVE  /\ batch' \in [Loop -> Seq(Functor)]
         /\ Waits(l, f)
         /\ \A k \in Loop : InOrder(pending, batch', k)
         /\ \A k \in Loop, g \in Functor :
              Waiting(pending, batch', k, g)
                <=> Waits(k, g) /\ ~(k = l /\ g = f)
         /\ \A c \in Conn : f = Des(c) => ~Waits(l, Est(c))
<1>1. batch[l] \in Seq(Functor) /\ Tail(batch[l]) \in Seq(Functor)
  OBVIOUS
<1>2. /\ batch' \in [Loop -> Seq(Functor)]
      /\ batch'[l] = Tail(batch[l])
      /\ \A k \in Loop \ {l} : batch'[k] = batch[k]
  BY <1>1
<1>3. /\ f \in ToSet(batch[l])
      /\ ToSet(batch'[l]) = ToSet(batch[l]) \ {f}
      /\ Distinct(batch'[l])
  BY <1>1, <1>2, ToSetTail DEF InOrder, Queues
<1>4. /\ Ordered(batch'[l])
      /\ \A c \in Conn : f = Des(c) => Est(c) \notin ToSet(batch[l])
  BY <1>1, <1>2, OrderedTail DEF InOrder, Queues
<1>5. InOrder(pending, batch', l)
  BY <1>3, <1>4 DEF InOrder, Queues
<1>6. \A k \in Loop : InOrder(pending, batch', k)
  BY <1>2, <1>5 DEF InOrder, Queues
<1>7. f \notin ToSet(pending[l])
  BY <1>3 DEF InOrder, Queues
<1> QED BY <1>2, <1>3, <1>4, <1>6, <1>7 DEF Waiting, Waits, InOrder, Queues

LEMMA EmptyInOrder ==
  /\ ToSet(<<>>) = {}
  /\ Distinct(<<>>) /\ Ordered(<<>>)
  BY DEF ToSet, Distinct, Ordered

LEMMA Swap ==
  ASSUME pending \in [Loop -> Seq(Functor)], batch \in [Loop -> Seq(Functor)],
         Queues,
         NEW l \in Loop, batch[l] = <<>>,
         pending' = [pending EXCEPT ![l] = <<>>],
         batch' = [batch EXCEPT ![l] = pending[l]]
  PROVE  /\ pending' \in [Loop -> Seq(Functor)]
         /\ batch' \in [Loop -> Seq(Functor)]
         /\ Queues'
         /\ \A k \in Loop, g \in Functor : Waits(k, g)' <=> Waits(k, g)
<1>1. /\ pending' \in [Loop -> Seq(Functor)]
      /\ batch' \in [Loop -> Seq(Functor)]
      /\ pending'[l] = <<>> /\ batch'[l] = pending[l]
      /\ \A k \in Loop \ {l} : pending'[k] = pending[k] /\ batch'[k] = batch[k]
  OBVIOUS
<1>2. InOrder(pending', batch', l)
  BY <1>1, EmptyInOrder DEF InOrder, Queues
<1>3. Queues'
  BY <1>1, <1>2 DEF InOrder, Queues
<1> QED BY <1>1, <1>3, EmptyInOrder DEF Waiting, Waits

(* The loop is left with its queue. *)
LEMMA Clear ==
  ASSUME pending \in [Loop -> Seq(Functor)], batch \in [Loop -> Seq(Functor)],
         Queues,
         NEW l \in Loop, batch[l] = <<>>,
         pending' = [pending EXCEPT ![l] = <<>>], batch' = batch
  PROVE  /\ pending' \in [Loop -> Seq(Functor)]
         /\ Queues'
         /\ \A k \in Loop, g \in Functor :
              Waits(k, g)' <=> Waits(k, g) /\ k # l
<1>1. /\ pending' \in [Loop -> Seq(Functor)]
      /\ pending'[l] = <<>>
      /\ \A k \in Loop \ {l} : pending'[k] = pending[k]
  OBVIOUS
<1>2. InOrder(pending', batch', l)
  BY <1>1, EmptyInOrder DEF InOrder, Queues
<1>3. Queues'
  BY <1>1, <1>2 DEF InOrder, Queues
<1> QED BY <1>1, <1>3, EmptyInOrder DEF Waiting, Waits

-----------------------------------------------------------------------------
(* The initial states, and the steps that leave the connections alone.     *)

LEMMA LoopFacts ==
  /\ Base \in Loop
  /\ \A i \in 1 .. Len(Threads) : Threads[i] \in Loop /\ Threads[i] # Base
  BY TcpServerAssumption DEF Loop, ToSet

LEMMA InitInv == Init => Inv
<1> SUFFICES ASSUME Init PROVE Inv
  OBVIOUS
<1> USE DEF Init, AcceptorInit
<1>1. TypeOK
  <2>1. /\ numThreads_ \in 0 .. Len(Threads)
        /\ loops_ \in Seq(ToSet(Threads)) /\ Len(loops_) = 0
        /\ nextConnId_ \in 1 .. MaxConn + 1
    BY TcpServerAssumption, EmptySeq
  <2>2. /\ ioLoop \in [Conn -> Loop]
        /\ pending \in [Loop -> Seq(Functor)]
        /\ batch \in [Loop -> Seq(Functor)]
        /\ held \in [Loop -> SUBSET (Conn \cup {NoConn})]
        /\ closing \in [Loop -> Conn \cup {NoConn}]
    BY LoopFacts
  <2>3. /\ {started_, starting, deadCall} \subseteq BOOLEAN
        /\ AcceptorTypeOK
        /\ server \in {"up", "body", "joining", "waiting", "gone"}
        /\ server # "waiting"
        /\ connections_ \in SUBSET Conn /\ left \in SUBSET Conn
    BY DEF AcceptorTypeOK
  <2>4. /\ state_ \in [Conn -> {"none", "kConnecting", "kConnected",
                                "kDisconnected"}]
        /\ index_ \in [Conn -> {"kNew", "kAdded", "kDeleted"}]
        /\ pc \in [Loop -> {"enter", "events", "run", "stopped"}]
        /\ quit_ \in [Loop -> BOOLEAN]
        /\ destroys \in [Conn -> Nat]
    OBVIOUS
  <2>5. /\ Len(loops_) <= numThreads_
        /\ \A i \in 1 .. Len(loops_) : loops_[i] = Threads[i]
        /\ joined \in 0 .. Len(loops_) /\ next_ \in 0 .. Len(loops_)
        /\ ~(loops_ # <<>>)
        /\ \A l \in Loop : ~(batch[l] # <<>> \/ held[l] # {})
    BY <2>1
  <2> HIDE DEF Init
  <2> QED BY <2>1, <2>2, <2>3, <2>4, <2>5 DEF TypeOK
<1>2. \A l \in Loop, f \in Functor : ~Waits(l, f)
  BY EmptyInOrder DEF Waits, Waiting
<1>3. Queues
  BY EmptyInOrder DEF Queues, InOrder
<1>4. Started /\ Bounded /\ Quiet
  BY <1>2, FunctorFacts, TcpServerAssumption, LoopFacts
  DEF Started, Bounded, Quiet
<1>5. ASSUME NEW c \in Conn PROVE Life(c)
  BY <1>2, <1>5, LoopFacts, FunctorFacts
  DEF Life, Unused, Home, ToBeEstablished, Closed, Destroyed, Kept, KeptByMap
<1> QED BY <1>1, <1>3, <1>4, <1>5 DEF Inv

(* What the life of a connection depends on. *)
lifeVars == <<nextConnId_, ioLoop, index_, destroys, closing, connections_,
              pending, batch>>

LEMMA SameLife ==
  ASSUME Inv, UNCHANGED lifeVars,
         server' = "up" => server = "up",
         \A l \in Loop : pc[l] = "stopped" => pc'[l] = "stopped"
  PROVE  /\ Queues'
         /\ \A l \in Loop, f \in Functor : Waits(l, f)' <=> Waits(l, f)
         /\ \A c \in Conn : Life(c)'
<1>1. Queues' /\ \A l \in Loop, f \in Functor : Waits(l, f)' <=> Waits(l, f)
  BY DEF Inv, lifeVars, Queues, Waits
<1>2. ASSUME NEW c \in Conn PROVE Life(c)'
  <2>1. ioLoop[c] \in Loop /\ Base \in Loop /\ Life(c)
    BY LoopFacts DEF Inv, TypeOK
  <2>2. \A l \in Loop : /\ Waits(l, Est(c))' <=> Waits(l, Est(c))
                        /\ Waits(l, Des(c))' <=> Waits(l, Des(c))
                        /\ Waits(l, Rem(c))' <=> Waits(l, Rem(c))
    BY <1>1, FunctorFacts
  <2>3. Unused(c)' /\ Home(c)'
    BY <1>1, <2>1, <2>2 DEF lifeVars, Life, Unused, Home
  <2> QED
    BY <2>1, <2>2, <2>3
    DEF lifeVars, Life, ToBeEstablished, Closed, Destroyed, Kept, KeptByMap
<1> QED BY <1>1, <1>2

(* Of the steps of start(), all but the last. *)
LEMMA StartInv ==
  ASSUME Inv,
         \/ \E n \in 0 .. Len(Threads) : SetThreadNum(n)
         \/ StartHere \/ StartElsewhere \/ StartThread
  PROVE  Inv'
<1>1. UNCHANGED lifeVars /\ server' = server /\ pc' = pc
  BY DEF SetThreadNum, StartHere, StartElsewhere, StartThread, Listen,
         lifeVars, serverVars, newVars, connVars, loopVars
<1>2. /\ Queues' /\ \A c \in Conn : Life(c)'
      /\ \A l \in Loop, f \in Functor : Waits(l, f)' <=> Waits(l, f)
  BY <1>1, SameLife
<1>3. Bounded' /\ Quiet'
  BY DEF Inv, Bounded, Quiet, SetThreadNum, StartHere, StartElsewhere,
         StartThread, Listen, acceptorVars, serverVars, newVars, loopVars
<1> USE DEF Inv, startVars, serverVars, newVars, connVars, loopVars,
            acceptorVars
<1>4. TypeOK' /\ Started'
  <2>1. ASSUME NEW n \in 0 .. Len(Threads), SetThreadNum(n)
        PROVE  TypeOK' /\ Started'
    BY <1>2, <2>1, FunctorFacts
    DEF SetThreadNum, TypeOK, AcceptorTypeOK, Started
  <2>2. CASE StartHere
    <3>1. /\ loops_' \in Seq(ToSet(Threads)) /\ Len(loops_') = numThreads_
          /\ \A i \in 1 .. Len(loops_') : loops_'[i] = Threads[i]
      <4>1. /\ numThreads_ \in Nat /\ numThreads_ <= Len(Threads)
            /\ loops_' = [i \in 1 .. numThreads_ |-> Threads[i]]
        BY <2>2, TcpServerAssumption DEF StartHere, TypeOK
      <4>2. \A i \in 1 .. numThreads_ : Threads[i] \in ToSet(Threads)
        BY <4>1, TcpServerAssumption, ToSetMember
      <4> HIDE DEF Inv
      <4> QED BY <4>1, <4>2
    <3>2. loops_ = <<>> /\ ~starting /\ next_ = 0 /\ joined = 0
      BY <2>2 DEF StartHere, TypeOK, Started
    <3>3. TypeOK'
      BY <2>2, <3>1, <3>2 DEF StartHere, Listen, TypeOK, AcceptorTypeOK
    <3>4. \A c \in Conn : ioLoop[c] = Base
      BY <3>2 DEF Started, ToSet
    <3>5. Started'
      BY <1>2, <2>2, <3>2, <3>4, FunctorFacts DEF StartHere, Listen, Started
    <3> QED BY <3>3, <3>5
  <2>3. CASE StartElsewhere
    BY <1>2, <2>3, FunctorFacts
    DEF StartElsewhere, TypeOK, AcceptorTypeOK, Started
  <2>4. CASE StartThread
    <3>1. Threads[Len(loops_) + 1] \in ToSet(Threads)
      BY <2>4 DEF StartThread, TypeOK, ToSet
    <3>2. /\ loops_' \in Seq(ToSet(Threads)) /\ Len(loops_') = Len(loops_) + 1
          /\ Len(loops_') <= numThreads_
          /\ \A i \in 1 .. Len(loops_') : loops_'[i] = Threads[i]
          /\ ToSet(loops_) \subseteq ToSet(loops_')
      BY <2>4, <3>1, ToSetAppend DEF StartThread, TypeOK
    <3>3. next_ = 0
      BY <2>4 DEF StartThread, Started
    <3>4. TypeOK'
      BY <2>4, <3>2, <3>3 DEF StartThread, TypeOK, AcceptorTypeOK
    <3>5. Started'
      BY <1>2, <2>4, <3>2, FunctorFacts DEF StartThread, Started, TypeOK
    <3> QED BY <3>4, <3>5
  <2> QED BY <2>1, <2>2, <2>3, <2>4
<1> QED BY <1>2, <1>3, <1>4

(* Clients, quit(), and the steps of ~TcpServer on its loops. *)
LEMMA OtherInv ==
  ASSUME Inv,
         \/ ClientConnects \/ QuitBase \/ BeginDestroy \/ EndBody
         \/ QuitLoop \/ JoinLoop \/ EndDestroy
  PROVE  Inv'
<1> USE DEF startVars, serverVars, newVars, connVars, loopVars, acceptorVars
<1>1. UNCHANGED lifeVars /\ (server' = "up" => server = "up") /\ pc' = pc
  BY DEF ClientConnects, QuitBase, BeginDestroy, EndBody, QuitLoop, JoinLoop,
         EndDestroy, lifeVars
<1>2. /\ Queues' /\ \A c \in Conn : Life(c)'
      /\ \A l \in Loop, f \in Functor : Waits(l, f)' <=> Waits(l, f)
  BY <1>1, SameLife
<1>3. Started'
  BY <1>2, FunctorFacts
  DEF Inv, Started, ClientConnects, Arrive, QuitBase, BeginDestroy,
              EndBody, QuitLoop, JoinLoop, EndDestroy, CloseAcceptor
<1>4. TypeOK' /\ Bounded' /\ Quiet'
  <2> USE LoopFacts DEF Inv, TypeOK, AcceptorTypeOK, Bounded, Quiet
  <2>1. CASE ClientConnects BY <2>1, TcpServerAssumption
    DEF ClientConnects, Arrive
  <2>2. CASE QuitBase BY <2>2 DEF QuitBase
  <2>3. CASE BeginDestroy BY <2>3 DEF BeginDestroy
  <2>4. CASE EndBody BY <2>4 DEF EndBody
  <2>5. CASE QuitLoop BY <2>5 DEF QuitLoop
  <2>6. CASE JoinLoop BY <2>6 DEF JoinLoop
  <2>7. CASE EndDestroy
    <3>1. TypeOK'
      BY <2>7 DEF EndDestroy, CloseAcceptor
    <3>2. Bounded' /\ Quiet'
      BY <2>7, TcpServerAssumption DEF EndDestroy, CloseAcceptor
    <3> QED BY <3>1, <3>2
  <2> QED BY <2>1, <2>2, <2>3, <2>4, <2>5, <2>6, <2>7
<1> QED BY <1>2, <1>3, <1>4 DEF Inv

-----------------------------------------------------------------------------
(* The steps that move functors. *)

LEMMA EnqueueStep ==
  ASSUME Inv, NEW l \in Loop, NEW f \in Functor, ~Waits(l, f),
         \A c \in Conn : f = Est(c) => ~Waits(l, Des(c)),
         QueueInLoop(l, f), batch' = batch
  PROVE  /\ pending' \in [Loop -> Seq(Functor)]
         /\ Queues'
         /\ \A k \in Loop, g \in Functor :
              Waits(k, g)' <=> Waits(k, g) \/ (k = l /\ g = f)
<1>1. /\ pending \in [Loop -> Seq(Functor)] /\ batch' \in [Loop -> Seq(Functor)]
      /\ \A k \in Loop : InOrder(pending, batch', k)
      /\ \A k \in Loop : \A g : Waiting(pending, batch', k, g) <=> Waits(k, g)
  BY DEF Inv, TypeOK, Queues, Waits
<1>2. /\ ~Waiting(pending, batch', l, f)
      /\ \A c \in Conn : f = Est(c) => ~Waiting(pending, batch', l, Des(c))
  BY <1>1
<1>3. /\ pending' \in [Loop -> Seq(Functor)]
      /\ Queues'
      /\ \A k \in Loop, g \in Functor :
           Waits(k, g)' <=> Waiting(pending, batch', k, g) \/ (k = l /\ g = f)
  BY <1>1, <1>2, Enqueue
<1> QED BY <1>1, <1>3

LEMMA QueueListenInv ==
  ASSUME Inv, QueueListen
  PROVE  Inv'
<1> USE DEF Inv, QueueListen, QueueInLoop, startVars, serverVars, newVars,
            connVars, loopVars, acceptorVars
<1>1. ~Waits(Base, Lis)
  BY LoopFacts DEF Started
<1>2. /\ pending' \in [Loop -> Seq(Functor)]
      /\ Queues'
      /\ \A l \in Loop, g \in Functor :
           Waits(l, g)' <=> Waits(l, g) \/ (l = Base /\ g = Lis)
  <2>1. QueueInLoop(Base, Lis) /\ batch' = batch
    BY DEF Lis
  <2>2. Lis \in Functor /\ \A c \in Conn : Lis # Est(c)
    BY FunctorFacts
  <2> HIDE DEF Inv, QueueListen, QueueInLoop
  <2> QED BY <1>1, <2>1, <2>2, LoopFacts, EnqueueStep
<1>3. TypeOK'
  BY <1>2 DEF TypeOK, AcceptorTypeOK
<1>4. Started' /\ Bounded' /\ Quiet'
  BY DEF Started, Bounded, Quiet, TypeOK
<1>5. ASSUME NEW c \in Conn PROVE Life(c)'
  <2>1. ioLoop[c] \in Loop /\ Base \in Loop /\ Life(c)
    BY LoopFacts DEF TypeOK
  <2>2. \A l \in Loop : /\ Waits(l, Est(c))' <=> Waits(l, Est(c))
                        /\ Waits(l, Des(c))' <=> Waits(l, Des(c))
                        /\ Waits(l, Rem(c))' <=> Waits(l, Rem(c))
    BY <1>2, FunctorFacts
  <2>3. Lis[2] # c
    BY FunctorFacts DEF Lis
  <2>4. Unused(c)'
    BY <1>2, <2>1, <2>3 DEF Life, Unused
  <2> QED
    BY <2>1, <2>2, <2>4
    DEF Life, Home, ToBeEstablished, Closed, Destroyed, Kept, KeptByMap
<1> QED BY <1>2, <1>3, <1>4, <1>5

LEMMA EnterLoopInv ==
  ASSUME Inv, NEW l \in Loop, EnterLoop(l)
  PROVE  Inv'
<1> USE DEF Inv, EnterLoop, startVars, serverVars, newVars, connVars,
            acceptorVars
<1>1. /\ UNCHANGED lifeVars /\ server' = server
      /\ pc[l] = "enter" /\ pc' = [pc EXCEPT ![l] = "run"]
      /\ quit_' = [quit_ EXCEPT ![l] = FALSE]
  BY DEF lifeVars
<1>2. \A k \in Loop : pc[k] = "stopped" => pc'[k] = "stopped"
  BY <1>1 DEF TypeOK
<1>3. /\ Queues' /\ \A c \in Conn : Life(c)'
      /\ \A k \in Loop, f \in Functor : Waits(k, f)' <=> Waits(k, f)
  BY <1>1, <1>2, SameLife
<1>4. TypeOK'
  BY <1>1 DEF TypeOK, AcceptorTypeOK
<1>5. Started' /\ Bounded' /\ Quiet'
  BY <1>1, <1>3, FunctorFacts DEF Started, Bounded, Quiet, TypeOK
<1> QED BY <1>3, <1>4, <1>5

LEMMA SwapInv ==
  ASSUME Inv, NEW l \in Loop, SwapFunctors(l)
  PROVE  Inv'
<1> USE DEF Inv, SwapFunctors, startVars, serverVars, newVars, connVars,
            acceptorVars
<1>1. batch[l] = <<>>
  BY DEF TypeOK
<1>2. /\ pending' \in [Loop -> Seq(Functor)]
      /\ batch' \in [Loop -> Seq(Functor)]
      /\ Queues'
      /\ \A k \in Loop, g \in Functor : Waits(k, g)' <=> Waits(k, g)
  <2>1. /\ pending' = [pending EXCEPT ![l] = <<>>]
        /\ batch' = [batch EXCEPT ![l] = pending[l]]
    OBVIOUS
  <2>2. /\ pending \in [Loop -> Seq(Functor)]
        /\ batch \in [Loop -> Seq(Functor)] /\ Queues
    BY DEF TypeOK
  <2> HIDE DEF SwapFunctors, Inv
  <2> QED BY <1>1, <2>1, <2>2, Swap
<1>3. TypeOK'
  BY <1>1, <1>2 DEF TypeOK, AcceptorTypeOK
<1>4. Started' /\ Bounded' /\ Quiet'
  BY <1>2, FunctorFacts DEF Started, Bounded, Quiet, TypeOK
<1>5. ASSUME NEW c \in Conn PROVE Life(c)'
  <2>1. ioLoop[c] \in Loop /\ Base \in Loop /\ Life(c)
    BY LoopFacts DEF TypeOK
  <2>4. \A k \in Loop : /\ Waits(k, Est(c))' <=> Waits(k, Est(c))
                        /\ Waits(k, Des(c))' <=> Waits(k, Des(c))
                        /\ Waits(k, Rem(c))' <=> Waits(k, Rem(c))
    BY <1>2, FunctorFacts
  <2>2. Unused(c)' /\ Home(c)'
    BY <1>2, <2>1, <2>4 DEF Life, Unused, Home
  <2>3. pc[ioLoop[c]] = "stopped" => pc'[ioLoop[c]] = "stopped"
    BY DEF TypeOK
  <2> QED
    BY <2>1, <2>2, <2>3, <2>4
    DEF Life, ToBeEstablished, Closed, Destroyed, Kept, KeptByMap
<1> QED BY <1>2, <1>3, <1>4, <1>5

LEMMA EndFunctorsInv ==
  ASSUME Inv, NEW l \in Loop, EndFunctors(l)
  PROVE  Inv'
<1> USE DEF Inv, EndFunctors, startVars, serverVars, newVars, connVars,
            acceptorVars
<1>1. CASE quit_[l] /\ l # Base
  <2>1. /\ pending' \in [Loop -> Seq(Functor)]
        /\ Queues'
        /\ \A k \in Loop, g \in Functor :
             Waits(k, g)' <=> Waits(k, g) /\ k # l
    <3>1. /\ pending' = [pending EXCEPT ![l] = <<>>]
          /\ batch' = batch /\ batch[l] = <<>>
      BY <1>1
    <3>2. /\ pending \in [Loop -> Seq(Functor)]
          /\ batch \in [Loop -> Seq(Functor)] /\ Queues
      BY DEF TypeOK
    <3> HIDE DEF EndFunctors, Inv
    <3> QED BY <3>1, <3>2, Clear
  <2>2. /\ pc' = [pc EXCEPT ![l] = "stopped"]
        /\ pc[l] = "run"
    BY <1>1
  <2>3. TypeOK'
    BY <2>1, <2>2 DEF TypeOK, AcceptorTypeOK
  <2>4. Started'
    BY <2>1, FunctorFacts DEF Started
  <2>6. Bounded' /\ Quiet'
    BY <2>2 DEF Bounded, Quiet, TypeOK
  <2>5. ASSUME NEW c \in Conn PROVE Life(c)'
    <3>1. ioLoop[c] \in Loop /\ Base \in Loop /\ Life(c)
      BY LoopFacts DEF TypeOK
    <3>4. \A k \in Loop : /\ Waits(k, Est(c))' <=> Waits(k, Est(c)) /\ k # l
                          /\ Waits(k, Des(c))' <=> Waits(k, Des(c)) /\ k # l
                          /\ Waits(k, Rem(c))' <=> Waits(k, Rem(c)) /\ k # l
      BY <2>1, FunctorFacts
    <3>2. Unused(c)' /\ Home(c)'
      BY <2>1, <3>1, <3>4 DEF Life, Unused, Home
    <3>3. /\ pc[ioLoop[c]] = "stopped" => pc'[ioLoop[c]] = "stopped"
          /\ ioLoop[c] = l => pc'[ioLoop[c]] = "stopped"
      BY <2>2, <3>1 DEF TypeOK
    <3> QED
      BY <1>1, <3>1, <3>2, <3>3, <3>4
      DEF Life, ToBeEstablished, Closed, Destroyed, Kept, KeptByMap
  <2> QED BY <2>1, <2>3, <2>4, <2>5, <2>6
<1>2. CASE ~(quit_[l] /\ l # Base)
  <2>1. /\ pending' = pending
        /\ pc[l] = "run"
        /\ \A k \in Loop : pc[k] = "stopped" => pc'[k] = "stopped"
        /\ pc' \in [Loop -> {"enter", "events", "run", "stopped"}]
        /\ \A k \in Loop \ {l} : pc'[k] = pc[k]
    BY <1>2 DEF TypeOK
  <2>2. Queues' /\ \A k \in Loop, f \in Functor : Waits(k, f)' <=> Waits(k, f)
    BY <2>1 DEF Queues, Waits
  <2>3. TypeOK'
    BY <2>1 DEF TypeOK, AcceptorTypeOK
  <2>4. Started' /\ Bounded' /\ Quiet'
    BY <2>1, <2>2, FunctorFacts DEF Started, Bounded, Quiet, TypeOK
  <2>5. UNCHANGED lifeVars
    BY <2>1 DEF lifeVars
  <2> QED BY <2>1, <2>2, <2>3, <2>4, <2>5, SameLife
<1> QED BY <1>1, <1>2

(* A functor leaves the batch: what every functor that runs leaves behind. *)
LEMMA RunFacts ==
  ASSUME Inv, NEW l \in Loop, NEW f, RunFunctor(l, f)
  PROVE  /\ Waits(l, f) /\ f \in Functor
         /\ batch' \in [Loop -> Seq(Functor)]
         /\ held' \in [Loop -> SUBSET (Conn \cup {NoConn})]
         /\ \A k \in Loop : batch'[k] # <<>> \/ held'[k] # {} => pc[k] = "run"
         /\ pc[l] = "run" /\ closing[l] = NoConn
         /\ \A k \in Loop : InOrder(pending, batch', k)
         /\ \A k \in Loop, g \in Functor :
              Waiting(pending, batch', k, g)
                <=> Waits(k, g) /\ ~(k = l /\ g = f)
         /\ \A c \in Conn : f = Des(c) => ~Waits(l, Est(c))
<1> USE DEF Inv, RunFunctor, TypeOK
<1>1. /\ batch' = [batch EXCEPT ![l] = Tail(batch[l])]
      /\ batch[l] # <<>> /\ f = Head(batch[l])
      /\ held' = [held EXCEPT ![l] = held[l] \cup OwnedBy(<<f>>)]
  OBVIOUS
<1>2. /\ Waits(l, f)
      /\ batch' \in [Loop -> Seq(Functor)]
      /\ \A k \in Loop : InOrder(pending, batch', k)
      /\ \A k \in Loop, g \in Functor :
           Waiting(pending, batch', k, g)
             <=> Waits(k, g) /\ ~(k = l /\ g = f)
      /\ \A c \in Conn : f = Des(c) => ~Waits(l, Est(c))
  <2>1. /\ pending \in [Loop -> Seq(Functor)]
        /\ batch \in [Loop -> Seq(Functor)] /\ Queues
    OBVIOUS
  <2> HIDE DEF Inv, RunFunctor, TypeOK
  <2> QED BY <1>1, <2>1, Dequeue
<1>3. f \in Functor
  BY <1>2, WaitingMember DEF Waits
<1>4. f[2] \in Conn \cup {NoConn}
  BY <1>3 DEF Functor
<1>5. OwnedBy(<<f>>) \subseteq Conn \cup {NoConn}
  BY <1>4 DEF OwnedBy, ToSet
<1>6. pc[l] = "run" /\ closing[l] = NoConn
  BY <1>1 DEF Quiet
<1>7. held' \in [Loop -> SUBSET (Conn \cup {NoConn})]
  <2>1. held \in [Loop -> SUBSET (Conn \cup {NoConn})]
    OBVIOUS
  <2> HIDE DEF Inv, RunFunctor, TypeOK
  <2>2. held[l] \cup OwnedBy(<<f>>) \in SUBSET (Conn \cup {NoConn})
    BY <1>5, <2>1
  <2> QED BY <1>1, <2>1, <2>2
<1>8. \A k \in Loop : batch'[k] # <<>> \/ held'[k] # {} => pc[k] = "run"
  BY <1>1, <1>6
<1> QED BY <1>2, <1>3, <1>6, <1>7, <1>8

LEMMA RunListenInv ==
  ASSUME Inv, NEW l \in Loop, RunListen(l)
  PROVE  Inv'
<1> USE DEF RunListen, Listen, startVars, serverVars, newVars, connVars
<1>1. RunFunctor(l, Lis)
  BY DEF Lis
<1>2. UNCHANGED <<startVars, serverVars, newVars, closing, pc, quit_>>
  BY <1>1 DEF RunFunctor
<1>3. /\ Waits(l, Lis)
      /\ Queues'
      /\ \A k \in Loop, g \in Functor :
           Waits(k, g)' <=> Waits(k, g) /\ ~(k = l /\ g = Lis)
  <2>1. Waits(l, Lis) /\ \A k \in Loop : InOrder(pending, batch', k)
    BY <1>1, RunFacts
  <2>2. \A k \in Loop, g \in Functor :
          Waiting(pending, batch', k, g)
            <=> Waits(k, g) /\ ~(k = l /\ g = Lis)
    BY <1>1, RunFacts
  <2>3. pending' = pending
    OBVIOUS
  <2> QED BY <2>1, <2>2, <2>3 DEF Queues, Waits
<1>4. TypeOK'
  BY <1>1, <1>2, RunFacts DEF Inv, TypeOK, AcceptorTypeOK
<1>5. Started' /\ Bounded' /\ Quiet'
  BY <1>2, <1>3 DEF Inv, Started, Bounded, Quiet
<1>6. ASSUME NEW c \in Conn PROVE Life(c)'
  <2>1. ioLoop[c] \in Loop /\ Base \in Loop /\ Life(c)
    BY LoopFacts DEF Inv, TypeOK
  <2>2. \A k \in Loop : /\ Waits(k, Est(c))' <=> Waits(k, Est(c))
                        /\ Waits(k, Des(c))' <=> Waits(k, Des(c))
                        /\ Waits(k, Rem(c))' <=> Waits(k, Rem(c))
    BY <1>3, FunctorFacts
  <2>3. Unused(c)'
    BY <1>2, <1>3, <2>1 DEF Life, Unused
  <2> QED
    BY <1>2, <2>1, <2>2, <2>3
    DEF Life, Home, ToBeEstablished, Closed, Destroyed, Kept, KeptByMap
<1> QED BY <1>3, <1>4, <1>5, <1>6 DEF Inv

-----------------------------------------------------------------------------
(* The steps on one connection. *)

(* They leave the life of the others alone. *)
LEMMA OtherLife ==
  ASSUME Inv, NEW d \in Conn,
         server' = server, pc' = pc,
         nextConnId_' \in {nextConnId_, nextConnId_ + 1},
         ioLoop'[d] = ioLoop[d], index_'[d] = index_[d],
         destroys'[d] = destroys[d],
         d \in connections_' <=> d \in connections_,
         \A l \in Loop : closing'[l] = d <=> closing[l] = d,
         \A l \in Loop, f \in Functor :
           f[2] = d => (Waits(l, f)' <=> Waits(l, f))
  PROVE  Life(d)'
<1>1. ioLoop[d] \in Loop /\ Base \in Loop /\ Life(d)
  BY LoopFacts DEF Inv, TypeOK
<1>2. \A l \in Loop : /\ Waits(l, Est(d))' <=> Waits(l, Est(d))
                      /\ Waits(l, Des(d))' <=> Waits(l, Des(d))
                      /\ Waits(l, Rem(d))' <=> Waits(l, Rem(d))
  BY FunctorFacts
<1>3. Unused(d)'
  <2>1. d >= nextConnId_' => d >= nextConnId_
    BY DEF Inv, TypeOK, Conn
  <2> QED BY <1>1, <2>1 DEF Life, Unused
<1>4. Home(d)'
  BY <1>1, <1>2 DEF Life, Home
<1> QED
  BY <1>1, <1>2, <1>3, <1>4
  DEF Life, ToBeEstablished, Closed, Destroyed, Kept, KeptByMap

LEMMA NextLoop ==
  ASSUME Inv
  PROVE  /\ GetNextLoop(next_)[1] \in Loop
         /\ GetNextLoop(next_)[1] \in {Base} \cup ToSet(loops_)
         /\ GetNextLoop(next_)[2] \in 0 .. Len(loops_)
         /\ loops_ # <<>> => GetNextLoop(next_)[2] < Len(loops_)
<1> USE DEF Inv, TypeOK
<1>1. CASE loops_ = <<>>
  BY <1>1, LoopFacts DEF GetNextLoop
<1>2. CASE loops_ # <<>>
  <2>1. next_ + 1 \in 1 .. Len(loops_)
    BY <1>2
  <2>2. /\ loops_[next_ + 1] \in ToSet(loops_)
        /\ loops_[next_ + 1] \in ToSet(Threads)
    BY <2>1, ToSetMember
  <2>3. GetNextLoop(next_)[1] = loops_[next_ + 1]
    BY <1>2 DEF GetNextLoop
  <2>4. /\ GetNextLoop(next_)[2] \in 0 .. Len(loops_)
        /\ GetNextLoop(next_)[2] < Len(loops_)
    BY <1>2, <2>1 DEF GetNextLoop
  <2> QED BY <2>2, <2>3, <2>4 DEF Loop
<1> QED BY <1>1, <1>2

LEMMA NewConnectionInv ==
  ASSUME Inv, NewConnection
  PROVE  Inv'
<1> DEFINE n == nextConnId_
           m == GetNextLoop(next_)[1]
<1> USE DEF startVars, serverVars, loopVars
<1>1. /\ n \in Conn /\ nextConnId_' = n + 1 /\ n \in Nat
      /\ server = "up" /\ listening_ /\ backlog > 0
      /\ backlog' = backlog - 1 /\ listening_' = listening_
      /\ connections_' = connections_ \cup {n}
      /\ ioLoop' = [ioLoop EXCEPT ![n] = m]
      /\ Establish(m, n)
      /\ UNCHANGED <<startVars, serverVars, loopVars, batch, deadCall>>
  BY TcpServerAssumption
  DEF Inv, TypeOK, AcceptorTypeOK, Bounded, NewConnection, Accept, Conn
<1>2. m \in Loop /\ m \in {Base} \cup ToSet(loops_) /\ Base \in Loop
  BY NextLoop, LoopFacts
<1>3. next_' \in 0 .. Len(loops_) /\ (loops_ # <<>> => next_' < Len(loops_))
  BY NextLoop DEF NewConnection
<1>4. /\ index_[n] = "kNew" /\ destroys[n] = 0 /\ n \notin connections_
      /\ \A l \in Loop : /\ closing[l] # n
                         /\ \A f \in Functor : Waits(l, f) => f[2] # n
  BY <1>1 DEF Inv, Life, Unused
<1>5. /\ pending' \in [Loop -> Seq(Functor)] /\ batch' = batch
      /\ Queues'
      /\ \A k \in Loop, g \in Functor :
           Waits(k, g)' <=> Waits(k, g) \/ (m # Base /\ k = m /\ g = Est(n))
  <2>1. CASE m = Base
    <3>1. pending' = pending /\ batch' = batch
      BY <1>1, <2>1 DEF Establish
    <3> QED BY <2>1, <3>1 DEF Inv, TypeOK, Queues, Waits
  <2>2. CASE m # Base
    <3>1. QueueInLoop(m, Est(n)) /\ batch' = batch
      BY <1>1, <2>2 DEF Establish, Est
    <3>2. Est(n) \in Functor /\ ~Waits(m, Est(n)) /\ ~Waits(m, Des(n))
      BY <1>1, <1>2, <1>4, FunctorFacts
    <3>3. \A c \in Conn : Est(n) = Est(c) => ~Waits(m, Des(c))
      BY <1>1, <3>2, FunctorFacts
    <3> HIDE DEF m, n
    <3> QED BY <1>2, <2>2, <3>1, <3>2, <3>3, EnqueueStep
  <2> QED BY <2>1, <2>2
<1>6. /\ \A c \in Conn : index_'[c] = IF c = n /\ m = Base THEN "kAdded"
                                                          ELSE index_[c]
      /\ destroys' = destroys
      /\ state_' \in [Conn -> {"none", "kConnecting", "kConnected",
                               "kDisconnected"}]
      /\ index_' \in [Conn -> {"kNew", "kAdded", "kDeleted"}]
  <2> HIDE DEF m, n
  <2>1. CASE m = Base
    BY <1>1, <2>1 DEF Inv, TypeOK, Establish, ConnectEstablished
  <2>2. CASE m # Base
    BY <1>1, <2>2 DEF Inv, TypeOK, Establish
  <2> QED BY <2>1, <2>2
<1> HIDE DEF m
<1>7. TypeOK'
  <2>1. nextConnId_' \in 1 .. MaxConn + 1 /\ connections_' \in SUBSET Conn
    <3>1. n \in 1 .. MaxConn /\ connections_ \in SUBSET Conn
      BY <1>1 DEF Conn, Inv, TypeOK
    <3> HIDE DEF n
    <3> QED BY <1>1, <3>1, TcpServerAssumption DEF Conn
  <2>2. AcceptorTypeOK' /\ ioLoop' \in [Conn -> Loop]
    BY <1>1, <1>2 DEF Inv, TypeOK, AcceptorTypeOK
  <2> HIDE DEF n
  <2> QED BY <1>1, <1>3, <1>5, <1>6, <2>1, <2>2 DEF Inv, TypeOK
<1>8. Started'
  <2>1. started_ /\ ~starting
    BY <1>1 DEF Inv, Started
  <2>2. \A c \in Conn : ioLoop'[c] \in {Base} \cup ToSet(loops_)
    BY <1>1, <1>2 DEF Inv, Started, TypeOK
  <2> QED BY <1>1, <2>1, <2>2 DEF Inv, Started
<1>9. Bounded' /\ Quiet'
  BY <1>1, TcpServerAssumption
  DEF Inv, Bounded, Quiet, TypeOK, AcceptorTypeOK
<1>10. ASSUME NEW c \in Conn PROVE Life(c)'
  <2>1. CASE c # n
    <3>1. /\ ioLoop'[c] = ioLoop[c] /\ index_'[c] = index_[c]
          /\ c \in connections_' <=> c \in connections_
      BY <1>1, <1>6, <2>1 DEF Inv, TypeOK
    <3>2. \A l \in Loop, f \in Functor :
            f[2] = c => (Waits(l, f)' <=> Waits(l, f))
      BY <1>1, <1>5, <2>1, FunctorFacts
    <3> QED BY <1>1, <1>6, <3>1, <3>2, OtherLife
  <2>2. CASE c = n
    <3>1. /\ ioLoop'[c] = m /\ destroys'[c] = 0 /\ c \in connections_'
          /\ (m # Base => index_'[c] = "kNew")
      BY <1>1, <1>2, <1>4, <1>6, <2>2 DEF Inv, TypeOK
    <3>2. \A k \in Loop : /\ ~Waits(k, Est(c)) /\ ~Waits(k, Des(c))
                          /\ ~Waits(k, Rem(c)) /\ closing'[k] # c
      BY <1>1, <1>4, <2>2, FunctorFacts
    <3>3. \A k \in Loop : /\ Waits(k, Est(c))' => m # Base /\ k = m
                          /\ ~Waits(k, Des(c))' /\ ~Waits(k, Rem(c))'
      BY <1>1, <1>5, <3>2, FunctorFacts
    <3>4. ~(c >= nextConnId_')
      BY <1>1, <2>2
    <3> HIDE DEF n
    <3> QED
      BY <1>2, <3>1, <3>2, <3>3, <3>4
      DEF Life, Unused, Home, ToBeEstablished, Closed, Destroyed, Kept,
          KeptByMap
  <2> QED BY <2>1, <2>2
<1> QED BY <1>5, <1>7, <1>8, <1>9, <1>10 DEF Inv

LEMMA HandleCloseInv ==
  ASSUME Inv, NEW l \in Loop, NEW c \in Conn, HandleClose(l, c)
  PROVE  Inv'
<1> USE DEF startVars, serverVars, newVars, acceptorVars
<1>1. /\ UNCHANGED <<startVars, serverVars, newVars, destroys, held, pc,
                     quit_, acceptorVars, connections_, pending, batch,
                     deadCall>>
      /\ closing[l] = NoConn /\ pc[l] = "events" /\ Free(l)
      /\ ioLoop[c] = l /\ index_[c] = "kAdded"
      /\ index_' = [index_ EXCEPT ![c] = "kDeleted"]
      /\ closing' = [closing EXCEPT ![l] = c]
      /\ state_' = [state_ EXCEPT ![c] = "kDisconnected"]
  BY DEF HandleClose
<1>2. Queues' /\ \A k \in Loop, g \in Functor : Waits(k, g)' <=> Waits(k, g)
  BY <1>1 DEF Inv, Queues, Waits
<1>3. TypeOK'
  BY <1>1 DEF Inv, TypeOK, AcceptorTypeOK
<1>4. Life(c) /\ Base \in Loop /\ c # NoConn
  BY LoopFacts, FunctorFacts DEF Inv
<1>5. /\ server = "up" => c \in connections_
      /\ ~Waits(Base, Rem(c)) /\ ~Waits(l, Est(c))
      /\ l = Base => server = "up"
      /\ destroys[c] = 0 /\ ~(c >= nextConnId_)
  <2>1. destroys[c] \in Nat
    BY DEF Inv, TypeOK
  <2>2. l = Base => server = "up"
    BY <1>1, <1>4 DEF Inv, Life, KeptByMap, Quiet, Free
  <2> QED
    BY <1>1, <1>4, <2>1, <2>2
    DEF Life, Unused, ToBeEstablished, Closed, Destroyed, Kept
<1>6. Started' /\ Bounded'
  BY <1>1, <1>2, FunctorFacts DEF Inv, Started, Bounded
<1>7. Quiet'
  BY <1>1, <1>4, <1>5 DEF Inv, Quiet, TypeOK
<1>8. ASSUME NEW d \in Conn PROVE Life(d)'
  <2>1. CASE d # c
    <3>1. /\ index_'[d] = index_[d]
          /\ \A k \in Loop : closing'[k] = d <=> closing[k] = d
      BY <1>1, <2>1, FunctorFacts DEF Inv, TypeOK
    <3> QED BY <1>1, <1>2, <3>1, OtherLife DEF Inv, TypeOK
  <2>2. CASE d = c
    <3>1. /\ index_'[c] = "kDeleted"
          /\ \A k \in Loop : closing'[k] = c => k = l \/ closing[k] = c
      BY <1>1 DEF Inv, TypeOK
    <3>2. \A k \in Loop : /\ Waits(k, Est(c))' <=> Waits(k, Est(c))
                          /\ Waits(k, Des(c))' <=> Waits(k, Des(c))
                          /\ Waits(k, Rem(c))' <=> Waits(k, Rem(c))
      BY <1>2, FunctorFacts
    <3>3. Unused(c)' /\ Home(c)'
      BY <1>1, <1>4, <1>5, <3>1, <3>2 DEF Life, Unused, Home
    <3>4. Life(c)'
      BY <1>1, <1>4, <1>5, <3>1, <3>2, <3>3
      DEF Life, ToBeEstablished, Closed, Destroyed, Kept, KeptByMap
    <3> QED BY <2>2, <3>4
  <2> QED BY <2>1, <2>2
<1> QED BY <1>2, <1>3, <1>6, <1>7, <1>8 DEF Inv

LEMMA CloseCallbackInv ==
  ASSUME Inv, NEW l \in Loop, CloseCallback(l)
  PROVE  Inv'
<1> USE DEF startVars, serverVars, newVars, connVars, acceptorVars
<1>1. PICK c \in Conn : closing[l] = c
  BY DEF CloseCallback, Inv, TypeOK
<1>2. /\ UNCHANGED <<startVars, serverVars, newVars, connVars, held, pc,
                     quit_, acceptorVars, batch>>
      /\ Free(l) /\ RemoveConnection(l, c)
      /\ closing' = [closing EXCEPT ![l] = NoConn]
  BY <1>1 DEF CloseCallback
<1>3. Life(c) /\ Base \in Loop /\ c # NoConn
  BY LoopFacts, FunctorFacts DEF Inv
<1>4. /\ ioLoop[c] = l /\ index_[c] # "kAdded"
      /\ server = "up" => c \in connections_
      /\ ~Waits(Base, Rem(c)) /\ ~Waits(l, Est(c))
      /\ ~(c >= nextConnId_)
      /\ l = Base => server = "up"
  BY <1>1, <1>3
  DEF Life, Unused, Home, Closed, ToBeEstablished, Inv, Quiet
<1>5. /\ closing' \in [Loop -> Conn \cup {NoConn}]
      /\ closing'[l] = NoConn
      /\ \A k \in Loop \ {l} : closing'[k] = closing[k]
  BY <1>2 DEF Inv, TypeOK
<1>6. Quiet' /\ Bounded'
  <2>1. server # "up" => connections_' = connections_
    BY <1>2, <1>4 DEF RemoveConnection
  <2> QED BY <1>2, <1>3, <1>5, <2>1 DEF Inv, Quiet, Bounded
<1>7. CASE l = Base
  <2>1. /\ QueueInLoop(Base, Des(c)) /\ batch' = batch
        /\ connections_' = connections_ \ {c} /\ deadCall' = deadCall
        /\ c \in connections_
    BY <1>2, <1>4, <1>7 DEF RemoveConnection, RemoveConnectionInLoop, Des
  <2>2. ~Waits(Base, Des(c)) /\ destroys[c] = 0
    BY <1>3, <1>4, <1>7, <2>1 DEF Life, Destroyed
  <2>3. Des(c) \in Functor /\ \A d \in Conn : Des(c) # Est(d)
    BY FunctorFacts
  <2>4. /\ pending' \in [Loop -> Seq(Functor)] /\ Queues'
        /\ \A k \in Loop, g \in Functor :
             Waits(k, g)' <=> Waits(k, g) \/ (k = Base /\ g = Des(c))
    BY <1>3, <2>1, <2>2, <2>3, EnqueueStep
  <2>5. TypeOK'
    BY <1>2, <1>5, <2>1, <2>4 DEF Inv, TypeOK, AcceptorTypeOK
  <2>6. Started'
    BY <1>2, <2>1, <2>4, FunctorFacts DEF Inv, Started
  <2>7. ASSUME NEW d \in Conn, d # c PROVE Life(d)'
    <3>1. \A k \in Loop : closing'[k] = d <=> closing[k] = d
      BY <1>1, <1>5, <2>7, FunctorFacts
    <3>2. \A k \in Loop, g \in Functor :
            g[2] = d => (Waits(k, g)' <=> Waits(k, g))
      BY <2>4, <2>7, FunctorFacts
    <3> QED BY <1>2, <2>1, <2>7, <3>1, <3>2, OtherLife
  <2>8. Life(c)'
    <3>1. \A k \in Loop : /\ Waits(k, Est(c))' <=> Waits(k, Est(c))
                          /\ Waits(k, Des(c))' <=> Waits(k, Des(c)) \/ k = Base
                          /\ Waits(k, Rem(c))' <=> Waits(k, Rem(c))
      BY <2>4, FunctorFacts
    <3>2. \A k \in Loop : closing'[k] # c
      BY <1>3, <1>4, <1>5 DEF Life, Home
    <3> QED
      BY <1>2, <1>3, <1>4, <1>7, <2>1, <2>2, <3>1, <3>2
      DEF Life, Unused, Home, ToBeEstablished, Closed, Destroyed, Kept,
          KeptByMap
  <2> QED BY <1>6, <2>4, <2>5, <2>6, <2>7, <2>8 DEF Inv
<1>8. CASE l # Base
  <2>1. /\ QueueInLoop(Base, Rem(c)) /\ batch' = batch
        /\ connections_' = connections_ /\ deadCall' = deadCall
    BY <1>2, <1>8 DEF RemoveConnection, Rem
  <2>2. Rem(c) \in Functor /\ \A d \in Conn : Rem(c) # Est(d)
    BY FunctorFacts
  <2>3. /\ pending' \in [Loop -> Seq(Functor)] /\ Queues'
        /\ \A k \in Loop, g \in Functor :
             Waits(k, g)' <=> Waits(k, g) \/ (k = Base /\ g = Rem(c))
    BY <1>3, <1>4, <2>1, <2>2, EnqueueStep
  <2>4. TypeOK'
    BY <1>2, <1>5, <2>1, <2>3 DEF Inv, TypeOK, AcceptorTypeOK
  <2>5. Started'
    BY <1>2, <2>1, <2>3, FunctorFacts DEF Inv, Started
  <2>6. ASSUME NEW d \in Conn, d # c PROVE Life(d)'
    <3>1. \A k \in Loop : closing'[k] = d <=> closing[k] = d
      BY <1>1, <1>5, <2>6, FunctorFacts
    <3>2. \A k \in Loop, g \in Functor :
            g[2] = d => (Waits(k, g)' <=> Waits(k, g))
      BY <2>3, <2>6, FunctorFacts
    <3> QED BY <1>2, <2>1, <3>1, <3>2, OtherLife
  <2>7. Life(c)'
    <3>1. \A k \in Loop : /\ Waits(k, Est(c))' <=> Waits(k, Est(c))
                          /\ Waits(k, Des(c))' <=> Waits(k, Des(c))
                          /\ Waits(k, Rem(c))' <=> Waits(k, Rem(c)) \/ k = Base
      BY <2>3, FunctorFacts
    <3>2. \A k \in Loop : closing'[k] # c
      BY <1>3, <1>4, <1>5 DEF Life, Home
    <3> QED
      BY <1>2, <1>3, <1>4, <1>8, <2>1, <3>1, <3>2
      DEF Life, Unused, Home, ToBeEstablished, Closed, Destroyed, Kept,
          KeptByMap
  <2> QED BY <1>6, <2>3, <2>4, <2>5, <2>6, <2>7 DEF Inv
<1> QED BY <1>7, <1>8

LEMMA RunEstablishedInv ==
  ASSUME Inv, NEW l \in Loop, NEW c \in Conn,
         RunFunctor(l, Est(c)), ConnectEstablished(c),
         UNCHANGED <<acceptorVars, connections_, pending, deadCall>>
  PROVE  Inv'
<1> USE DEF startVars, serverVars, newVars, acceptorVars
<1>1. UNCHANGED <<startVars, serverVars, newVars, closing, pc, quit_>>
  BY DEF RunFunctor
<1>2. /\ destroys' = destroys
      /\ index_' = [index_ EXCEPT ![c] = "kAdded"]
      /\ state_' = [state_ EXCEPT ![c] = "kConnected"]
  BY DEF ConnectEstablished
<1>3. /\ Waits(l, Est(c))
      /\ Queues'
      /\ \A k \in Loop, g \in Functor :
           Waits(k, g)' <=> Waits(k, g) /\ ~(k = l /\ g = Est(c))
  <2>1. Waits(l, Est(c)) /\ \A k \in Loop : InOrder(pending, batch', k)
    BY RunFacts
  <2>2. \A k \in Loop, g \in Functor :
          Waiting(pending, batch', k, g)
            <=> Waits(k, g) /\ ~(k = l /\ g = Est(c))
    BY RunFacts
  <2> QED BY <2>1, <2>2 DEF Queues, Waits
<1>4. TypeOK'
  <2>1. /\ batch' \in [Loop -> Seq(Functor)]
        /\ held' \in [Loop -> SUBSET (Conn \cup {NoConn})]
        /\ \A k \in Loop : batch'[k] # <<>> \/ held'[k] # {} => pc[k] = "run"
    BY RunFacts
  <2> QED BY <1>1, <1>2, <2>1 DEF Inv, TypeOK, AcceptorTypeOK
<1>5. Started' /\ Bounded' /\ Quiet'
  BY <1>1, <1>3, FunctorFacts DEF Inv, Started, Bounded, Quiet
<1>6. ASSUME NEW d \in Conn, d # c PROVE Life(d)'
  <2>1. index_'[d] = index_[d]
    BY <1>2, <1>6 DEF Inv, TypeOK
  <2>2. \A k \in Loop, g \in Functor :
          g[2] = d => (Waits(k, g)' <=> Waits(k, g))
    BY <1>3, <1>6, FunctorFacts
  <2> QED BY <1>1, <1>2, <2>1, <2>2, OtherLife
<1>7. Life(c)'
  <2>1. \A k \in Loop : /\ Waits(k, Est(c))' <=> Waits(k, Est(c)) /\ k # l
                        /\ Waits(k, Des(c))' <=> Waits(k, Des(c))
                        /\ Waits(k, Rem(c))' <=> Waits(k, Rem(c))
    BY <1>3, FunctorFacts
  <2>2. index_'[c] = "kAdded" /\ Est(c) \in Functor /\ Est(c)[2] = c
    BY <1>2, FunctorFacts DEF Inv, TypeOK
  <2>3. Life(c) /\ Base \in Loop /\ destroys[c] = 0 /\ ioLoop[c] = l
    BY <1>3, LoopFacts DEF Inv, Life, Home, ToBeEstablished
  <2> QED
    BY <1>1, <1>2, <1>3, <2>1, <2>2, <2>3
    DEF Life, Unused, Home, ToBeEstablished, Closed, Destroyed, Kept,
        KeptByMap
<1> QED BY <1>3, <1>4, <1>5, <1>6, <1>7 DEF Inv

LEMMA RunDestroyedInv ==
  ASSUME Inv, NEW l \in Loop, NEW c \in Conn,
         RunFunctor(l, Des(c)), ConnectDestroyed(c),
         UNCHANGED <<acceptorVars, connections_, pending, deadCall>>
  PROVE  Inv'
<1> USE DEF startVars, serverVars, newVars, acceptorVars
<1>1. UNCHANGED <<startVars, serverVars, newVars, closing, pc, quit_>>
  BY DEF RunFunctor
<1>2. /\ destroys' = [destroys EXCEPT ![c] = @ + 1]
      /\ index_' = [index_ EXCEPT ![c] = "kNew"]
      /\ state_' \in [Conn -> {"none", "kConnecting", "kConnected",
                               "kDisconnected"}]
  BY DEF ConnectDestroyed, Inv, TypeOK
<1>3. /\ Waits(l, Des(c)) /\ ~Waits(l, Est(c)) /\ closing[l] = NoConn
      /\ Queues'
      /\ \A k \in Loop, g \in Functor :
           Waits(k, g)' <=> Waits(k, g) /\ ~(k = l /\ g = Des(c))
  <2>1. /\ Waits(l, Des(c)) /\ \A k \in Loop : InOrder(pending, batch', k)
        /\ ~Waits(l, Est(c)) /\ closing[l] = NoConn
    BY RunFacts
  <2>2. \A k \in Loop, g \in Functor :
          Waiting(pending, batch', k, g)
            <=> Waits(k, g) /\ ~(k = l /\ g = Des(c))
    BY RunFacts
  <2> QED BY <2>1, <2>2 DEF Queues, Waits
<1>4. TypeOK'
  <2>1. /\ batch' \in [Loop -> Seq(Functor)]
        /\ held' \in [Loop -> SUBSET (Conn \cup {NoConn})]
        /\ \A k \in Loop : batch'[k] # <<>> \/ held'[k] # {} => pc[k] = "run"
    BY RunFacts
  <2>2. index_' \in [Conn -> {"kNew", "kAdded", "kDeleted"}]
    BY <1>2 DEF Inv, TypeOK
  <2>3. destroys' \in [Conn -> Nat]
    BY <1>2 DEF Inv, TypeOK
  <2> QED BY <1>1, <1>2, <2>1, <2>2, <2>3 DEF Inv, TypeOK, AcceptorTypeOK
<1>5. Started' /\ Bounded' /\ Quiet'
  BY <1>1, <1>3, FunctorFacts DEF Inv, Started, Bounded, Quiet
<1>6. ASSUME NEW d \in Conn, d # c PROVE Life(d)'
  <2>1. index_'[d] = index_[d] /\ destroys'[d] = destroys[d]
    BY <1>2, <1>6 DEF Inv, TypeOK
  <2>2. \A k \in Loop, g \in Functor :
          g[2] = d => (Waits(k, g)' <=> Waits(k, g))
    BY <1>3, <1>6, FunctorFacts
  <2> QED BY <1>1, <2>1, <2>2, OtherLife
<1>7. Life(c)'
  <2>1. \A k \in Loop : /\ Waits(k, Est(c))' <=> Waits(k, Est(c))
                        /\ Waits(k, Des(c))' <=> Waits(k, Des(c)) /\ k # l
                        /\ Waits(k, Rem(c))' <=> Waits(k, Rem(c))
    BY <1>3, FunctorFacts
  <2>2. Des(c) \in Functor /\ Des(c)[2] = c /\ c # NoConn
    BY FunctorFacts
  <2>3. Life(c) /\ Base \in Loop /\ ioLoop[c] = l /\ c \notin connections_
    BY <1>3, LoopFacts DEF Inv, Life, Home, Destroyed
  <2>4. index_'[c] = "kNew" /\ destroys'[c] = 1
    BY <1>2, <1>3, <2>3 DEF Inv, TypeOK, Life, Destroyed
  <2> QED
    BY <1>1, <1>3, <2>1, <2>2, <2>3, <2>4
    DEF Life, Unused, Home, ToBeEstablished, Closed, Destroyed, Kept,
        KeptByMap
<1> QED BY <1>3, <1>4, <1>5, <1>6, <1>7 DEF Inv

LEMMA RunRemoveInv ==
  ASSUME Inv, NEW l \in Loop, NEW c \in Conn,
         RunFunctor(l, Rem(c)), RemoveConnectionInLoop(c),
         UNCHANGED <<acceptorVars, connVars>>
  PROVE  Inv'
<1> USE DEF startVars, serverVars, newVars, connVars, acceptorVars
<1>1. UNCHANGED <<startVars, serverVars, newVars, closing, pc, quit_>>
  BY DEF RunFunctor
<1>2. /\ Waits(l, Rem(c)) /\ closing[l] = NoConn /\ pc[l] = "run"
      /\ batch' \in [Loop -> Seq(Functor)]
      /\ held' \in [Loop -> SUBSET (Conn \cup {NoConn})]
      /\ \A k \in Loop : batch'[k] # <<>> \/ held'[k] # {} => pc[k] = "run"
      /\ \A k \in Loop : InOrder(pending, batch', k)
  BY RunFacts
<1>3. \A k \in Loop, g \in Functor :
        Waiting(pending, batch', k, g)
          <=> Waits(k, g) /\ ~(k = l /\ g = Rem(c))
  BY RunFacts
<1>4. /\ Rem(c) \in Functor /\ Rem(c)[2] = c /\ c # NoConn
      /\ Des(c) \in Functor /\ Des(c)[2] = c
      /\ \A d \in Conn : Des(c) # Est(d)
  BY FunctorFacts
<1>5. Life(c) /\ Base \in Loop /\ ioLoop[c] \in Loop /\ ~(c >= nextConnId_)
  BY <1>2, <1>4, LoopFacts DEF Inv, TypeOK, Life, Unused
<1>6. /\ l = Base /\ ioLoop[c] # Base
      /\ index_[c] # "kAdded" /\ (server = "up" => c \in connections_)
      /\ closing[ioLoop[c]] # c /\ ~Waits(ioLoop[c], Est(c))
  BY <1>2, <1>5 DEF Life, Home, Closed, ToBeEstablished
<1>7. server \in {"up", "gone"}
  BY <1>6 DEF RunFunctor, Free
<1>8. CASE server = "gone"
  <2>1. UNCHANGED <<connections_, pending>> /\ deadCall' = TRUE
    BY <1>8 DEF RemoveConnectionInLoop
  <2>2. /\ Queues'
        /\ \A k \in Loop, g \in Functor :
             Waits(k, g)' <=> Waits(k, g) /\ ~(k = l /\ g = Rem(c))
    BY <1>2, <1>3, <2>1 DEF Queues, Waits
  <2>3. TypeOK'
    BY <1>1, <1>2, <2>1 DEF Inv, TypeOK, AcceptorTypeOK
  <2>4. loops_ # <<>>
    BY <1>6, EmptyInOrder DEF Inv, Started
  <2>5. Started' /\ Bounded' /\ Quiet'
    BY <1>1, <2>1, <2>2, <2>4, FunctorFacts
    DEF Inv, Started, Bounded, Quiet
  <2>6. ASSUME NEW d \in Conn, d # c PROVE Life(d)'
    <3>1. \A k \in Loop, g \in Functor :
            g[2] = d => (Waits(k, g)' <=> Waits(k, g))
      BY <1>4, <2>2, <2>6
    <3> QED BY <1>1, <2>1, <3>1, OtherLife
  <2>7. Life(c)'
    <3>1. \A k \in Loop : /\ Waits(k, Est(c))' <=> Waits(k, Est(c))
                          /\ Waits(k, Des(c))' <=> Waits(k, Des(c))
                          /\ Waits(k, Rem(c))' <=> Waits(k, Rem(c)) /\ k # l
      BY <2>2, FunctorFacts
    <3> QED
      BY <1>1, <1>5, <1>6, <2>1, <3>1
      DEF Life, Unused, Home, ToBeEstablished, Closed, Destroyed, Kept,
          KeptByMap
  <2> QED BY <2>2, <2>3, <2>5, <2>6, <2>7 DEF Inv
<1>9. CASE server = "up"
  <2>1. /\ QueueInLoop(ioLoop[c], Des(c)) /\ deadCall' = deadCall
        /\ connections_' = connections_ \ {c} /\ c \in connections_
    BY <1>6, <1>9 DEF RemoveConnectionInLoop, Des
  <2>2. ~Waits(ioLoop[c], Des(c)) /\ destroys[c] = 0
    BY <1>5, <2>1 DEF Life, Destroyed
  <2>3. /\ ~Waiting(pending, batch', ioLoop[c], Des(c))
        /\ pending \in [Loop -> Seq(Functor)]
    BY <1>3, <1>4, <1>5, <2>2 DEF Inv, TypeOK
  <2>4. /\ pending' \in [Loop -> Seq(Functor)]
        /\ Queues'
        /\ \A k \in Loop, g \in Functor :
             Waits(k, g)'
               <=> Waiting(pending, batch', k, g)
                     \/ (k = ioLoop[c] /\ g = Des(c))
    BY <1>2, <1>4, <1>5, <2>1, <2>3, Enqueue
  <2>5. TypeOK'
    BY <1>1, <1>2, <2>1, <2>4 DEF Inv, TypeOK, AcceptorTypeOK
  <2>6. \A k \in Loop, g \in Functor :
          Waits(k, g)' <=> \/ Waits(k, g) /\ ~(k = l /\ g = Rem(c))
                           \/ k = ioLoop[c] /\ g = Des(c)
    BY <1>3, <2>4
  <2>7. Started' /\ Bounded' /\ Quiet'
    BY <1>1, <1>9, <2>1, <2>6, FunctorFacts
    DEF Inv, Started, Bounded, Quiet
  <2>8. ASSUME NEW d \in Conn, d # c PROVE Life(d)'
    <3>1. \A k \in Loop, g \in Functor :
            g[2] = d => (Waits(k, g)' <=> Waits(k, g))
      BY <1>4, <2>6, <2>8
    <3> QED BY <1>1, <2>1, <2>8, <3>1, OtherLife
  <2>9. Life(c)'
    <3>1. \A k \in Loop :
            /\ Waits(k, Est(c))' <=> Waits(k, Est(c))
            /\ Waits(k, Des(c))' <=> Waits(k, Des(c)) \/ k = ioLoop[c]
            /\ Waits(k, Rem(c))' <=> Waits(k, Rem(c)) /\ k # l
      BY <2>6, FunctorFacts
    <3> QED
      BY <1>1, <1>5, <1>6, <2>1, <2>2, <3>1
      DEF Life, Unused, Home, ToBeEstablished, Closed, Destroyed, Kept,
          KeptByMap
  <2> QED BY <2>4, <2>5, <2>7, <2>8, <2>9 DEF Inv
<1> QED BY <1>7, <1>8, <1>9

LEMMA DestroyConnectionInv ==
  ASSUME Inv, NEW c \in Conn, DestroyConnection(c)
  PROVE  Inv'
<1> USE DEF startVars, serverVars, newVars, loopVars, acceptorVars
<1>1. /\ UNCHANGED <<startVars, serverVars, newVars, loopVars, acceptorVars,
                     batch, deadCall>>
      /\ server = "body" /\ c \in connections_
      /\ connections_' = connections_ \ {c}
  BY DEF DestroyConnection
<1>2. Life(c) /\ Base \in Loop /\ ioLoop[c] \in Loop /\ c # NoConn
  BY LoopFacts, FunctorFacts DEF Inv, TypeOK
<1>3. /\ ~Waits(ioLoop[c], Des(c)) /\ destroys[c] = 0
      /\ closing[Base] = NoConn /\ ~(c >= nextConnId_)
  BY <1>1, <1>2 DEF Life, Destroyed, Unused, Inv, Quiet
<1>4. Bounded' /\ Quiet'
  BY <1>1 DEF Inv, Bounded, Quiet
<1>5. CASE ioLoop[c] = Base
  <2>1. /\ pending' = pending
        /\ destroys' = [destroys EXCEPT ![c] = @ + 1]
        /\ index_' = [index_ EXCEPT ![c] = "kNew"]
        /\ state_' \in [Conn -> {"none", "kConnecting", "kConnected",
                                 "kDisconnected"}]
    BY <1>5 DEF DestroyConnection, ConnectDestroyed, Inv, TypeOK
  <2>2. Queues' /\ \A k \in Loop, g \in Functor : Waits(k, g)' <=> Waits(k, g)
    BY <1>1, <2>1 DEF Inv, Queues, Waits
  <2>3. TypeOK'
    BY <1>1, <2>1 DEF Inv, TypeOK, AcceptorTypeOK
  <2>4. Started'
    BY <1>1, <2>2, FunctorFacts DEF Inv, Started
  <2>5. ASSUME NEW d \in Conn, d # c PROVE Life(d)'
    <3>1. index_'[d] = index_[d] /\ destroys'[d] = destroys[d]
      BY <2>1, <2>5 DEF Inv, TypeOK
    <3> QED BY <1>1, <2>1, <2>2, <2>5, <3>1, OtherLife
  <2>6. Life(c)'
    <3>1. \A k \in Loop : /\ Waits(k, Est(c))' <=> Waits(k, Est(c))
                          /\ Waits(k, Des(c))' <=> Waits(k, Des(c))
                          /\ Waits(k, Rem(c))' <=> Waits(k, Rem(c))
      BY <2>2, FunctorFacts
    <3>2. index_'[c] = "kNew" /\ destroys'[c] = 1
      BY <1>3, <2>1 DEF Inv, TypeOK
    <3> QED
      BY <1>1, <1>2, <1>3, <1>5, <3>1, <3>2
      DEF Life, Unused, Home, ToBeEstablished, Closed, Destroyed, Kept,
          KeptByMap
  <2> QED BY <1>4, <2>2, <2>3, <2>4, <2>5, <2>6 DEF Inv
<1>6. CASE ioLoop[c] # Base
  <2>1. /\ QueueInLoop(ioLoop[c], Des(c)) /\ batch' = batch
        /\ UNCHANGED connVars
    BY <1>1, <1>6 DEF DestroyConnection, Des
  <2>2. Des(c) \in Functor /\ \A d \in Conn : Des(c) # Est(d)
    BY FunctorFacts
  <2>3. /\ pending' \in [Loop -> Seq(Functor)] /\ Queues'
        /\ \A k \in Loop, g \in Functor :
             Waits(k, g)' <=> Waits(k, g) \/ (k = ioLoop[c] /\ g = Des(c))
    BY <1>2, <1>3, <2>1, <2>2, EnqueueStep
  <2>4. TypeOK'
    BY <1>1, <2>1, <2>3 DEF Inv, TypeOK, AcceptorTypeOK, connVars
  <2>5. Started'
    BY <1>1, <2>3, FunctorFacts DEF Inv, Started
  <2>6. ASSUME NEW d \in Conn, d # c PROVE Life(d)'
    <3>1. \A k \in Loop, g \in Functor :
            g[2] = d => (Waits(k, g)' <=> Waits(k, g))
      BY <2>3, <2>6, FunctorFacts
    <3> QED BY <1>1, <2>1, <2>6, <3>1, OtherLife DEF connVars
  <2>7. Life(c)'
    <3>1. \A k \in Loop :
            /\ Waits(k, Est(c))' <=> Waits(k, Est(c))
            /\ Waits(k, Des(c))' <=> Waits(k, Des(c)) \/ k = ioLoop[c]
            /\ Waits(k, Rem(c))' <=> Waits(k, Rem(c))
      BY <2>3, FunctorFacts
    <3> QED
      BY <1>1, <1>2, <1>3, <1>6, <2>1, <3>1
      DEF connVars, Life, Unused, Home, ToBeEstablished, Closed, Destroyed,
          Kept, KeptByMap
  <2> QED BY <1>4, <2>3, <2>4, <2>5, <2>6, <2>7 DEF Inv
<1> QED BY <1>5, <1>6

-----------------------------------------------------------------------------
LEMMA StutterInv == Inv /\ UNCHANGED vars => Inv'
<1> SUFFICES ASSUME Inv, UNCHANGED vars PROVE Inv'
  OBVIOUS
<1> USE DEF vars, startVars, serverVars, newVars, connVars, loopVars,
            acceptorVars
<1>1. \A l \in Loop, f \in Functor : Waits(l, f)' <=> Waits(l, f)
  BY DEF Waits
<1>2. TypeOK' /\ Bounded' /\ Quiet'
  BY DEF Inv, TypeOK, AcceptorTypeOK, Bounded, Quiet
<1>3. Started'
  BY <1>1, FunctorFacts DEF Inv, Started
<1>4. Queues' /\ \A c \in Conn : Life(c)'
  BY SameLife DEF lifeVars
<1> QED BY <1>2, <1>3, <1>4 DEF Inv

LEMMA InvInductive == Inv /\ [Next]_vars => Inv'
<1> SUFFICES ASSUME Inv, [Next]_vars PROVE Inv'
  OBVIOUS
<1>1. CASE UNCHANGED vars
  BY <1>1, StutterInv
<1>2. CASE \/ \E n \in 0 .. Len(Threads) : SetThreadNum(n)
           \/ StartHere \/ StartElsewhere \/ StartThread
  BY <1>2, StartInv
<1>3. CASE QueueListen
  BY <1>3, QueueListenInv
<1>4. CASE NewConnection
  BY <1>4, NewConnectionInv
<1>5. CASE \E l \in Loop, c \in Conn : HandleClose(l, c)
  BY <1>5, HandleCloseInv
<1>6. ASSUME NEW l \in Loop, LoopStep(l) PROVE Inv'
  <2>1. CASE CloseCallback(l) BY <2>1, CloseCallbackInv
  <2>2. CASE SwapFunctors(l) \/ EnterLoop(l) BY <2>2, SwapInv, EnterLoopInv
  <2>3. CASE RunListen(l) BY <2>3, RunListenInv
  <2>4. ASSUME NEW c \in Conn, RunOnConnection(l, c) PROVE Inv'
    <3>1. CASE /\ RunFunctor(l, <<"established", c>>) /\ ConnectEstablished(c)
               /\ UNCHANGED <<acceptorVars, connections_, pending, deadCall>>
      BY <3>1, RunEstablishedInv DEF Est
    <3>2. CASE /\ RunFunctor(l, <<"destroyed", c>>) /\ ConnectDestroyed(c)
               /\ UNCHANGED <<acceptorVars, connections_, pending, deadCall>>
      BY <3>2, RunDestroyedInv DEF Des
    <3>3. CASE /\ RunFunctor(l, <<"remove", c>>) /\ RemoveConnectionInLoop(c)
               /\ UNCHANGED <<acceptorVars, connVars>>
      BY <3>3, RunRemoveInv DEF Rem
    <3> QED BY <2>4, <3>1, <3>2, <3>3 DEF RunOnConnection
  <2>5. CASE EndFunctors(l) BY <2>5, EndFunctorsInv
  <2> QED BY <1>6, <2>1, <2>2, <2>3, <2>4, <2>5 DEF LoopStep
<1>7. CASE \/ ClientConnects \/ QuitBase \/ BeginDestroy \/ EndBody
           \/ QuitLoop \/ JoinLoop \/ EndDestroy
  BY <1>7, OtherInv
<1>8. CASE \E c \in Conn : DestroyConnection(c)
  BY <1>8, DestroyConnectionInv
<1> QED
  BY <1>1, <1>2, <1>3, <1>4, <1>5, <1>6, <1>7, <1>8
  DEF Next, StartStep, DestructorStep

(* The inductive invariant.  *)
THEOREM Invariance == Spec => []Inv
<1> QED BY InitInv, InvInductive, PTL DEF Spec

(* Every variable keeps to its values, and no loop has a batch at hand     *)
(* unless it runs functors (TcpServer.h:57-71).                            *)
THEOREM TypeCorrect == Spec => []TypeOK
<1>1. Inv => TypeOK
  BY DEF Inv
<1> QED BY <1>1, Invariance, PTL

(* However removal, ~TcpServer and close events interleave, no connection  *)
(* is destroyed twice (TcpServer.cc:32-43, 105-119).                       *)
THEOREM NoneIsDestroyedTwice == Spec => []DestroyedOnce
<1>1. Inv => DestroyedOnce
  BY DEF Inv, Life, Destroyed, DestroyedOnce
<1> QED BY <1>1, Invariance, PTL

(* No connectEstablished comes after the connectDestroyed of the same      *)
(* connection (TcpServer.cc:40, 101).                                      *)
THEOREM DestroyedIsTheEnd == Spec => []DestroyedStaysOut
<1>1. Inv => DestroyedStaysOut
  BY DEF Inv, Life, Destroyed, DestroyedStaysOut
<1> QED BY <1>1, Invariance, PTL

(* Something holds every connection whose Channel a poller knows, while    *)
(* its loop runs (TcpServer.cc:105-119, TcpConnection.cc:71-79).           *)
THEOREM PolledIsOwned == Spec => []OwnedWhileInPoller
<1>1. ASSUME Inv, NEW c \in Conn, index_[c] # "kNew", Running(ioLoop[c])
      PROVE  c \in Owned
  <2>1. c \in connections_ \/ Waits(ioLoop[c], Des(c))
    BY <1>1 DEF Inv, Life, Kept, Running
  <2>2. c # NoConn /\ Des(c)[2] = c /\ ioLoop[c] \in Loop
    BY FunctorFacts, <1>1 DEF Inv, TypeOK
  <2>3. CASE c \in connections_
    BY <2>2, <2>3 DEF Owned
  <2>4. CASE Waits(ioLoop[c], Des(c))
    <3>1. c \in OwnedBy(pending[ioLoop[c]]) \cup OwnedBy(batch[ioLoop[c]])
      BY <2>2, <2>4 DEF Waits, Waiting, OwnedBy
    <3> QED BY <2>2, <3>1 DEF Owned
  <2> QED BY <2>1, <2>3, <2>4
<1>2. Inv => OwnedWhileInPoller
  BY <1>1 DEF OwnedWhileInPoller
<1> QED BY <1>2, Invariance, PTL

(* A server that never made an I/O thread leaves nothing behind that would *)
(* call it (TcpServer.cc:98, 108).                                         *)
THEOREM DeadServerIsNotCalled == Spec => []NoCallOnDeadServer
<1>1. Inv => NoCallOnDeadServer
  BY DEF Inv, Started, NoCallOnDeadServer
<1> QED BY <1>1, Invariance, PTL

-----------------------------------------------------------------------------
(* getNextLoop.  *)

LEMMA GivenFacts ==
  ASSUME TypeOK, NEW m
  PROVE  IsFiniteSet(Given(m)) /\ Cardinality(Given(m)) \in Nat
<1>1. IsFiniteSet(1 .. nextConnId_ - 1)
  BY FS_Interval DEF TypeOK
<1>2. Given(m) \subseteq 1 .. nextConnId_ - 1
  BY DEF Given
<1> QED BY <1>1, <1>2, FS_Subset, FS_CardinalityType

LEMMA NoneGiven ==
  ASSUME nextConnId_ = 1, NEW m
  PROVE  Cardinality(Given(m)) = 0
<1>1. Given(m) = {}
  BY DEF Given
<1> QED BY <1>1, FS_EmptySet

(* The next I/O loop gets one more. *)
LEMMA OneGiven ==
  ASSUME Inv, NewConnection, NEW m
  PROVE  Cardinality(Given(m)')
           = Cardinality(Given(m)) + IF m = GetNextLoop(next_)[1] THEN 1 ELSE 0
<1> DEFINE n == nextConnId_
           k == GetNextLoop(next_)[1]
<1>1. /\ n \in Nat /\ n \in Conn /\ nextConnId_' = n + 1
      /\ ioLoop \in [Conn -> Loop] /\ ioLoop' = [ioLoop EXCEPT ![n] = k]
  BY TcpServerAssumption
  DEF Inv, TypeOK, AcceptorTypeOK, Bounded, NewConnection, Accept, Conn
<1>2. 1 .. n \subseteq Conn
  BY <1>1, TcpServerAssumption DEF Conn
<1> HIDE DEF n, k
<1>3. \A c \in 1 .. n - 1 : ioLoop'[c] = ioLoop[c]
  BY <1>1, <1>2
<1>4. /\ ioLoop'[n] = k /\ n \notin 1 .. n - 1
      /\ 1 .. (n + 1) - 1 = (1 .. n - 1) \cup {n}
  <2>1. ioLoop'[n] = k
    BY <1>1
  <2>2. n >= 1
    BY <1>1 DEF Conn
  <2> QED BY <1>1, <2>1, <2>2
<1>5. /\ Given(m) = {c \in 1 .. n - 1 : ioLoop[c] = m}
      /\ Given(m)' = {c \in 1 .. (n + 1) - 1 : ioLoop'[c] = m}
  BY <1>1 DEF Given, n
<1>6. /\ IsFiniteSet(Given(m)) /\ n \notin Given(m)
      /\ Cardinality(Given(m)) \in Nat
  BY <1>4, <1>5, GivenFacts DEF Inv
<1>7. CASE m = k
  <2>1. Given(m)' = Given(m) \cup {n}
    BY <1>3, <1>4, <1>5, <1>7
  <2>2. Cardinality(Given(m) \cup {n}) = Cardinality(Given(m)) + 1
    BY <1>6, FS_AddElement
  <2> QED BY <1>7, <2>1, <2>2 DEF k
<1>8. CASE m # k
  <2>1. Given(m)' = Given(m)
    BY <1>3, <1>4, <1>5, <1>8
  <2> QED BY <1>6, <1>8, <2>1 DEF k
<1> QED BY <1>7, <1>8

LEMMA InTurnInductive == Inv /\ InTurn /\ [Next]_vars => InTurn'
<1> SUFFICES ASSUME Inv, InTurn, [Next]_vars, loops_' # <<>> PROVE InTurn'
  BY DEF InTurn
<1>1. CASE NewConnection
  <2>1. loops_' = loops_ /\ loops_ # <<>>
    BY <1>1 DEF NewConnection, startVars
  <2>2. PICK q \in Nat : \A i \in 1 .. Len(loops_) :
          Cardinality(Given(loops_[i])) = q + IF i <= next_ THEN 1 ELSE 0
    BY <2>1 DEF InTurn
  <2>3. /\ next_ \in Nat /\ next_ < Len(loops_) /\ Len(loops_) \in Nat
        /\ loops_ \in Seq(ToSet(Threads))
    BY <2>1 DEF Inv, TypeOK
  <2>4. /\ GetNextLoop(next_)[1] = loops_[next_ + 1]
        /\ next_' = IF next_ + 1 >= Len(loops_) THEN 0 ELSE next_ + 1
    BY <1>1, <2>1 DEF NewConnection, GetNextLoop
  <2>5. \A i, j \in 1 .. Len(loops_) : loops_[i] = loops_[j] => i = j
    <3>1. /\ \A i \in 1 .. Len(loops_) : loops_[i] = Threads[i]
          /\ Len(loops_) <= Len(Threads) /\ Len(Threads) \in Nat
      BY TcpServerAssumption DEF Inv, TypeOK
    <3> QED BY <2>3, <3>1, TcpServerAssumption
  <2>6. \A m : Cardinality({c \in 1 .. nextConnId_' - 1 : ioLoop'[c] = m})
                 = Cardinality(Given(m))
                     + IF m = loops_[next_ + 1] THEN 1 ELSE 0
    BY <1>1, <2>4, OneGiven DEF Given
  <2>7. \A i \in 1 .. Len(loops_) :
          Cardinality({c \in 1 .. nextConnId_' - 1 : ioLoop'[c] = loops_[i]})
            = q + IF i <= next_ + 1 THEN 1 ELSE 0
    <3> SUFFICES ASSUME NEW i \in 1 .. Len(loops_)
                 PROVE  Cardinality({c \in 1 .. nextConnId_' - 1 :
                                       ioLoop'[c] = loops_[i]})
                          = q + IF i <= next_ + 1 THEN 1 ELSE 0
      OBVIOUS
    <3>1. loops_[i] = loops_[next_ + 1] <=> i = next_ + 1
      BY <2>3, <2>5
    <3>2. Cardinality(Given(loops_[i])) = q + IF i <= next_ THEN 1 ELSE 0
      BY <2>2
    <3> QED BY <2>3, <2>6, <3>1, <3>2
  <2>8. CASE next_ + 1 >= Len(loops_)
    <3>1. q + 1 \in Nat /\ next_' = 0
      BY <2>4, <2>8
    <3>2. \A i \in 1 .. Len(loops_) :
            Cardinality({c \in 1 .. nextConnId_' - 1 : ioLoop'[c] = loops_[i]})
              = (q + 1) + IF i <= next_' THEN 1 ELSE 0
      BY <2>3, <2>7, <2>8, <3>1
    <3> QED BY <2>1, <3>1, <3>2 DEF InTurn, Given
  <2>9. CASE ~(next_ + 1 >= Len(loops_))
    <3>1. \A i \in 1 .. Len(loops_) :
            Cardinality({c \in 1 .. nextConnId_' - 1 : ioLoop'[c] = loops_[i]})
              = q + IF i <= next_' THEN 1 ELSE 0
      BY <2>4, <2>7, <2>9
    <3> QED BY <2>1, <3>1 DEF InTurn, Given
  <2> QED BY <2>8, <2>9
<1>2. CASE StartHere \/ StartThread
  <2>1. nextConnId_ = 1 /\ next_ = 0 /\ UNCHANGED <<nextConnId_, next_, ioLoop>>
    <3>1. ~started_ \/ starting
      BY <1>2 DEF StartHere, StartThread
    <3>2. nextConnId_ = 1 /\ next_ = 0
      BY <3>1 DEF Inv, Started
    <3> QED BY <1>2, <3>2 DEF StartHere, StartThread, newVars
  <2>2. \A m : Cardinality({c \in 1 .. nextConnId_' - 1 : ioLoop'[c] = m}) = 0
    BY <2>1, NoneGiven DEF Given
  <2>3. \A i \in 1 .. Len(loops_') :
          Cardinality({c \in 1 .. nextConnId_' - 1 : ioLoop'[c] = loops_'[i]})
            = 0 + IF i <= next_' THEN 1 ELSE 0
    BY <2>1, <2>2
  <2> QED BY <2>3 DEF InTurn, Given
<1>3. CASE UNCHANGED <<loops_, nextConnId_, next_, ioLoop>>
  BY <1>3 DEF InTurn, Given
<1>4. \/ NewConnection \/ StartHere \/ StartThread
      \/ UNCHANGED <<loops_, nextConnId_, next_, ioLoop>>
  <2> USE DEF startVars, serverVars, newVars
  <2>1. CASE UNCHANGED vars BY <2>1 DEF vars
  <2>2. CASE \/ \E n \in 0 .. Len(Threads) : SetThreadNum(n)
             \/ StartElsewhere \/ QueueListen \/ ClientConnects
             \/ QuitBase \/ BeginDestroy
    BY <2>2 DEF SetThreadNum, StartElsewhere, QueueListen, ClientConnects,
                QuitBase, BeginDestroy
  <2>3. CASE \E l \in Loop, c \in Conn : HandleClose(l, c)
    BY <2>3 DEF HandleClose
  <2>4. CASE \E l \in Loop : LoopStep(l)
    <3>1. PICK l \in Loop : LoopStep(l)
      BY <2>4
    <3>2. CASE \/ EnterLoop(l) \/ CloseCallback(l) \/ SwapFunctors(l)
               \/ EndFunctors(l)
      BY <3>2 DEF EnterLoop, CloseCallback, SwapFunctors, EndFunctors
    <3>3. CASE RunListen(l)
      BY <3>3 DEF RunListen, RunFunctor
    <3>4. CASE \E c \in Conn : RunOnConnection(l, c)
      BY <3>4 DEF RunOnConnection, RunFunctor
    <3> QED BY <3>1, <3>2, <3>3, <3>4 DEF LoopStep
  <2>5. CASE DestructorStep
    BY <2>5 DEF DestructorStep, DestroyConnection, EndBody, QuitLoop,
                JoinLoop, EndDestroy
  <2> QED BY <2>1, <2>2, <2>3, <2>4, <2>5 DEF Next, StartStep
<1> QED BY <1>1, <1>2, <1>3, <1>4

LEMMA InTurnMeansRoundRobin == Inv /\ InTurn => RoundRobin
<1> SUFFICES ASSUME Inv, InTurn,
                    NEW k \in ToSet(loops_), NEW l \in ToSet(loops_)
             PROVE  Cardinality(Given(k)) <= Cardinality(Given(l)) + 1
  BY DEF RoundRobin, Given
<1>1. loops_ \in Seq(ToSet(Threads)) /\ next_ \in Nat
  BY DEF Inv, TypeOK
<1>2. PICK i \in 1 .. Len(loops_), j \in 1 .. Len(loops_) :
        loops_[i] = k /\ loops_[j] = l
  BY <1>1, ToSetMember
<1>3. loops_ # <<>>
  BY <1>1, <1>2
<1>4. PICK q \in Nat : \A h \in 1 .. Len(loops_) :
        Cardinality(Given(loops_[h])) = q + IF h <= next_ THEN 1 ELSE 0
  BY <1>3 DEF InTurn
<1>5. /\ Cardinality(Given(k)) = q + IF i <= next_ THEN 1 ELSE 0
      /\ Cardinality(Given(l)) = q + IF j <= next_ THEN 1 ELSE 0
  BY <1>2, <1>4
<1> QED BY <1>1, <1>5

(* No I/O loop is given two connections more than another, however the     *)
(* steps of start() interleave with clients (EventLoopThreadPool.cc:18-49, *)
(* TcpServer.cc:45-59).                                                    *)
THEOREM LoopsTakeTurns == Spec => []RoundRobin
<1>1. Init => InTurn
  BY DEF Init, InTurn
<1>2. InTurn /\ UNCHANGED vars => InTurn'
  BY DEF vars, startVars, newVars, InTurn, Given
<1> QED
  BY <1>1, <1>2, Invariance, InTurnInductive, InTurnMeansRoundRobin, PTL
  DEF Spec
=============================================================================

------------------------- MODULE EPollPollerProofs --------------------------
(***************************************************************************)
(* EPollPoller keeps its books straight, for any number of channels and    *)
(* descriptors and any sequence of calls.  The invariants of               *)
(* EPollPollerProps need only one fact more to be inductive together: two  *)
(* channels that exist have different descriptors.                         *)
(***************************************************************************)
EXTENDS EPollPollerProps, TLAPS

DistinctFds ==
  \A c, d \in Channel : Alive(c) /\ fd_[c] = fd_[d] => c = d

Inv == TypeOK /\ DistinctFds /\ ViewsAgree /\ NothingLeftBehind

(* An entry of the epoll set belongs to a channel that exists. *)
LEMMA EntryOwner ==
  ASSUME Inv, NEW f \in Fd, epoll[f] # NotInSet
  PROVE  /\ epoll[f].ptr \in Channel
         /\ fd_[epoll[f].ptr] = f
<1>1. PICK c \in Channel : fd_[c] = f
  BY DEF Inv, NothingLeftBehind
<1>2. Alive(c)
  BY <1>1, EPollPollerAssumption DEF Alive
<1>3. epoll[f] = [ptr |-> c, events |-> events_[c]]
  BY <1>1, <1>2 DEF Inv, ViewsAgree
<1> QED BY <1>1, <1>3

(* An entry of the epoll set is told from no entry by its data.ptr. *)
LEMMA EntryIsEntry ==
  ASSUME NEW c \in Channel, NEW E
  PROVE  [ptr |-> c, events |-> E] # NotInSet
<1>1. c # None
  BY EPollPollerAssumption
<1>2. [ptr |-> c, events |-> E].ptr = c /\ NotInSet.ptr = None
  BY DEF NotInSet
<1> QED BY <1>1, <1>2

(* What Channel::update does to a channel that exists: it never fails, and *)
(* the three views of the channel still agree (EPollPoller.cc:73-100).     *)
LEMMA UpdateKeepsInv ==
  ASSUME Inv, NEW c \in Channel, Alive(c),
         NEW events \in SUBSET {"in", "out"},
         Update(c, events), UNCHANGED objectVars
  PROVE  /\ Inv'
         /\ ~fatal => ~fatal'
         /\ \A d \in Channel : index_[d] # "kNew" => index_'[d] # "kNew"
<1> USE DEF Inv, TypeOK, Entry, NotInSet, objectVars
<1>1. fd_[c] \in Fd
  BY DEF Alive
<1> DEFINE added == [ptr |-> c, events |-> events]
<1>2. added \in Entry /\ NotInSet \in Entry
  OBVIOUS
<1>3. /\ events_' = [events_ EXCEPT ![c] = events]
      /\ channels_' = [channels_ EXCEPT ![fd_[c]] = c]
      /\ \/ /\ index_' = [index_ EXCEPT ![c] = "kAdded"]
            /\ epoll' = [epoll EXCEPT ![fd_[c]] = added]
         \/ /\ index_' = [index_ EXCEPT ![c] = "kDeleted"]
            /\ epoll' = [epoll EXCEPT ![fd_[c]] = NotInSet]
      /\ fatal' = FALSE \/ fatal' = fatal
  <2>1. index_[c] \in {"kNew", "kDeleted"} => epoll[fd_[c]] = NotInSet
    BY DEF ViewsAgree
  <2>2. index_[c] = "kAdded" => epoll[fd_[c]] # NotInSet
    <3>1. index_[c] = "kAdded" =>
            epoll[fd_[c]] = [ptr |-> c, events |-> events_[c]]
      BY DEF ViewsAgree
    <3> HIDE DEF Inv, TypeOK, Entry, NotInSet
    <3>2. [ptr |-> c, events |-> events_[c]] # NotInSet
      BY EntryIsEntry
    <3> QED BY <3>1, <3>2, Zenon
  <2>3. index_[c] # "kNew" => channels_ = [channels_ EXCEPT ![fd_[c]] = c]
    <3>1. index_[c] # "kNew" => channels_[fd_[c]] = c
      BY DEF ViewsAgree
    <3> QED BY <1>1, <3>1
  <2>4. CASE index_[c] = "kNew"
    BY <2>1, <2>4 DEF Update, Add
  <2>5. CASE index_[c] = "kDeleted"
    BY <2>1, <2>3, <2>5 DEF Update, Add
  <2>6. CASE index_[c] = "kAdded" /\ events = {}
    BY <2>3, <2>6 DEF Update, Del
  <2>7. CASE index_[c] = "kAdded" /\ events # {}
    <3>1. index_ = [index_ EXCEPT ![c] = "kAdded"]
      BY <2>7
    <3> QED BY <2>2, <2>3, <2>7, <3>1 DEF Update, Mod
  <2> QED BY <2>4, <2>5, <2>6, <2>7
<1>4. TypeOK'
  <2>1. channels_' \in [Fd -> Channel \cup {None}]
    BY <1>1, <1>3
  <2>2. epoll' \in [Fd -> Entry]
    BY <1>1, <1>2, <1>3
  <2>3. events_' \in [Channel -> SUBSET {"in", "out"}]
    BY <1>3
  <2>4. index_' \in [Channel -> {"kNew", "kAdded", "kDeleted"}]
    BY <1>3
  <2>5. fatal' \in BOOLEAN
    BY <1>3, Zenon
  <2> QED BY <2>1, <2>2, <2>3, <2>4, <2>5
<1>5. DistinctFds'
  BY DEF DistinctFds, Alive
<1>6. ViewsAgree'
  <2> SUFFICES ASSUME NEW d \in Channel, Alive(d)'
               PROVE  /\ channels_'[fd_[d]]
                           = IF index_'[d] = "kNew" THEN None ELSE d
                      /\ epoll'[fd_[d]]
                           = IF index_'[d] = "kAdded"
                             THEN [ptr |-> d, events |-> events_'[d]]
                             ELSE NotInSet
    BY DEF ViewsAgree
  <2>1. Alive(d) /\ fd_[d] \in Fd
    BY DEF Alive
  <2>2. CASE d = c
    BY <1>1, <1>3, <2>2
  <2>3. CASE d # c
    <3>1. fd_[d] # fd_[c]
      BY <2>1, <2>3 DEF DistinctFds
    <3>2. /\ channels_'[fd_[d]] = channels_[fd_[d]]
          /\ epoll'[fd_[d]] = epoll[fd_[d]]
          /\ index_'[d] = index_[d]
          /\ events_'[d] = events_[d]
      BY <1>3, <2>1, <2>3, <3>1
    <3> QED BY <2>1, <3>2 DEF ViewsAgree
  <2> QED BY <2>2, <2>3
<1>7. NothingLeftBehind'
  <2> SUFFICES ASSUME NEW f \in Fd, \A d \in Channel : fd_[d] # f
               PROVE  channels_'[f] = None /\ epoll'[f] = NotInSet
    BY DEF NothingLeftBehind
  <2>1. f # fd_[c]
    OBVIOUS
  <2> QED BY <1>3, <2>1 DEF NothingLeftBehind
<1>8. ~fatal => ~fatal'
  BY <1>3, Zenon
<1>9. \A d \in Channel : index_[d] # "kNew" => index_'[d] # "kNew"
  BY <1>3
<1> QED BY <1>4, <1>5, <1>6, <1>7, <1>8, <1>9

-----------------------------------------------------------------------------
(* The rest of the invariant.  An active channel cannot be destroyed,      *)
(* because it is not removed before all of them are handled.               *)
Safe ==
  /\ NeverFatal
  /\ \A c \in activeChannels_ : Alive(c) /\ index_[c] # "kNew"

(* The invariant holds when the loop is made, and every call on a channel, *)
(* every move of an owner and every step of the loop keeps it.             *)
THEOREM InvHolds == Spec => [](Inv /\ Safe)
<1> USE EPollPollerAssumption
<1>1. Init => Inv /\ Safe
  <2> SUFFICES ASSUME Init PROVE Inv /\ Safe
    OBVIOUS
  <2>1. \A c \in Channel : ~Alive(c)
    BY DEF Init, Alive
  <2>2. NotInSet \in Entry
    BY DEF NotInSet, Entry
  <2>3. fatal = FALSE /\ listSize \in Nat \ {0}
    BY DEF Init
  <2>4. TypeOK
    BY <2>2, <2>3 DEF Init, TypeOK
  <2>5. DistinctFds /\ ViewsAgree
    BY <2>1 DEF DistinctFds, ViewsAgree
  <2>6. NothingLeftBehind
    BY DEF Init, NothingLeftBehind
  <2>7. Safe
    BY <2>1, <2>3 DEF Init, Safe, NeverFatal
  <2> QED BY <2>4, <2>5, <2>6, <2>7 DEF Inv
<1>2. Inv /\ Safe /\ [Next]_vars => (Inv /\ Safe)'
  <2> SUFFICES ASSUME Inv, Safe, [Next]_vars PROVE Inv' /\ Safe'
    OBVIOUS
  <2>update. ASSUME NEW c \in Channel, Alive(c),
                    NEW events \in SUBSET {"in", "out"},
                    Update(c, events), UNCHANGED objectVars
             PROVE  Inv' /\ Safe'
    <3>1. /\ Inv'
          /\ ~fatal => ~fatal'
          /\ \A d \in Channel : index_[d] # "kNew" => index_'[d] # "kNew"
      BY <2>update, UpdateKeepsInv
    <3>2. activeChannels_ \subseteq Channel
      BY DEF Inv, TypeOK
    <3> QED BY <2>update, <3>1, <3>2 DEF Safe, NeverFatal, objectVars, Alive
  <2>1. ASSUME NEW c \in Channel, NEW event \in {"in", "out"},
               Enable(c, event)
        PROVE  Inv' /\ Safe'
    <3>1. events_[c] \cup {event} \in SUBSET {"in", "out"}
      BY DEF Inv, TypeOK
    <3> QED BY <2>1, <2>update, <3>1 DEF Enable
  <2>2. ASSUME NEW c \in Channel, NEW event \in {"in", "out"},
               Disable(c, event)
        PROVE  Inv' /\ Safe'
    <3>1. events_[c] \ {event} \in SUBSET {"in", "out"}
      BY DEF Inv, TypeOK
    <3> QED BY <2>2, <2>update, <3>1 DEF Disable
  <2>3. ASSUME NEW c \in Channel, DisableAll(c) PROVE Inv' /\ Safe'
    BY <2>3, <2>update DEF DisableAll
  <2>4. ASSUME NEW c \in Channel, RemoveChannel(c) PROVE Inv' /\ Safe'
    <3>1. fd_[c] \in Fd
      BY <2>4 DEF RemoveChannel, Alive, Inv, TypeOK
    <3>2. /\ channels_' = [channels_ EXCEPT ![fd_[c]] = None]
          /\ index_' = [index_ EXCEPT ![c] = "kNew"]
          /\ epoll' = [epoll EXCEPT ![fd_[c]] = NotInSet]
          /\ UNCHANGED <<objectVars, events_, fatal>>
      <4>1. CASE index_[c] = "kAdded"
        BY <2>4, <4>1 DEF RemoveChannel, Del
      <4>2. CASE index_[c] # "kAdded"
        <5>1. epoll[fd_[c]] = NotInSet
          BY <2>4, <4>2 DEF RemoveChannel, Inv, ViewsAgree
        <5>2. epoll = [epoll EXCEPT ![fd_[c]] = NotInSet]
          BY <3>1, <5>1 DEF Inv, TypeOK
        <5> QED BY <2>4, <4>2, <5>2 DEF RemoveChannel
      <4> QED BY <4>1, <4>2
    <3>3. TypeOK'
      BY <3>1, <3>2 DEF Inv, TypeOK, Entry, NotInSet, objectVars
    <3>4. DistinctFds'
      BY <3>2 DEF Inv, DistinctFds, Alive, objectVars
    <3>5. ViewsAgree'
      BY <2>4, <3>1, <3>2
         DEF Inv, TypeOK, ViewsAgree, DistinctFds, Alive, objectVars
    <3>6. NothingLeftBehind'
      BY <3>1, <3>2 DEF Inv, TypeOK, NothingLeftBehind, objectVars
    <3>7. Safe'
      <4>1. activeChannels_ = {}
        BY <2>4 DEF RemoveChannel, Inv, TypeOK
      <4> QED BY <3>2, <4>1 DEF Safe, NeverFatal, objectVars
    <3> QED BY <3>3, <3>4, <3>5, <3>6, <3>7 DEF Inv
  <2>5. ASSUME NEW c \in Channel, NEW f \in Fd, Construct(c, f)
        PROVE  Inv' /\ Safe'
    <3>1. /\ channels_[f] = None
          /\ epoll[f] = NotInSet
          /\ \A d \in Channel : fd_[d] # f
      BY <2>5 DEF Construct, Inv, NothingLeftBehind
    <3>2. /\ fd_' = [fd_ EXCEPT ![c] = f]
          /\ events_' = [events_ EXCEPT ![c] = {}]
          /\ index_' = [index_ EXCEPT ![c] = "kNew"]
          /\ fd_[c] = None
          /\ UNCHANGED <<channels_, epoll, listSize, activeChannels_, phase,
                         fatal>>
      BY <2>5 DEF Construct, Alive
    <3>3. TypeOK'
      BY <3>2 DEF Inv, TypeOK
    <3>4. DistinctFds'
      BY <3>1, <3>2 DEF Inv, TypeOK, DistinctFds, Alive
    <3>5. ViewsAgree'
      BY <3>1, <3>2 DEF Inv, TypeOK, ViewsAgree, Alive
    <3>6. NothingLeftBehind'
      BY <3>2 DEF Inv, TypeOK, NothingLeftBehind
    <3>7. Safe'
      BY <3>2 DEF Inv, TypeOK, Safe, NeverFatal, Alive
    <3> QED BY <3>3, <3>4, <3>5, <3>6, <3>7 DEF Inv
  <2>6. ASSUME NEW c \in Channel, Destroy(c) PROVE Inv' /\ Safe'
    <3>1. fd_[c] \in Fd
      BY <2>6 DEF Destroy, Alive, Inv, TypeOK
    <3>2. /\ fd_' = [fd_ EXCEPT ![c] = None]
          /\ epoll' = [epoll EXCEPT ![fd_[c]] = NotInSet]
          /\ UNCHANGED <<events_, index_, channels_, listSize,
                         activeChannels_, phase, fatal>>
      BY <2>6 DEF Destroy
    <3>3. channels_[fd_[c]] = None /\ c \notin activeChannels_
      BY <2>6 DEF Destroy, Inv, ViewsAgree, Safe
    <3>4. TypeOK'
      BY <3>1, <3>2 DEF Inv, TypeOK, Entry, NotInSet
    <3>5. DistinctFds'
      BY <3>2 DEF Inv, TypeOK, DistinctFds, Alive
    <3>6. ViewsAgree'
      BY <3>1, <3>2 DEF Inv, TypeOK, ViewsAgree, DistinctFds, Alive
    <3>7. NothingLeftBehind'
      BY <3>1, <3>2, <3>3 DEF Inv, TypeOK, NothingLeftBehind
    <3>8. Safe'
      <4>1. activeChannels_ \subseteq Channel
        BY DEF Inv, TypeOK
      <4> QED BY <3>2, <3>3, <4>1 DEF Inv, TypeOK, Safe, NeverFatal, Alive
    <3> QED BY <3>4, <3>5, <3>6, <3>7, <3>8 DEF Inv
  <2>7. ASSUME NEW F \in SUBSET Fd, Poll(F) PROVE Inv' /\ Safe'
    <3>1. \A f \in F : /\ epoll[f].ptr \in Channel
                        /\ Alive(epoll[f].ptr)
                        /\ index_[epoll[f].ptr] # "kNew"
      <4> SUFFICES ASSUME NEW f \in F
                   PROVE  /\ epoll[f].ptr \in Channel
                          /\ Alive(epoll[f].ptr)
                          /\ index_[epoll[f].ptr] # "kNew"
        OBVIOUS
      <4>1. /\ epoll[f] # NotInSet
            /\ epoll[f].ptr \in Channel
            /\ fd_[epoll[f].ptr] = f
        BY <2>7, EntryOwner DEF Poll
      <4>2. Alive(epoll[f].ptr)
        BY <4>1 DEF Alive
      <4> QED BY <4>1, <4>2 DEF Inv, ViewsAgree
    <3>2. /\ activeChannels_' \in SUBSET Channel
          /\ \A c \in activeChannels_' : Alive(c) /\ index_[c] # "kNew"
      BY <2>7, <3>1 DEF Poll, FillActiveChannels
    <3>3. listSize' \in Nat \ {0}
      BY <2>7 DEF Poll, Inv, TypeOK
    <3>4. phase' = "handle"
          /\ UNCHANGED <<fd_, events_, index_, channels_, epoll, fatal>>
      BY <2>7 DEF Poll
    <3> QED
      BY <3>2, <3>3, <3>4
         DEF Inv, TypeOK, DistinctFds, ViewsAgree, NothingLeftBehind, Safe,
             NeverFatal, Alive
  <2> USE DEF Inv, TypeOK, DistinctFds, ViewsAgree, NothingLeftBehind, Safe,
              NeverFatal, Alive
  <2>8. ASSUME NEW c \in Channel, Handled(c) PROVE Inv' /\ Safe'
    BY <2>8 DEF Handled
  <2>9. CASE DoPendingFunctors BY <2>9 DEF DoPendingFunctors
  <2>10. CASE DoneFunctors BY <2>10 DEF DoneFunctors
  <2>11. CASE UNCHANGED vars BY <2>11 DEF vars
  <2> HIDE DEF Inv, TypeOK, DistinctFds, ViewsAgree, NothingLeftBehind, Safe,
               NeverFatal, Alive
  <2> QED
    BY <2>1, <2>2, <2>3, <2>4, <2>5, <2>6, <2>7, <2>8, <2>9, <2>10, <2>11
       DEF Next
<1> QED BY <1>1, <1>2, PTL DEF Spec

(* Type correctness of the channels and of both tables of descriptors      *)
(* (EPollPoller.cc:73-151).                                                *)
THEOREM TypeCorrect == Spec => []TypeOK
BY InvHolds, PTL DEF Inv

(* No sequence of channel operations makes the process exit in epoll_ctl   *)
(* (EPollPoller.cc:128-151).                                               *)
THEOREM NeverFatalHolds == Spec => []NeverFatal
<1>1. Inv /\ Safe => NeverFatal
  BY DEF Safe
<1> QED BY <1>1, InvHolds, PTL

(* The index_ of a channel, channels_ and the epoll set always agree       *)
(* (EPollPoller.cc:73-116).                                                *)
THEOREM ViewsAgreeHolds == Spec => []ViewsAgree
<1>1. Inv /\ Safe => ViewsAgree
  BY DEF Inv
<1> QED BY <1>1, InvHolds, PTL

(* A descriptor nobody has is in neither (EPollPoller.cc:103-116). *)
THEOREM NothingLeftBehindHolds == Spec => []NothingLeftBehind
<1>1. Inv /\ Safe => NothingLeftBehind
  BY DEF Inv
<1> QED BY <1>1, InvHolds, PTL

(* loop() never calls handleEvent on a channel that has been destroyed     *)
(* (EventLoop.cc:75-79): channels are removed between batches of events,   *)
(* and destroyed after that.                                               *)
THEOREM NoDanglingChannelHolds == Spec => []NoDanglingChannel
<1>1. Inv /\ Safe => NoDanglingChannel
  BY EntryOwner DEF NoDanglingChannel, Safe
<1> QED BY <1>1, InvHolds, PTL
=============================================================================

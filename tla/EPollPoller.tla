---------------------------- MODULE EPollPoller -----------------------------
(***************************************************************************)
(* The channels of one EventLoop and its EPollPoller: what the Channel     *)
(* objects say about themselves (events_, index_), what the poller keeps   *)
(* (channels_, events_.size()), and what the kernel was told.  All of it   *)
(* is touched by the loop's thread only; the interest is in long sequences *)
(* of calls, made while activeChannels_ is being worked through, and in    *)
(* file descriptors that are closed and handed out again.                  *)
(*                                                                         *)
(* Channels are made and destroyed by their owners, in whatever thread: a  *)
(* TcpConnection is constructed by the base loop and goes with its last    *)
(* shared_ptr.  Before that TcpConnection::connectDestroyed, a functor     *)
(* TcpServer queues for the purpose, has removed the channel from its      *)
(* poller, between batches of events and never in the middle of one.       *)
(***************************************************************************)
EXTENDS Naturals, FiniteSets

CONSTANTS
  Channel,              \* the Channel objects
  Fd,                   \* file descriptors
  None,                 \* neither
  kInitEventListSize    \* the first size of events_

ASSUME EPollPollerAssumption ==
  /\ None \notin Channel \cup Fd
  /\ kInitEventListSize \in Nat \ {0}

VARIABLES
  fd_,             \* Channel::fd_; None while the object does not exist
  events_,         \* Channel::events_
  index_,          \* Channel::index_
  channels_,       \* Poller::channels_, None where there is no entry
  epoll,           \* the epoll set: per descriptor data.ptr and events
  listSize,        \* EPollPoller::events_.size()
  activeChannels_, \* what the last poll reported and is not yet handled
  phase,           \* where loop() is
  fatal            \* epoll_ctl failed to add or modify: LOG_FATAL exits

vars == <<fd_, events_, index_, channels_, epoll, listSize, activeChannels_,
          phase, fatal>>

objectVars == <<fd_, listSize, activeChannels_, phase>>

Alive(c) == fd_[c] # None
NotInSet == [ptr |-> None, events |-> {}]
Entry == [ptr : Channel \cup {None}, events : SUBSET {"in", "out"}]

TypeOK ==
  /\ fd_ \in [Channel -> Fd \cup {None}]
  /\ events_ \in [Channel -> SUBSET {"in", "out"}]
  /\ index_ \in [Channel -> {"kNew", "kAdded", "kDeleted"}]
  /\ channels_ \in [Fd -> Channel \cup {None}]
  /\ epoll \in [Fd -> Entry]
  /\ listSize \in Nat \ {0}
  /\ activeChannels_ \in SUBSET Channel
  /\ phase \in {"poll", "handle", "functors"}
  /\ activeChannels_ # {} => phase = "handle"
  /\ fatal \in BOOLEAN

Init ==
  /\ fd_ = [c \in Channel |-> None]
  /\ events_ = [c \in Channel |-> {}]
  /\ index_ = [c \in Channel |-> "kNew"]
  /\ channels_ = [f \in Fd |-> None]
  /\ epoll = [f \in Fd |-> NotInSet]
  /\ listSize = kInitEventListSize
  /\ activeChannels_ = {}
  /\ phase = "functors"
  /\ fatal = FALSE

Running == ~fatal /\ phase # "poll"

-----------------------------------------------------------------------------
(* EPollPoller::update, that is epoll_ctl(operation, fd, events, channel). *)
(* Adding what is there and changing what is not there are errors, and     *)
(* fatal; an unsuccessful removal is logged.                               *)

Add(f, c, events) ==
  /\ fatal' = (epoll[f] # NotInSet)
  /\ epoll' = IF epoll[f] = NotInSet
              THEN [epoll EXCEPT ![f] = [ptr |-> c, events |-> events]]
              ELSE epoll

Mod(f, c, events) ==
  /\ fatal' = (epoll[f] = NotInSet)
  /\ epoll' = IF epoll[f] # NotInSet
              THEN [epoll EXCEPT ![f] = [ptr |-> c, events |-> events]]
              ELSE epoll

Del(f) ==
  /\ epoll' = [epoll EXCEPT ![f] = NotInSet]
  /\ UNCHANGED fatal

(* Mutant: a channel that was taken out of the epoll set is modified.      *)
UpdateDeletedAsAdded(c, events) ==
  /\ events_' = [events_ EXCEPT ![c] = events]
  /\ \/ /\ index_[c] = "kNew"
        /\ channels_' = [channels_ EXCEPT ![fd_[c]] = c]
        /\ index_' = [index_ EXCEPT ![c] = "kAdded"]
        /\ Add(fd_[c], c, events)
     \/ /\ index_[c] # "kNew" /\ events = {}
        /\ Del(fd_[c])
        /\ index_' = [index_ EXCEPT ![c] = "kDeleted"]
        /\ UNCHANGED channels_
     \/ /\ index_[c] # "kNew" /\ events # {}
        /\ Mod(fd_[c], c, events)
        /\ UNCHANGED <<index_, channels_>>

(* Channel::update, EPollPoller::updateChannel.  The first two cases add   *)
(* the channel whatever it is interested in, be it nothing.                *)
Update(c, events) ==
  /\ events_' = [events_ EXCEPT ![c] = events]
  /\ \/ /\ index_[c] = "kNew"
        /\ channels_' = [channels_ EXCEPT ![fd_[c]] = c]
        /\ index_' = [index_ EXCEPT ![c] = "kAdded"]
        /\ Add(fd_[c], c, events)
     \/ /\ index_[c] = "kDeleted"
        /\ index_' = [index_ EXCEPT ![c] = "kAdded"]
        /\ Add(fd_[c], c, events)
        /\ UNCHANGED channels_
     \/ /\ index_[c] = "kAdded" /\ events = {}
        /\ Del(fd_[c])
        /\ index_' = [index_ EXCEPT ![c] = "kDeleted"]
        /\ UNCHANGED channels_
     \/ /\ index_[c] = "kAdded" /\ events # {}
        /\ Mod(fd_[c], c, events)
        /\ UNCHANGED <<index_, channels_>>

(* enableReading, disableReading, enableWriting, disableWriting and        *)
(* disableAll of a channel, by a handler or a functor.                     *)
Enable(c, event) ==
  /\ Running /\ Alive(c)
  /\ Update(c, events_[c] \cup {event})
  /\ UNCHANGED objectVars

Disable(c, event) ==
  /\ Running /\ Alive(c)
  /\ Update(c, events_[c] \ {event})
  /\ UNCHANGED objectVars

DisableAll(c) ==
  /\ Running /\ Alive(c)
  /\ Update(c, {})
  /\ UNCHANGED objectVars

(* Mutant: removeChannel does not tell the kernel. *)
RemoveSilently(c) ==
  /\ phase = "functors" /\ ~fatal /\ Alive(c)
  /\ channels_' = [channels_ EXCEPT ![fd_[c]] = None]
  /\ index_' = [index_ EXCEPT ![c] = "kNew"]
  /\ UNCHANGED <<objectVars, events_, epoll, fatal>>

(* Mutant: removeChannel forgets channels_.erase. *)
RemoveKeepsEntry(c) ==
  /\ phase = "functors" /\ ~fatal /\ Alive(c)
  /\ IF index_[c] = "kAdded" THEN Del(fd_[c]) ELSE UNCHANGED <<epoll, fatal>>
  /\ index_' = [index_ EXCEPT ![c] = "kNew"]
  /\ UNCHANGED <<objectVars, events_, channels_>>

(* Mutant: connectDestroyed is called by a handler, and is not queued. *)
RemoveInHandler(c) ==
  /\ Running /\ Alive(c)
  /\ channels_' = [channels_ EXCEPT ![fd_[c]] = None]
  /\ IF index_[c] = "kAdded" THEN Del(fd_[c]) ELSE UNCHANGED <<epoll, fatal>>
  /\ index_' = [index_ EXCEPT ![c] = "kNew"]
  /\ UNCHANGED <<objectVars, events_>>

(* Channel::remove, EPollPoller::removeChannel, called by a functor. *)
RemoveChannel(c) ==
  /\ phase = "functors" /\ ~fatal /\ Alive(c)
  /\ channels_' = [channels_ EXCEPT ![fd_[c]] = None]
  /\ IF index_[c] = "kAdded" THEN Del(fd_[c]) ELSE UNCHANGED <<epoll, fatal>>
  /\ index_' = [index_ EXCEPT ![c] = "kNew"]
  /\ UNCHANGED <<objectVars, events_>>

-----------------------------------------------------------------------------
(* The owners of channels. *)

(* A Channel is constructed on a descriptor its owner has just opened.     *)
Construct(c, f) ==
  /\ ~fatal
  /\ ~Alive(c)
  /\ \A d \in Channel : fd_[d] # f
  /\ fd_' = [fd_ EXCEPT ![c] = f]
  /\ events_' = [events_ EXCEPT ![c] = {}]
  /\ index_' = [index_ EXCEPT ![c] = "kNew"]
  /\ UNCHANGED <<channels_, epoll, listSize, activeChannels_, phase, fatal>>

(* The owner of a channel that was removed, or never registered, goes with *)
(* it and closes the descriptor, which takes that out of the epoll set if  *)
(* it is still there.                                                      *)
Destroy(c) ==
  /\ ~fatal
  /\ Alive(c) /\ index_[c] = "kNew"
  /\ fd_' = [fd_ EXCEPT ![c] = None]
  /\ epoll' = [epoll EXCEPT ![fd_[c]] = NotInSet]
  /\ UNCHANGED <<events_, index_, channels_, listSize, activeChannels_, phase,
                 fatal>>

-----------------------------------------------------------------------------
(* The loop. *)

FillActiveChannels(F) == {epoll[f].ptr : f \in F}

(* epoll_wait: a hang-up is reported whatever is asked for, so any channel *)
(* of the epoll set may be reported; those that do not fit into events_    *)
(* stay ready.  A list that came back full is doubled for the next time.   *)
Poll(F) ==
  /\ ~fatal /\ phase = "poll"
  /\ \A f \in F : epoll[f] # NotInSet
  /\ Cardinality(F) <= listSize
  /\ activeChannels_' = FillActiveChannels(F)
  /\ listSize' = IF Cardinality(F) = listSize THEN 2 * listSize ELSE listSize
  /\ phase' = "handle"
  /\ UNCHANGED <<fd_, events_, index_, channels_, epoll, fatal>>

(* One handleEvent, in any order, has returned; what it called are steps   *)
(* above.                                                                  *)
Handled(c) ==
  /\ Running /\ phase = "handle"
  /\ c \in activeChannels_
  /\ activeChannels_' = activeChannels_ \ {c}
  /\ UNCHANGED <<fd_, events_, index_, channels_, epoll, listSize, phase,
                 fatal>>

(* Mutant: the loop over activeChannels_ may end early. *)
DoPendingFunctorsEarly ==
  /\ Running /\ phase = "handle"
  /\ phase' = "functors"
  /\ UNCHANGED <<fd_, events_, index_, channels_, epoll, listSize,
                 activeChannels_, fatal>>

DoPendingFunctors ==
  /\ Running /\ phase = "handle"
  /\ activeChannels_ = {}
  /\ phase' = "functors"
  /\ UNCHANGED <<fd_, events_, index_, channels_, epoll, listSize,
                 activeChannels_, fatal>>

DoneFunctors ==
  /\ Running /\ phase = "functors"
  /\ phase' = "poll"
  /\ UNCHANGED <<fd_, events_, index_, channels_, epoll, listSize,
                 activeChannels_, fatal>>

Next ==
  \/ \E c \in Channel :
       \/ \E event \in {"in", "out"} : Enable(c, event) \/ Disable(c, event)
       \/ DisableAll(c)
       \/ RemoveChannel(c)
       \/ \E f \in Fd : Construct(c, f)
       \/ Destroy(c)
       \/ Handled(c)
  \/ \E F \in SUBSET Fd : Poll(F)
  \/ DoPendingFunctors
  \/ DoneFunctors

Spec == Init /\ [][Next]_vars
=============================================================================

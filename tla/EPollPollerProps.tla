-------------------------- MODULE EPollPollerProps --------------------------
(* What EPollPoller and Channel have to agree on, with each other and with *)
(* the kernel.                                                             *)
EXTENDS EPollPoller

(* The three views of a channel agree: it is in the epoll set, with itself *)
(* as data.ptr and the events it asks for, exactly while index_ is kAdded, *)
(* and it is in channels_ exactly while index_ is not kNew                 *)
(* (EPollPoller.cc:73-116).                                                *)
ViewsAgree ==
  \A c \in Channel : Alive(c) =>
    /\ channels_[fd_[c]] = IF index_[c] = "kNew" THEN None ELSE c
    /\ epoll[fd_[c]] = IF index_[c] = "kAdded"
                       THEN [ptr |-> c, events |-> events_[c]]
                       ELSE NotInSet

(* Nothing is left behind for a descriptor that nobody has: a later        *)
(* channel on the same number starts clean (EPollPoller.cc:103-116).       *)
NothingLeftBehind ==
  \A f \in Fd : (\A c \in Channel : fd_[c] # f)
                  => channels_[f] = None /\ epoll[f] = NotInSet

(* No sequence of Channel calls makes epoll_ctl fail to add or modify,     *)
(* which would exit the process (EPollPoller.cc:140-150).                  *)
NeverFatal == ~fatal

(* handleEvent is called on existing channels only: neither the epoll set  *)
(* nor what is left of activeChannels_ ever names a destroyed one          *)
(* (EventLoop.cc:75-79, TcpServer.cc:117, EPollPoller.cc:118-126).         *)
NoDanglingChannel ==
  /\ \A c \in activeChannels_ : Alive(c)
  /\ \A f \in Fd : epoll[f] # NotInSet => fd_[epoll[f].ptr] = f
=============================================================================

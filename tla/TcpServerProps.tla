--------------------------- MODULE TcpServerProps ---------------------------
(* What TcpServer has to guarantee about the life of its connections.      *)
EXTENDS TcpServer

Running(l) == pc[l] # "stopped"

(* A TcpConnection is not destroyed while its Channel is known to a        *)
(* poller, whichever thread drops the last reference                       *)
(* (TcpServer.cc:105-119, TcpConnection.cc:71-79).                         *)
OwnedWhileInPoller ==
  \A c \in Conn : index_[c] # "kNew" /\ Running(ioLoop[c]) => c \in Owned

(* connectDestroyed is the end: the channel of a connection it ran on is   *)
(* never registered again, so connectEstablished never comes late          *)
(* (TcpServer.cc:40, 101).                                                 *)
DestroyedStaysOut ==
  \A c \in Conn : destroys[c] > 0 => index_[c] = "kNew"

(* However removal, ~TcpServer and close events interleave, a connection   *)
(* is destroyed once (TcpServer.cc:32-43, 111-119).                        *)
DestroyedOnce == \A c \in Conn : destroys[c] <= 1

(* Without I/O threads, no functor is run on a TcpServer that is gone      *)
(* (TcpServer.cc:98, 108).                                                 *)
NoCallOnDeadServer == loops_ = <<>> => ~deadCall

(* The I/O loops get connections in turn: no two differ by more than one   *)
(* (EventLoopThreadPool.cc:36-49).                                         *)
RoundRobin ==
  \A k, l \in ToSet(loops_) :
    LET Given(m) == Cardinality({c \in 1 .. nextConnId_ - 1 : ioLoop[c] = m})
    IN  Given(k) <= Given(l) + 1

(* Of each connection the user is told that it is up and, once, that it is *)
(* down, and connectDestroyed comes last, once, however events,            *)
(* connections_ and ~TcpServer interleave (TcpServer.cc:32-43, 61-119).    *)
Phase(c) ==
  IF c >= nextConnId_ THEN "none"
  ELSE IF destroys[c] = 0
  THEN [kNew |-> "accepted", kAdded |-> "up", kDeleted |-> "closed"][index_[c]]
  ELSE IF destroys[c] = 1 /\ index_[c] = "kNew" THEN "destroyed"
                                               ELSE "none of these"

Phases == [c \in Conn |-> Phase(c)]

Lives == INSTANCE ConnectionLives WITH phase <- Phases

EachLivesOnce == Lives!Spec

QueuedIn(l, functor) == functor \in ToSet(pending[l]) \cup ToSet(batch[l])

(* A closed connection is never forgotten while the server is up: the step *)
(* that comes next on its way to connectDestroyed, closeCallback_,         *)
(* removeConnectionInLoop or connectDestroyed itself, is about to be taken *)
(* (TcpConnection.cc:149, TcpServer.cc:105-119).                           *)
ClosedIsOnItsWay ==
  server = "up" =>
    \A c \in Conn :
      index_[c] = "kDeleted" => \/ closing[ioLoop[c]] = c
                               \/ QueuedIn(Base, <<"remove", c>>)
                               \/ QueuedIn(ioLoop[c], <<"destroyed", c>>)

Ending == server # "up" \/ quit_[Base]

(* A connection that is closed is freed, descriptor and all, however many  *)
(* others come and go, unless the server or its base loop goes             *)
(* (TcpServer.cc:105-119).                                                 *)
ClosedIsFreed ==
  \A c \in Conn :
    state_[c] = "kDisconnected"
      ~> c \notin Owned \/ Ending

(* Connections close sooner or later. *)
ConnectionsEnd == \A c \in Conn : SF_vars(HandleClose(ioLoop[c], c))

(* If connections end, a client that waits is served, though descriptors   *)
(* may run out and accept fail many times: the descriptors of closed       *)
(* connections come back (Acceptor.cc:48-71, TcpServer.cc:105-119).        *)
EveryClientServed ==
  ConnectionsEnd =>
    \A c \in Conn : c < nextConnId_ + backlog ~> c < nextConnId_ \/ Ending

(* ~TcpServer waits in join() for a thread that has not entered loop():    *)
(* loop() will overwrite the quit() that came before, and there is no      *)
(* other to come.                                                          *)
QuitTooEarly == server = "waiting" /\ pc[loops_[joined + 1]] = "enter"

(* ~TcpServer returns, though it waits for its I/O threads and they may be *)
(* waiting for the base loop to remove a connection, unless one of them is *)
(* told to quit before it has entered loop(): that stop is in the code,    *)
(* and it has no other (TcpServer.cc:32-43, EventLoopThread.cc:14-22,      *)
(* EventLoop.cc:66).                                                       *)
DestructorReturns == server = "body" ~> server = "gone" \/ QuitTooEarly

(* What TcpServer.cc:39-41 says of ~TcpServer: connectDestroyed is called  *)
(* on every connection that is left in connections_.                       *)
DestructorDestroysAll ==
  server = "gone" => \A c \in left : destroys[c] > 0
=============================================================================

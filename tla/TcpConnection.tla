--------------------------- MODULE TcpConnection ----------------------------
(***************************************************************************)
(* One TcpConnection: its state, its output buffer and its Channel, on the *)
(* thread of its EventLoop, while other threads call send and shutdown.    *)
(*                                                                         *)
(* What runs on the loop's thread is atomic up to the user callbacks: it   *)
(* shares with the other threads only the atomic state_, which every       *)
(* handler reads or writes once, and the loop's functor queue.  The calls  *)
(* of the other threads are split at each access to either.                *)
(*                                                                         *)
(* The kernel is modelled from its use: a socket that takes any number of  *)
(* bytes or none, and level-triggered epoll.  A write to a connection that *)
(* is reset or shut down returns -1, as it does with SIGPIPE ignored.      *)
(***************************************************************************)
EXTENDS Integers, Sequences, SequencesExt

CONSTANTS
  Messages,          \* the strings given to send, each at most once
  Length,            \* [Messages -> Nat]: their sizes
  Senders,           \* other threads that may call send
  Shutters,          \* other threads that may call shutdown
  Droppers,          \* those of them that may let go of the connection
  ServerDies,        \* ~TcpServer may run while the connection is up
  HighWaterMark,     \* highWaterMark_
  HasWriteComplete   \* writeCompleteCallback_ is set

Threads == Senders \cup Shutters

ASSUME TcpConnectionAssumption ==
  /\ Length \in [Messages -> Nat]
  /\ HighWaterMark \in Nat \ {0}
  /\ {ServerDies, HasWriteComplete} \subseteq BOOLEAN

VARIABLES
  state_,         \* TcpConnection::state_
  outputBuffer_,  \* readable bytes of TcpConnection::outputBuffer_
  events_,        \* Channel::events_
  index_,         \* Channel::index_
  functors,       \* what this connection has queued in its loop
  loop,           \* the loop's thread, as far as this connection is concerned
  revents_,       \* what is left of Channel::revents_ in handleEvent
  inCallback,     \* the user code the loop's thread is in
  call,           \* per other thread: its half-done send or shutdown
  dropped,        \* strings destroyed by their owner after send returned
  kept,           \* other threads that hold a TcpConnectionPtr
  removals,       \* closeCallback_ calls that TcpServer has not yet served
  erased,         \* TcpServer erased the connection from connections_
  server,         \* the TcpServer: "up" or "gone"
  peer,           \* what the peer did to the connection
  wire,           \* bytes the kernel has taken, in order
  fin,            \* SHUT_WR was done
  closed,         \* history: handleClose ran
  sent,           \* history: messages sendInLoop took on, in order
  late,           \* history: a call was queued behind connectDestroyed
  deadUse         \* history: a call was run on a destroyed object

vars == <<state_, outputBuffer_, events_, index_, functors, loop, revents_,
          inCallback, call, dropped, kept, removals, erased, server, peer,
          wire, fin, closed, sent, late, deadUse>>

kernelVars == <<peer, wire, fin>>
channelVars == <<events_, index_>>
historyVars == <<closed, sent, late, deadUse>>
serverVars == <<removals, erased, server>>
loopVars == <<loop, revents_, inCallback>>
userVars == <<call, dropped, kept>>

StateE == {"kDisconnected", "kConnecting", "kConnected", "kDisconnecting"}

(* What the loop may have queued, and a send or shutdown in progress.  A   *)
(* pair <<"send", m>> holds a pointer into the caller's string m.          *)
Plain == {<<"established">>, <<"destroyed">>, <<"shutdown">>, <<"callback">>}
Functor == Plain \cup {<<"send", m>> : m \in Messages}
Call == {<<"none">>, <<"shutdown">>, <<"queue shutdown">>}
          \cup {<<"send", m>> : m \in Messages}

(* <<m, i>> is byte i of message m; byte 0 is whatever lies before it, and *)
(* byte -1 what is found where m was, once it has been destroyed.          *)
Byte == UNION {{m} \X (-1 .. Length[m]) : m \in Messages}

TypeOK ==
  /\ state_ \in StateE
  /\ outputBuffer_ \in Seq(Byte)
  /\ events_ \in SUBSET {"in", "out"}
  /\ index_ \in {"kNew", "kAdded", "kDeleted"}
  /\ index_ = "kAdded" => events_ # {}
  /\ index_ = "kDeleted" => events_ = {}
  /\ functors \in Seq(Functor)
  /\ loop \in {"idle", "active", "handling"}
  /\ revents_ \in SUBSET {"hup", "in", "out"}
  /\ loop = "idle" => revents_ = {}
  /\ inCallback \in {"none", "message", "down", "other"}
  /\ inCallback \in {"message", "down"} => loop = "handling"
  /\ call \in [Threads -> Call]
  /\ dropped \in SUBSET Messages
  /\ kept \in SUBSET Threads
  /\ \A t \in Threads : call[t] # <<"none">> => t \in kept
  /\ removals \in Nat
  /\ erased \in BOOLEAN
  /\ server \in {"up", "gone"}
  /\ peer \in {"open", "closed", "reset"}
  /\ wire \in Seq(Byte)
  /\ fin \in BOOLEAN
  /\ closed \in BOOLEAN
  /\ sent \in Seq(Messages)
  /\ {late, deadUse} \subseteq BOOLEAN

(* After TcpServer::newConnection. *)
Init ==
  /\ state_ = "kConnecting"
  /\ outputBuffer_ = <<>>
  /\ events_ = {}
  /\ index_ = "kNew"
  /\ functors = <<<<"established">>>>
  /\ loop = "idle"
  /\ revents_ = {}
  /\ inCallback = "none"
  /\ call = [t \in Threads |-> <<"none">>]
  /\ dropped = {}
  /\ kept = Threads
  /\ removals = 0
  /\ erased = FALSE
  /\ server = "up"
  /\ peer = "open"
  /\ wire = <<>>
  /\ fin = FALSE
  /\ closed = FALSE
  /\ sent = <<>>
  /\ late = FALSE
  /\ deadUse = FALSE

-----------------------------------------------------------------------------
(* The channel. *)

isWriting == "out" \in events_

(* Mutant: updateChannel leaves a channel without interest in the set. *)
UpdateAlwaysAdded(events) == events_' = events /\ index_' = "kAdded"

(* Channel::update by way of EPollPoller::updateChannel. *)
Update(events) ==
  /\ events_' = events
  /\ index_' = IF index_ = "kAdded" /\ events = {} THEN "kDeleted"
                                                   ELSE "kAdded"

(* What epoll_wait may report, and what it always does.  With both         *)
(* directions shut down it adds EPOLLHUP, and a socket that was closed by  *)
(* the peer is readable.                                                   *)
HungUp == peer = "reset" \/ (peer = "closed" /\ fin)

Reportable == events_ \cup {e \in {"hup"} : HungUp}

Reported == {e \in Reportable : \/ e = "hup"
                                \/ e = "in" /\ peer # "open"
                                \/ e = "out" /\ (fin \/ peer = "reset")}

-----------------------------------------------------------------------------
(* Writing. *)

(* n bytes of message m as sendInLoop finds them at data + from. *)
Bytes(m, from, n) ==
  [i \in 1 .. n |-> <<m, IF m \in dropped THEN -1 ELSE from + i>>]

(* What write() may return for n bytes. *)
Written(n) == IF n = 0 THEN {0}
              ELSE {-1} \cup {k \in 1 .. n : ~fin /\ peer # "reset"}

(* The last part of sendInLoop: remaining bytes at data + nwrote are       *)
(* buffered, and EPOLLOUT is asked for.  q is the functor queue so far.    *)
Save(m, nwrote, remaining, q) ==
  LET oldLen == Len(outputBuffer_)
      newLen == oldLen + remaining
  IN  /\ outputBuffer_' = outputBuffer_ \o Bytes(m, nwrote, remaining)
      /\ functors' = IF newLen >= HighWaterMark /\ oldLen < HighWaterMark
                     THEN Append(q, <<"callback">>) ELSE q
      /\ IF isWriting THEN UNCHANGED channelVars
                      ELSE Update(events_ \cup {"out"})
      /\ sent' = Append(sent, m)

Skip(q) ==
  /\ functors' = q
  /\ UNCHANGED <<outputBuffer_, channelVars>>

(* The first part, when nothing is buffered: write(fd, data, len).  After  *)
(* a write that takes k >= 0 bytes, and unless it took all of them and a   *)
(* write-complete callback is set, nwrote is set back to 0 and the stale   *)
(* errno decides whether the rest is given up (faultError).                *)
WriteDirectly(m, q) ==
  \E k \in Written(Length[m]) :
    LET all == k = Length[m]
    IN  /\ wire' = wire \o Bytes(m, 0, k)
        /\ \/ /\ k >= 0 /\ all
              /\ Skip(IF HasWriteComplete THEN Append(q, <<"callback">>)
                                          ELSE q)
              /\ sent' = Append(sent, m)
           \/ /\ k >= 0 /\ ~all
              /\ \/ Save(m, 0, Length[m] - k, q)
                 \/ Skip(q) /\ sent' = Append(sent, m)
           \/ /\ k < 0
              /\ Save(m, k, Length[m], q)

(* Mutant: sendInLoop writes past what is already buffered. *)
SendInLoopOvertaking(m, q) ==
  /\ IF state_ = "kDisconnected" THEN Skip(q) /\ UNCHANGED <<wire, sent>>
                                 ELSE WriteDirectly(m, q)
  /\ UNCHANGED <<peer, fin>>

(* Mutant: sendInLoop does not look at state_. *)
SendInLoopAlways(m, q) ==
  /\ IF ~isWriting /\ outputBuffer_ = <<>>
     THEN WriteDirectly(m, q)
     ELSE Save(m, 0, Length[m], q) /\ UNCHANGED wire
  /\ UNCHANGED <<peer, fin>>

SendInLoop(m, q) ==
  /\ \/ /\ state_ = "kDisconnected"
        /\ Skip(q)
        /\ UNCHANGED <<wire, sent>>
     \/ /\ state_ # "kDisconnected"
        /\ ~isWriting /\ outputBuffer_ = <<>>
        /\ WriteDirectly(m, q)
     \/ /\ state_ # "kDisconnected"
        /\ isWriting \/ outputBuffer_ # <<>>
        /\ IF Length[m] > 0 THEN Save(m, 0, Length[m], q)
                            ELSE Skip(q) /\ sent' = Append(sent, m)
        /\ UNCHANGED wire
  /\ UNCHANGED <<peer, fin>>

(* Mutant: the write side is shut down whatever is still buffered. *)
ShutdownInLoopAtOnce(writing) == fin' = TRUE

ShutdownInLoop(writing) == fin' = (fin \/ ~writing)

-----------------------------------------------------------------------------
(* Other threads.  send and shutdown do nothing unless state_ is           *)
(* kConnected when they look at it.                                        *)

Unsent(m) ==
  /\ m \notin ToSet(sent)
  /\ <<"send", m>> \notin ToSet(functors)
  /\ \A t \in Threads : call[t] # <<"send", m>>
  /\ m \notin dropped

Send(t, m) ==
  /\ t \in kept /\ call[t] = <<"none">>
  /\ state_ = "kConnected"
  /\ Unsent(m)
  /\ call' = [call EXCEPT ![t] = <<"send", m>>]
  /\ UNCHANGED <<state_, outputBuffer_, channelVars, functors, loopVars,
                 dropped, kept, serverVars, kernelVars, historyVars>>

(* A call is queued with a raw this.  connectDestroyed is queued in the    *)
(* step that erases the connection from connections_.                      *)
QueueRaw(t, functor) ==
  /\ functors' = Append(functors, functor)
  /\ call' = [call EXCEPT ![t] = <<"none">>]
  /\ late' = (late \/ erased)
  /\ UNCHANGED <<state_, outputBuffer_, channelVars, loopVars, dropped, kept,
                 serverVars, kernelVars, closed, sent, deadUse>>

(* runInLoop(bind(sendInLoop, this, buf.c_str(), buf.size())); return *)
QueueSend(t) ==
  /\ call[t] \in {<<"send", m>> : m \in Messages}
  /\ QueueRaw(t, call[t])

(* send took a reference: its caller may destroy the string afterwards. *)
DropString(m) ==
  /\ <<"send", m>> \in ToSet(functors)
  /\ m \notin dropped
  /\ dropped' = dropped \cup {m}
  /\ UNCHANGED <<state_, outputBuffer_, channelVars, functors, loopVars,
                 call, kept, serverVars, kernelVars, historyVars>>

(* The thread lets go of the connection. *)
Drop(t) ==
  /\ t \in kept \cap Droppers /\ call[t] = <<"none">>
  /\ kept' = kept \ {t}
  /\ UNCHANGED <<state_, outputBuffer_, channelVars, functors, loopVars,
                 call, dropped, serverVars, kernelVars, historyVars>>

Shutdown(t) ==
  /\ t \in kept /\ call[t] = <<"none">>
  /\ state_ = "kConnected"
  /\ call' = [call EXCEPT ![t] = <<"shutdown">>]
  /\ UNCHANGED <<state_, outputBuffer_, channelVars, functors, loopVars,
                 dropped, kept, serverVars, kernelVars, historyVars>>

SetDisconnecting(t) ==
  /\ call[t] = <<"shutdown">>
  /\ state_' = "kDisconnecting"
  /\ call' = [call EXCEPT ![t] = <<"queue shutdown">>]
  /\ UNCHANGED <<outputBuffer_, channelVars, functors, loopVars, dropped,
                 kept, serverVars, kernelVars, historyVars>>

QueueShutdown(t) ==
  /\ call[t] = <<"queue shutdown">>
  /\ QueueRaw(t, <<"shutdown">>)

FinishCall(t) == QueueSend(t) \/ SetDisconnecting(t) \/ QueueShutdown(t)

-----------------------------------------------------------------------------
(* User code on the loop's thread: a callback of this connection or, at    *)
(* any time but inside this connection's handleEvent, one of another       *)
(* channel or another functor.                                             *)

OtherCallback ==
  /\ inCallback = "none"
  /\ loop # "handling"
  /\ state_ # "kConnecting"
  /\ inCallback' = "other"
  /\ UNCHANGED <<state_, outputBuffer_, channelVars, functors, loop, revents_,
                 userVars, serverVars, kernelVars, historyVars>>

SendHere(m) ==
  /\ inCallback # "none"
  /\ state_ = "kConnected"
  /\ Unsent(m)
  /\ SendInLoop(m, functors)
  /\ UNCHANGED <<state_, loopVars, userVars, serverVars, closed, late, deadUse>>

ShutdownHere ==
  /\ inCallback # "none"
  /\ state_ = "kConnected"
  /\ state_' = "kDisconnecting"
  /\ ShutdownInLoop(isWriting)
  /\ UNCHANGED <<outputBuffer_, channelVars, functors, loopVars, userVars,
                 serverVars, peer, wire, historyVars>>

(* After the connection callback of handleClose follows closeCallback_. *)
ReturnFromCallback ==
  /\ inCallback # "none"
  /\ inCallback' = "none"
  /\ removals' = IF inCallback = "down" /\ server = "up" THEN removals + 1
                                                         ELSE removals
  /\ UNCHANGED <<state_, outputBuffer_, channelVars, functors, loop, revents_,
                 userVars, erased, server, kernelVars, historyVars>>

-----------------------------------------------------------------------------
(* The connection's handlers, on the loop's thread. *)

(* Mutant: disableAll is forgotten. *)
HandleCloseStillEnabled ==
  /\ state_' = "kDisconnected"
  /\ inCallback' = "down"
  /\ closed' = TRUE
  /\ UNCHANGED <<outputBuffer_, channelVars, functors, loop, userVars,
                 serverVars, kernelVars, sent, late, deadUse>>

HandleClose ==
  /\ state_' = "kDisconnected"
  /\ Update({})
  /\ inCallback' = "down"
  /\ closed' = TRUE
  /\ UNCHANGED <<outputBuffer_, functors, loop, userVars, serverVars,
                 kernelVars, sent, late, deadUse>>

(* EPOLLHUP without EPOLLIN: Channel's closeCallback_. *)
HandleHup ==
  /\ "hup" \in revents_
  /\ revents_' = revents_ \ {"hup"}
  /\ IF "in" \notin revents_
     THEN HandleClose
     ELSE UNCHANGED <<state_, outputBuffer_, channelVars, functors, loop,
                      inCallback, userVars, serverVars, kernelVars,
                      historyVars>>

(* The error of the socket is fetched, logged and so cleared. *)
HandleError ==
  UNCHANGED <<state_, outputBuffer_, channelVars, functors, loop, inCallback,
              userVars, serverVars, kernelVars, historyVars>>

(* Data for messageCallback_, end of file, or an error. *)
HandleRead ==
  /\ "hup" \notin revents_ /\ "in" \in revents_
  /\ revents_' = revents_ \ {"in"}
  /\ \/ /\ peer # "reset"
        /\ inCallback' = "message"
        /\ UNCHANGED <<state_, outputBuffer_, channelVars, functors, loop,
                       userVars, serverVars, kernelVars, historyVars>>
     \/ /\ peer # "open"
        /\ HandleClose
     \/ /\ peer = "reset"
        /\ HandleError

(* Mutant: handleWrite forgets the shutdown that waits for it. *)
DrainedNoShutdown ==
  /\ Update(events_ \ {"out"})
  /\ functors' = IF HasWriteComplete THEN Append(functors, <<"callback">>)
                                     ELSE functors
  /\ UNCHANGED fin

(* Mutant: handleWrite forgets disableWriting. *)
DrainedStillWriting ==
  /\ functors' = IF HasWriteComplete THEN Append(functors, <<"callback">>)
                                     ELSE functors
  /\ IF state_ = "kDisconnecting" THEN ShutdownInLoop(FALSE)
                                  ELSE UNCHANGED fin
  /\ UNCHANGED channelVars

(* outputBuffer_ is empty: disableWriting, the write-complete callback and *)
(* the shutdown that waited for it.                                        *)
Drained ==
  /\ Update(events_ \ {"out"})
  /\ functors' = IF HasWriteComplete THEN Append(functors, <<"callback">>)
                                     ELSE functors
  /\ IF state_ = "kDisconnecting" THEN ShutdownInLoop(FALSE)
                                  ELSE UNCHANGED fin

(* writeFd returned k.  A failure is logged and changes nothing. *)
HandleWrite(k) ==
  /\ revents_ = {"out"}
  /\ revents_' = {}
  /\ IF isWriting /\ k > 0
     THEN /\ wire' = wire \o SubSeq(outputBuffer_, 1, k)
          /\ outputBuffer_' = SubSeq(outputBuffer_, k + 1, Len(outputBuffer_))
          /\ IF outputBuffer_' = <<>>
             THEN Drained
             ELSE UNCHANGED <<channelVars, functors, fin>>
     ELSE UNCHANGED <<outputBuffer_, channelVars, functors, wire, fin>>
  /\ UNCHANGED <<state_, loop, inCallback, userVars, serverVars, peer,
                 historyVars>>

(* epoll_wait reports the channel; other channels may be handled first. *)
Poll(R) ==
  /\ loop = "idle" /\ inCallback = "none"
  /\ index_ = "kAdded"
  /\ R # {} /\ Reported \subseteq R
  /\ loop' = "active"
  /\ revents_' = R
  /\ UNCHANGED <<state_, outputBuffer_, channelVars, functors, inCallback,
                 userVars, serverVars, kernelVars, historyVars>>

(* Channel::handleEventWithGuard: hang-up, then read, then write.          *)
HandleEvent ==
  /\ loop = "active" /\ inCallback = "none"
  /\ loop' = "handling"
  /\ UNCHANGED <<state_, outputBuffer_, channelVars, functors, revents_,
                 inCallback, userVars, serverVars, kernelVars, historyVars>>

HandlePart ==
  /\ loop = "handling" /\ inCallback = "none"
  /\ \/ HandleHup
     \/ HandleRead
     \/ \E k \in Written(Len(outputBuffer_)) : HandleWrite(k)

HandledEvent ==
  /\ loop = "handling" /\ inCallback = "none"
  /\ revents_ = {}
  /\ loop' = "idle"
  /\ UNCHANGED <<state_, outputBuffer_, channelVars, functors, revents_,
                 inCallback, userVars, serverVars, kernelVars, historyVars>>

-----------------------------------------------------------------------------
(* The functors of this connection, in the loop's doPendingFunctors.       *)

RunConnectEstablished ==
  /\ Head(functors) = <<"established">>
  /\ functors' = Tail(functors)
  /\ state_' = "kConnected"
  /\ Update(events_ \cup {"in"})
  /\ inCallback' = "other"
  /\ UNCHANGED <<outputBuffer_, loop, revents_, userVars, serverVars,
                 kernelVars, historyVars>>

(* Channel::remove leaves the channel unknown to the poller. *)
RunConnectDestroyed ==
  /\ Head(functors) = <<"destroyed">>
  /\ functors' = Tail(functors)
  /\ IF state_ = "kConnected"
     THEN state_' = "kDisconnected" /\ events_' = {}
     ELSE UNCHANGED <<state_, events_>>
  /\ index_' = "kNew"
  /\ UNCHANGED <<outputBuffer_, loopVars, userVars, serverVars, kernelVars,
                 historyVars>>

(* Who holds a shared_ptr to the connection, at least: connections_, other *)
(* threads, removeConnectionInLoop in the base loop, handleEvent by its    *)
(* tie, and functors, but not those of send and shutdown.                  *)
Owned ==
  \/ ~erased \/ kept # {} \/ removals > 0 \/ loop = "handling"
  \/ ToSet(functors) \cap {<<"established">>, <<"destroyed">>, <<"callback">>}
       # {}

RunSendInLoop(m) ==
  /\ Head(functors) = <<"send", m>>
  /\ SendInLoop(m, Tail(functors))
  /\ deadUse' = (deadUse \/ ~Owned)
  /\ UNCHANGED <<state_, loopVars, userVars, serverVars, closed, late>>

RunShutdownInLoop ==
  /\ Head(functors) = <<"shutdown">>
  /\ functors' = Tail(functors)
  /\ ShutdownInLoop(isWriting)
  /\ deadUse' = (deadUse \/ ~Owned)
  /\ UNCHANGED <<state_, outputBuffer_, channelVars, loopVars, userVars,
                 serverVars, peer, wire, closed, sent, late>>

(* The write-complete or high-water-mark callback. *)
RunUserCallback ==
  /\ Head(functors) = <<"callback">>
  /\ functors' = Tail(functors)
  /\ inCallback' = "other"
  /\ UNCHANGED <<state_, outputBuffer_, channelVars, loop, revents_,
                 userVars, serverVars, kernelVars, historyVars>>

RunFunctor ==
  /\ loop = "idle" /\ inCallback = "none"
  /\ functors # <<>>
  /\ \/ RunConnectEstablished
     \/ RunConnectDestroyed
     \/ \E m \in Messages : RunSendInLoop(m)
     \/ RunShutdownInLoop
     \/ RunUserCallback

-----------------------------------------------------------------------------
(* TcpServer, in the base loop. *)

(* Mutant: connectDestroyed is run at once, in the base loop. *)
RemoveAtOnce ==
  /\ server = "up"
  /\ removals > 0
  /\ removals' = removals - 1
  /\ erased' = TRUE
  /\ index_' = "kNew"
  /\ UNCHANGED <<state_, outputBuffer_, events_, functors, loopVars, userVars,
                 server, kernelVars, historyVars>>

(* removeConnectionInLoop; erasing what is already erased is no error. *)
RemoveConnectionInLoop ==
  /\ server = "up"
  /\ removals > 0
  /\ removals' = removals - 1
  /\ erased' = TRUE
  /\ functors' = Append(functors, <<"destroyed">>)
  /\ UNCHANGED <<state_, outputBuffer_, channelVars, loopVars, userVars,
                 server, kernelVars, historyVars>>

(* ~TcpServer while the connection is still in connections_. *)
DestroyServer ==
  /\ ServerDies
  /\ server = "up"
  /\ server' = "gone"
  /\ ~erased
  /\ erased' = TRUE
  /\ functors' = Append(functors, <<"destroyed">>)
  /\ UNCHANGED <<state_, outputBuffer_, channelVars, loopVars, userVars,
                 removals, kernelVars, historyVars>>

-----------------------------------------------------------------------------
(* The peer. *)

PeerCloses ==
  /\ peer = "open"
  /\ peer' = "closed"
  /\ UNCHANGED <<state_, outputBuffer_, channelVars, functors, loopVars,
                 userVars, serverVars, wire, fin, historyVars>>

PeerResets ==
  /\ peer # "reset"
  /\ peer' = "reset"
  /\ UNCHANGED <<state_, outputBuffer_, channelVars, functors, loopVars,
                 userVars, serverVars, wire, fin, historyVars>>

-----------------------------------------------------------------------------
Next ==
  \/ \E t \in Senders, m \in Messages : Send(t, m)
  \/ \E t \in Shutters : Shutdown(t)
  \/ \E t \in Threads : FinishCall(t)
  \/ \E m \in Messages : DropString(m)
  \/ \E t \in Threads : Drop(t)
  \/ OtherCallback
  \/ \E m \in Messages : SendHere(m)
  \/ ShutdownHere
  \/ ReturnFromCallback
  \/ \E R \in SUBSET Reportable : Poll(R)
  \/ HandleEvent
  \/ HandlePart
  \/ HandledEvent
  \/ RunFunctor
  \/ RemoveConnectionInLoop
  \/ DestroyServer
  \/ PeerCloses
  \/ PeerResets

Spec == Init /\ [][Next]_vars

(* A poll that finds the end of the stream, or room for what is to be      *)
(* written.                                                                *)
PollWhatWaits ==
  \E R \in SUBSET Reportable :
    /\ events_ \cap {"out"} \subseteq R
    /\ "out" \in R \/ Reported # {}
    /\ Poll(R)

(* The loop's thread and the other threads run, user callbacks return, and *)
(* epoll_wait, called again and again, reports what stays ready, room to   *)
(* write included.  Strong, because the loop serves other channels and     *)
(* functors in between, but a batch of either is finite.                   *)
Fairness ==
  /\ SF_vars(HandleEvent \/ HandlePart \/ HandledEvent)
  /\ WF_vars(ReturnFromCallback)
  /\ SF_vars(RunFunctor)
  /\ SF_vars(PollWhatWaits)
  /\ \A t \in Threads : WF_vars(FinishCall(t))

(* The peer goes on reading, so that a socket we may write to does accept  *)
(* bytes when it is reported writable.                                     *)
PeerReads ==
  SF_vars(/\ loop = "handling" /\ inCallback = "none"
          /\ \E k \in Written(Len(outputBuffer_)) \ {-1} : HandleWrite(k))

(* What a peer that is gone has sent comes to an end, and the kernel       *)
(* reports an error once: then reads give end of file.                     *)
EndIsSeen ==
  SF_vars(/\ loop = "handling" /\ inCallback = "none"
          /\ peer # "open" /\ HandleRead
          /\ HandleClose)

FairSpec == Spec /\ Fairness /\ PeerReads /\ EndIsSeen
=============================================================================

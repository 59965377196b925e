------------------------- MODULE TcpConnectionProps -------------------------
(***************************************************************************)
(* What TcpConnection has to guarantee to its user and to the poller.      *)
(***************************************************************************)
EXTENDS TcpConnection

Output == wire \o outputBuffer_

(* Bytes never overtake one another: whichever threads send and wherever   *)
(* the bytes wait, they leave in the order in which sendInLoop took the    *)
(* messages on (TcpConnection.cc:206, 244, 110-113).                       *)
BytesInSendOrder ==
  \A i, j \in 1 .. Len(Output) :
    i < j => \E a, b \in 1 .. Len(sent) : /\ a <= b
                                          /\ sent[a] = Output[i][1]
                                          /\ sent[b] = Output[j][1]

(* No byte of the stream is lost, repeated or moved once sendInLoop has    *)
(* put it there, wherever handleWrite cuts the buffer; what comes in is of *)
(* the message that is taken on in this step (TcpConnection.cc:110-113,    *)
(* 206-247).                                                               *)
OutputKept ==
  [][/\ IsPrefix(Output, Output')
     /\ \A i \in Len(Output) + 1 .. Len(Output') :
          sent' = Append(sent, Output'[i][1])]_vars

(* Until handleClose, EPOLLOUT is asked for exactly while something is     *)
(* buffered: nothing buffered is forgotten, and a drained connection does  *)
(* not spin on a writable socket (TcpConnection.cc:113-116, 244-248).      *)
WritingIffBuffered ==
  ~closed /\ index_ = "kAdded" => (isWriting <=> outputBuffer_ # <<>>)

(* The write side is shut down only when every byte taken on is with the   *)
(* kernel, unless the connection is closed, or removed by ~TcpServer       *)
(* (TcpConnection.cc:122, 261-267).                                        *)
FinAfterDrain ==
  [][~fin /\ fin' => outputBuffer_' = <<>> \/ closed \/ index_ = "kNew"]_vars

(* A connection whose handleClose ran is never again in the epoll set, so  *)
(* no event reaches it after its user was told that it is down, and        *)
(* closeCallback_ is called once (TcpConnection.cc:140-150, 199).          *)
ClosedStaysQuiet == closed => index_ # "kAdded"

(* What the user is promised of the callbacks, in ConnectionView, holds if *)
(* no other thread calls shutdown() (TcpConnection.cc:61-160,              *)
(* TcpServer.cc:92-102).                                                   *)
View == INSTANCE ConnectionView WITH
  phase <- IF state_ = "kConnecting" THEN "new" ELSE IF closed THEN "down"
                                                               ELSE "up",
  callback <- inCallback,
  peerGone <- peer # "open"

ImplementsView == View!Spec

(* closeCallback_ reaches a TcpServer that is up once: there is no other   *)
(* call of it on its way, and none has been served (TcpConnection.cc:149,  *)
(* TcpServer.cc:105-119).                                                  *)
ReportsCloseOnce ==
  [][removals' > removals => removals = 0 /\ ~erased]_vars

(* The lives that TcpServer gives its connections, in ConnectionLives, are *)
(* those a connection leads from newConnection on, unless a send is queued *)
(* behind connectDestroyed and brings it back: one in kDisconnecting is    *)
(* registered again (TcpConnection.cc:61-79, 140-150, 199-248).            *)
Phase == IF state_ = "kConnecting" THEN "accepted"
         ELSE IF index_ = "kNew" THEN "destroyed"
         ELSE IF closed THEN "closed" ELSE "up"

Phases == [c \in {1} |-> Phase]

Lives == INSTANCE ConnectionLives WITH Conn <- {1}, phase <- Phases

LivesOnce == [][late' \/ Lives!Next]_Phases

(* A send or shutdown of another thread that was queued, with its raw      *)
(* pointer, before connectDestroyed, finds its connection when it runs,    *)
(* whoever has let go of it: what keeps it alive stands behind in the same *)
(* queue.  Not so when the thread got between the test of state_ and the   *)
(* queue only after connectDestroyed (TcpConnection.cc:178-186, 252-258,   *)
(* TcpServer.cc:111-118).                                                  *)
RawPointersLive == deadUse => late

(* shutdown(), called by any thread at any time, ends in a FIN as soon as  *)
(* the peer has let everything buffered go, unless the connection goes     *)
(* down or ~TcpServer removes it first (TcpConnection.cc:122-125,          *)
(* 252-267).                                                               *)
ShutdownCompletes ==
  state_ = "kDisconnecting" ~> fin \/ closed \/ server = "gone"

(* What is sent while nothing is wrong with the connection arrives as it   *)
(* was given: TcpConnection.cc:232-233 says that what write() did not take *)
(* is kept, and sent in full.                                              *)
StreamIntact ==
  ~closed /\ ~fin /\ peer = "open"
    => Output = FlattenSeq([i \in 1 .. Len(sent) |-> Bytes(sent[i], 0,
                                                           Length[sent[i]])])
=============================================================================

--------------------------- MODULE ConnectionView ---------------------------
(***************************************************************************)
(* What the user of a connection is promised: the connection callback says *)
(* that it is up, then messages come, one callback at a time; it says that *)
(* it is down once, only after the peer has gone, and when the peer has    *)
(* gone it does; there is no message after that.                           *)
(***************************************************************************)

VARIABLES
  phase,     \* "new", "up" or "down"
  callback,  \* the user code the connection's thread is in
  peerGone   \* the peer has closed or reset the connection

vars == <<phase, callback, peerGone>>

Init ==
  /\ phase = "new"
  /\ callback = "none"
  /\ peerGone = FALSE

Enter(kind) ==
  /\ callback = "none"
  /\ callback' = kind
  /\ UNCHANGED peerGone

Up == phase = "new" /\ phase' = "up" /\ Enter("other")

Message == phase = "up" /\ UNCHANGED phase /\ Enter("message")

Down == phase = "up" /\ peerGone /\ phase' = "down" /\ Enter("down")

(* The other callbacks, and user code that is none of this connection's.   *)
Other == phase # "new" /\ UNCHANGED phase /\ Enter("other")

Return ==
  /\ callback # "none"
  /\ callback' = "none"
  /\ UNCHANGED <<phase, peerGone>>

PeerGoes ==
  /\ ~peerGone
  /\ peerGone' = TRUE
  /\ UNCHANGED <<phase, callback>>

Next == Up \/ Message \/ Down \/ Other \/ Return \/ PeerGoes

Spec == Init /\ [][Next]_vars /\ WF_vars(Up) /\ WF_vars(Return) /\ SF_vars(Down)
=============================================================================

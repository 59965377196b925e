--------------------------- MODULE ConnectionLives --------------------------
(***************************************************************************)
(* What a server promises of the lives of its connections: they are        *)
(* accepted in turn; each comes up once, is closed by its peer or is not,  *)
(* and is destroyed at most once, never before it came up.                 *)
(***************************************************************************)
EXTENDS Naturals

CONSTANT
  Conn    \* the connections, as their numbers

VARIABLE
  phase   \* of each: "none", "accepted", "up", "closed" or "destroyed"

Init == phase = [c \in Conn |-> "none"]

Move(c, from, to) ==
  /\ phase[c] \in from
  /\ phase' = [phase EXCEPT ![c] = to]

(* It may come up at once. *)
Accept(c) ==
  /\ \A d \in Conn : d < c => phase[d] # "none"
  /\ Move(c, {"none"}, "accepted") \/ Move(c, {"none"}, "up")

(* The user is told that it is up ... *)
Establish(c) == Move(c, {"accepted"}, "up")

(* ... that it is down ... *)
Close(c) == Move(c, {"up"}, "closed")

(* ... here, if he was not told so before. *)
Destroy(c) == Move(c, {"up", "closed"}, "destroyed")

Next == \E c \in Conn : Accept(c) \/ Establish(c) \/ Close(c) \/ Destroy(c)

Spec == Init /\ [][Next]_phase
=============================================================================

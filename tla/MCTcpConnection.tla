-------------------------- MODULE MCTcpConnection ---------------------------
(* Instances of TcpConnectionProps for TLC. *)
EXTENDS TcpConnectionProps

CONSTANTS m1, m2

TwoMessages == {m1, m2}

(* One message of two bytes, which can be written in part, and a short one. *)
MCLength == [m \in Messages |-> IF m = m1 THEN 2 ELSE 1]
=============================================================================

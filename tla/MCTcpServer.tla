---------------------------- MODULE MCTcpServer -----------------------------
(* Instances of TcpServerProps for TLC. *)
EXTENDS TcpServerProps

CONSTANTS w1, w2

TwoWorkers == <<w1, w2>>
=============================================================================

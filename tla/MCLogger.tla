------------------------------ MODULE MCLogger ------------------------------
(* Instances of LoggerProps for TLC. *)
EXTENDS LoggerProps
=============================================================================

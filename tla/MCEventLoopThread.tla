------------------------- MODULE MCEventLoopThread --------------------------
(* Instances of EventLoopThreadProps for TLC. *)
EXTENDS EventLoopThreadProps
=============================================================================

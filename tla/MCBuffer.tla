------------------------------ MODULE MCBuffer ------------------------------
(* Instances of BufferProps for TLC. *)
EXTENDS BufferProps, SequencesExt

MCByte == 0 .. 2
MCData == BoundedSeq({1, 2}, 3)
=============================================================================

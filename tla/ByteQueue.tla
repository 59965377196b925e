----------------------------- MODULE ByteQueue ------------------------------
(* What a Buffer is for its users: a queue of bytes.  They are put in at   *)
(* the end, by append or from a descriptor, and taken or dropped from the  *)
(* front.                                                                  *)
EXTENDS Naturals, Sequences

CONSTANT Data   \* what may be put in at once, sequences of bytes

VARIABLES
  queue,   \* what was put in and is not yet taken
  moved    \* the bytes that the last call put in or took out

vars == <<queue, moved>>

Init == queue = <<>> /\ moved = <<>>

Put(data) ==
  /\ queue' = queue \o data
  /\ moved' = data

Rest(n) == SubSeq(queue, n + 1, Len(queue))

Drop(n) ==
  /\ queue' = Rest(n)
  /\ moved' = <<>>

Take(n) ==
  /\ queue' = Rest(n)
  /\ moved' = SubSeq(queue, 1, n)

Next ==
  \/ \E data \in Data : Put(data)
  \/ \E n \in 0 .. Len(queue) : Drop(n) \/ Take(n)

Spec == Init /\ [][Next]_vars
=============================================================================

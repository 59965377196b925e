---------------------------- MODULE BufferProps -----------------------------
(* What a Buffer has to guarantee. *)
EXTENDS Buffer

Queue == INSTANCE ByteQueue WITH queue <- Content(buf)

(* The indices and the moving about implement a queue of bytes: whatever   *)
(* the sequence of calls, nothing is lost, doubled or out of order         *)
(* (Buffer.h:52-141, Buffer.cc:10-37).                                     *)
IsByteQueue == Queue!Spec

(* The vector grows only when its room would not hold what is to be        *)
(* readable, however that is placed (Buffer.h:126-141).                    *)
GrowsWhenFull ==
  [][Len(buf'.buffer_) > Len(buf.buffer_)
       => readableBytes(buf)' > Len(buf.buffer_) - kCheapPrepend]_vars
=============================================================================

------------------------------- MODULE Buffer -------------------------------
(***************************************************************************)
(* A Buffer: a vector of bytes and two indices into it.  What is readable  *)
(* lies between them; space before it is reclaimed by moving it down, and  *)
(* only if that is not enough does the vector grow.  readFd scatters what  *)
(* it reads over the vector and an array on the stack.                     *)
(*                                                                         *)
(* Indices count from 0, sequences from 1: the byte at index i is          *)
(* buffer_[i + 1].  Sizes are far from the limits of size_t.               *)
(***************************************************************************)
EXTENDS Naturals, Sequences

CONSTANTS
  Byte,           \* the bytes
  Zero,           \* the byte that resize() fills with
  kCheapPrepend,  \* room kept in front
  kInitialSize,   \* room for data to begin with
  ExtraSize,      \* sizeof extrabuf in readFd
  Data,           \* what may be appended or be ready on a descriptor
  MaxReadable     \* bound: how much the user lets pile up

ASSUME BufferAssumption ==
  /\ Zero \in Byte
  /\ {kCheapPrepend, kInitialSize, ExtraSize, MaxReadable} \subseteq Nat
  /\ Data \subseteq Seq(Byte)

VARIABLES
  buf,    \* the Buffer
  moved   \* history: the bytes that the last call put in or returned

vars == <<buf, moved>>

Buffers == [buffer_ : Seq(Byte), readerIndex_ : Nat, writerIndex_ : Nat]

(* The order of the indices that Buffer.h:15 draws. *)
Ordered(s) ==
  /\ kCheapPrepend <= s.readerIndex_
  /\ s.readerIndex_ <= s.writerIndex_
  /\ s.writerIndex_ <= Len(s.buffer_)

TypeOK ==
  /\ buf \in Buffers
  /\ Ordered(buf)
  /\ moved \in Seq(Byte)

Init ==
  /\ buf = [buffer_ |-> [i \in 1 .. kCheapPrepend + kInitialSize |-> Zero],
            readerIndex_ |-> kCheapPrepend,
            writerIndex_ |-> kCheapPrepend]
  /\ moved = <<>>

readableBytes(s) == s.writerIndex_ - s.readerIndex_
writableBytes(s) == Len(s.buffer_) - s.writerIndex_
prependableBytes(s) == s.readerIndex_

(* The readable bytes, that is readableBytes() of them from peek(). *)
Content(s) ==
  [i \in 1 .. readableBytes(s) |-> s.buffer_[s.readerIndex_ + i]]

(* std::copy of data to index at, and std::vector::resize. *)
Copied(bytes, at, data) ==
  [i \in 1 .. Len(bytes) |-> IF at < i /\ i <= at + Len(data)
                             THEN data[i - at] ELSE bytes[i]]

Resized(bytes, size) ==
  [i \in 1 .. size |-> IF i <= Len(bytes) THEN bytes[i] ELSE Zero]

-----------------------------------------------------------------------------
(* The operations, as functions of the buffer. *)

(* Mutant: makeSpace does not count kCheapPrepend. *)
MakeSpaceTight(s, len) ==
  IF writableBytes(s) + prependableBytes(s) < len
  THEN [s EXCEPT !.buffer_ = Resized(s.buffer_, s.writerIndex_ + len)]
  ELSE [buffer_ |-> Copied(s.buffer_, kCheapPrepend, Content(s)),
        readerIndex_ |-> kCheapPrepend,
        writerIndex_ |-> kCheapPrepend + readableBytes(s)]

(* Mutant: makeSpace always resizes. *)
MakeSpaceGrowing(s, len) ==
  [s EXCEPT !.buffer_ = Resized(s.buffer_, s.writerIndex_ + len)]

(* Moving down copies to a lower index, so std::copy may overlap. *)
MakeSpace(s, len) ==
  IF writableBytes(s) + prependableBytes(s) < len + kCheapPrepend
  THEN [s EXCEPT !.buffer_ = Resized(s.buffer_, s.writerIndex_ + len)]
  ELSE [buffer_ |-> Copied(s.buffer_, kCheapPrepend, Content(s)),
        readerIndex_ |-> kCheapPrepend,
        writerIndex_ |-> kCheapPrepend + readableBytes(s)]

EnsureWritableBytes(s, len) ==
  IF writableBytes(s) < len THEN MakeSpace(s, len) ELSE s

Appended(s, data) ==
  LET t == EnsureWritableBytes(s, Len(data))
  IN  [t EXCEPT !.buffer_ = Copied(t.buffer_, t.writerIndex_, data),
                !.writerIndex_ = t.writerIndex_ + Len(data)]

Retrieved(s, len) ==
  IF len < readableBytes(s)
  THEN [s EXCEPT !.readerIndex_ = s.readerIndex_ + len]
  ELSE [s EXCEPT !.readerIndex_ = kCheapPrepend,
                 !.writerIndex_ = kCheapPrepend]

(* What one readv may deliver. *)
Capacity(s) == writableBytes(s) +
                 (IF writableBytes(s) < ExtraSize THEN ExtraSize ELSE 0)

(* Mutant: writerIndex_ = buffer_.size() is forgotten. *)
FilledForgetful(s, data) ==
  LET writable == writableBytes(s)
  IN  IF Len(data) <= writable
      THEN [s EXCEPT !.buffer_ = Copied(s.buffer_, s.writerIndex_, data),
                     !.writerIndex_ = s.writerIndex_ + Len(data)]
      ELSE Appended([s EXCEPT !.buffer_ = Copied(s.buffer_, s.writerIndex_,
                                                 SubSeq(data, 1, writable))],
                    SubSeq(data, writable + 1, Len(data)))

(* readFd, when readv delivers data. *)
Filled(s, data) ==
  LET writable == writableBytes(s)
  IN  IF Len(data) <= writable
      THEN [s EXCEPT !.buffer_ = Copied(s.buffer_, s.writerIndex_, data),
                     !.writerIndex_ = s.writerIndex_ + Len(data)]
      ELSE Appended([s EXCEPT !.buffer_ = Copied(s.buffer_, s.writerIndex_,
                                                 SubSeq(data, 1, writable)),
                              !.writerIndex_ = Len(s.buffer_)],
                    SubSeq(data, writable + 1, Len(data)))

-----------------------------------------------------------------------------
Fits(data) == readableBytes(buf) + Len(data) <= MaxReadable

append(data) ==
  /\ Fits(data)
  /\ buf' = Appended(buf, data)
  /\ moved' = data

readFd(data) ==
  /\ Fits(data)
  /\ Len(data) <= Capacity(buf)
  /\ buf' = Filled(buf, data)
  /\ moved' = data

(* Any len, also more than there is, which is the same as retrieveAll. *)
retrieve(len) ==
  /\ buf' = Retrieved(buf, len)
  /\ moved' = <<>>

(* A std::string of len bytes from peek(): there have to be as many. *)
retrieveAsString(len) ==
  /\ len <= readableBytes(buf)
  /\ buf' = Retrieved(buf, len)
  /\ moved' = SubSeq(Content(buf), 1, len)

Next ==
  \/ \E data \in Data : append(data) \/ readFd(data)
  \/ \E len \in 0 .. readableBytes(buf) + 1 :
       retrieve(len) \/ retrieveAsString(len)

Spec == Init /\ [][Next]_vars
=============================================================================

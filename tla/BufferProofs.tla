---------------------------- MODULE BufferProofs ----------------------------
(***************************************************************************)
(* A Buffer implements ByteQueue, whatever the sizes.  The inductive       *)
(* invariant is TypeOK, with the order of the indices in it; the lemmas    *)
(* say of each operation what it does to Content, where the queue is.      *)
(***************************************************************************)
EXTENDS BufferProps, TLAPS

Good(s) == s \in Buffers /\ Ordered(s)

(* Two sequences are one if they have the same elements. *)
LEMMA SameSeq ==
  ASSUME NEW S, NEW a \in Seq(S), NEW b \in Seq(S),
         Len(a) = Len(b), \A i \in 1 .. Len(a) : a[i] = b[i]
  PROVE  a = b
  OBVIOUS

(* Three sequences one after another, however they are put together. *)
LEMMA ConcatAssociates ==
  ASSUME NEW S, NEW a \in Seq(S), NEW b \in Seq(S), NEW c \in Seq(S)
  PROVE  (a \o b) \o c = a \o (b \o c)
<1> DEFINE left == (a \o b) \o c
           right == a \o (b \o c)
<1>1. left \in Seq(S) /\ Len(left) = Len(a) + Len(b) + Len(c)
  OBVIOUS
<1>2. right \in Seq(S) /\ Len(right) = Len(a) + Len(b) + Len(c)
  OBVIOUS
<1>3. \A i \in 1 .. Len(a) + Len(b) + Len(c) : left[i] = right[i]
  <2> SUFFICES ASSUME NEW i \in 1 .. Len(a) + Len(b) + Len(c)
               PROVE  left[i] = right[i]
    OBVIOUS
  <2>1. CASE i <= Len(a)
    BY <2>1
  <2>2. CASE Len(a) < i /\ i <= Len(a) + Len(b)
    BY <2>2
  <2>3. CASE Len(a) + Len(b) < i
    BY <2>3
  <2> QED BY <2>1, <2>2, <2>3
<1> HIDE DEF left, right
<1>4. left = right
  BY <1>1, <1>2, <1>3, SameSeq
<1> QED BY <1>4 DEF left, right

(* A sequence is what comes up to a place, and then the rest. *)
LEMMA SplitSeq ==
  ASSUME NEW S, NEW a \in Seq(S), NEW k \in Nat, k <= Len(a)
  PROVE  /\ SubSeq(a, 1, k) \in Seq(S)
         /\ SubSeq(a, k + 1, Len(a)) \in Seq(S)
         /\ Len(SubSeq(a, 1, k)) = k
         /\ Len(SubSeq(a, k + 1, Len(a))) = Len(a) - k
         /\ SubSeq(a, 1, k) \o SubSeq(a, k + 1, Len(a)) = a
<1> DEFINE front == SubSeq(a, 1, k)
           back == SubSeq(a, k + 1, Len(a))
<1>1. /\ front \in Seq(S)
      /\ Len(front) = k
      /\ \A i \in 1 .. k : front[i] = a[i]
  OBVIOUS
<1>2. /\ back \in Seq(S)
      /\ Len(back) = Len(a) - k
      /\ \A i \in 1 .. Len(a) - k : back[i] = a[k + i]
  OBVIOUS
<1> HIDE DEF front, back
<1>3. /\ front \o back \in Seq(S)
      /\ Len(front \o back) = Len(a)
  BY <1>1, <1>2
<1>4. \A i \in 1 .. Len(a) : (front \o back)[i] = a[i]
  <2> SUFFICES ASSUME NEW i \in 1 .. Len(a)
               PROVE  (front \o back)[i] = a[i]
    OBVIOUS
  <2>1. CASE i <= k
    BY <1>1, <1>2, <2>1
  <2>2. CASE k < i
    <3>1. (front \o back)[i] = back[i - k]
      BY <1>1, <1>2, <2>2
    <3>2. i - k \in 1 .. Len(a) - k /\ k + (i - k) = i
      BY <2>2
    <3> QED BY <1>2, <3>1, <3>2
  <2>3. i <= k \/ k < i
    OBVIOUS
  <2> QED BY <2>1, <2>2, <2>3
<1>5. front \o back = a
  BY <1>3, <1>4, SameSeq
<1> QED BY <1>1, <1>2, <1>5 DEF front, back

LEMMA ContentIsSeq ==
  ASSUME NEW s, Good(s)
  PROVE  /\ Content(s) \in Seq(Byte)
         /\ Len(Content(s)) = readableBytes(s)
         /\ readableBytes(s) \in Nat
         /\ \A i \in 1 .. readableBytes(s) :
              Content(s)[i] = s.buffer_[s.readerIndex_ + i]
<1>1. readableBytes(s) \in Nat
  BY BufferAssumption DEF Good, Buffers, Ordered, readableBytes
<1>2. \A i \in 1 .. readableBytes(s) :
        s.readerIndex_ + i \in 1 .. Len(s.buffer_)
  BY BufferAssumption DEF Good, Buffers, Ordered, readableBytes
<1>3. \A i \in 1 .. readableBytes(s) : s.buffer_[s.readerIndex_ + i] \in Byte
  BY <1>2 DEF Good, Buffers
<1>4. Content(s) \in Seq(Byte)
  BY <1>1, <1>3 DEF Content
<1> QED BY <1>1, <1>4 DEF Content

(* std::copy and resize give sequences of bytes again. *)
LEMMA CopiedIsSeq ==
  ASSUME NEW bytes \in Seq(Byte), NEW data \in Seq(Byte), NEW at \in Nat
  PROVE  /\ Copied(bytes, at, data) \in Seq(Byte)
         /\ Len(Copied(bytes, at, data)) = Len(bytes)
         /\ \A i \in 1 .. Len(bytes) :
              Copied(bytes, at, data)[i]
                = IF at < i /\ i <= at + Len(data) THEN data[i - at]
                                                   ELSE bytes[i]
<1>1. \A i \in 1 .. Len(bytes) :
        (IF at < i /\ i <= at + Len(data) THEN data[i - at] ELSE bytes[i])
          \in Byte
  <2>1. \A i \in 1 .. Len(bytes) :
          at < i /\ i <= at + Len(data) => i - at \in 1 .. Len(data)
    OBVIOUS
  <2> QED BY <2>1
<1> QED BY <1>1 DEF Copied

LEMMA ResizedIsSeq ==
  ASSUME NEW bytes \in Seq(Byte), NEW size \in Nat, size >= Len(bytes)
  PROVE  /\ Resized(bytes, size) \in Seq(Byte)
         /\ Len(Resized(bytes, size)) = size
         /\ \A i \in 1 .. Len(bytes) : Resized(bytes, size)[i] = bytes[i]
<1>1. \A i \in 1 .. size : (IF i <= Len(bytes) THEN bytes[i] ELSE Zero) \in Byte
  BY BufferAssumption
<1>2. Resized(bytes, size) \in Seq(Byte) /\ Len(Resized(bytes, size)) = size
  BY <1>1 DEF Resized
<1> QED BY <1>2 DEF Resized

(* Making room keeps what is readable (Buffer.h:84-90, 126-141). *)
LEMMA EnsureKeeps ==
  ASSUME NEW s, Good(s), NEW len \in Nat
  PROVE  /\ Good(EnsureWritableBytes(s, len))
         /\ writableBytes(EnsureWritableBytes(s, len)) >= len
         /\ Content(EnsureWritableBytes(s, len)) = Content(s)
<1> DEFINE t == EnsureWritableBytes(s, len)
<1> USE BufferAssumption DEF writableBytes, prependableBytes
<1>0. /\ s.buffer_ \in Seq(Byte)
      /\ s.readerIndex_ \in Nat
      /\ s.writerIndex_ \in Nat
      /\ Len(s.buffer_) \in Nat
      /\ kCheapPrepend \in Nat
      /\ Ordered(s)
  BY DEF Good, Buffers
<1>1. CASE writableBytes(s) >= len
  BY <1>0, <1>1 DEF EnsureWritableBytes
<1>2. CASE /\ writableBytes(s) < len
           /\ writableBytes(s) + prependableBytes(s) < len + kCheapPrepend
  <2> DEFINE size == s.writerIndex_ + len
  <2>1. size \in Nat /\ size >= Len(s.buffer_)
    BY <1>0, <1>2
  <2>2. t = [s EXCEPT !.buffer_ = Resized(s.buffer_, size)]
    BY <1>0, <1>2 DEF EnsureWritableBytes, MakeSpace
  <2> HIDE DEF size
  <2>7. /\ Resized(s.buffer_, size) \in Seq(Byte)
        /\ Len(Resized(s.buffer_, size)) = size
        /\ \A i \in 1 .. Len(s.buffer_) :
             Resized(s.buffer_, size)[i] = s.buffer_[i]
    BY <1>0, <2>1, ResizedIsSeq
  <2>8. s \in [buffer_ : Seq(Byte), readerIndex_ : Nat, writerIndex_ : Nat]
    BY DEF Good, Buffers
  <2>3. /\ t \in Buffers
        /\ t.buffer_ = Resized(s.buffer_, size)
        /\ t.readerIndex_ = s.readerIndex_
        /\ t.writerIndex_ = s.writerIndex_
    BY <2>2, <2>7, <2>8 DEF Buffers
  <2>4. Len(t.buffer_) = size
    BY <2>3, <2>7
  <2>5. Good(t) /\ writableBytes(t) >= len
    BY <1>0, <2>1, <2>3, <2>4 DEF Good, Ordered, size
  <2>6. Content(t) = Content(s)
    <3>1. readableBytes(t) = readableBytes(s)
      BY <2>3 DEF readableBytes
    <3>2. \A i \in 1 .. readableBytes(s) :
            t.buffer_[t.readerIndex_ + i] = s.buffer_[s.readerIndex_ + i]
      <4>1. \A i \in 1 .. readableBytes(s) :
              s.readerIndex_ + i \in 1 .. Len(s.buffer_)
        BY <1>0 DEF Ordered, readableBytes
      <4> QED BY <2>3, <2>7, <4>1
    <3> QED BY <3>1, <3>2 DEF Content
  <2> QED BY <2>5, <2>6
<1>3. CASE /\ writableBytes(s) < len
           /\ writableBytes(s) + prependableBytes(s) >= len + kCheapPrepend
  <2> DEFINE n == readableBytes(s)
             b == Copied(s.buffer_, kCheapPrepend, Content(s))
  <2>1. /\ Content(s) \in Seq(Byte)
        /\ Len(Content(s)) = n
        /\ n \in Nat
        /\ \A i \in 1 .. n : Content(s)[i] = s.buffer_[s.readerIndex_ + i]
    BY ContentIsSeq
  <2>2. t = [buffer_ |-> b,
             readerIndex_ |-> kCheapPrepend,
             writerIndex_ |-> kCheapPrepend + n]
    BY <1>0, <1>3 DEF EnsureWritableBytes, MakeSpace
  <2>3. /\ b \in Seq(Byte)
        /\ Len(b) = Len(s.buffer_)
        /\ \A i \in 1 .. Len(b) :
             b[i] = IF kCheapPrepend < i /\ i <= kCheapPrepend + n
                    THEN Content(s)[i - kCheapPrepend] ELSE s.buffer_[i]
    <3>1. \A i \in 1 .. Len(s.buffer_) :
            b[i] = IF kCheapPrepend < i /\ i <= kCheapPrepend + Len(Content(s))
                   THEN Content(s)[i - kCheapPrepend] ELSE s.buffer_[i]
      BY <1>0, <2>1, CopiedIsSeq
    <3>2. b \in Seq(Byte) /\ Len(b) = Len(s.buffer_)
      BY <1>0, <2>1, CopiedIsSeq
    <3> HIDE DEF b
    <3> QED BY <2>1, <3>1, <3>2
  <2> HIDE DEF b
  <2>4. kCheapPrepend + n <= Len(b)
    BY <1>0, <2>3 DEF Ordered, readableBytes
  <2>5. Good(t)
    BY <1>0, <2>1, <2>2, <2>3, <2>4 DEF Good, Buffers, Ordered
  <2>6. writableBytes(t) >= len
    BY <1>0, <1>3, <2>2, <2>3, <2>4 DEF readableBytes, Ordered
  <2>7. Content(t) = Content(s)
    <3>1. readableBytes(t) = n
      BY <1>0, <2>1, <2>2 DEF readableBytes
    <3>2. \A i \in 1 .. n : b[kCheapPrepend + i] = Content(s)[i]
      <4> SUFFICES ASSUME NEW i \in 1 .. n
                   PROVE  b[kCheapPrepend + i] = Content(s)[i]
        OBVIOUS
      <4>1. /\ kCheapPrepend + i \in 1 .. Len(b)
            /\ kCheapPrepend < kCheapPrepend + i
            /\ kCheapPrepend + i <= kCheapPrepend + n
            /\ (kCheapPrepend + i) - kCheapPrepend = i
        BY <1>0, <2>1, <2>4
      <4> QED BY <2>3, <4>1
    <3>3. \A i \in 1 .. n :
            t.buffer_[t.readerIndex_ + i] = s.buffer_[s.readerIndex_ + i]
      BY <2>1, <2>2, <3>2
    <3> QED BY <3>1, <3>3 DEF Content
  <2> QED BY <2>5, <2>6, <2>7
<1>4. \/ writableBytes(s) >= len
      \/ /\ writableBytes(s) < len
         /\ \/ writableBytes(s) + prependableBytes(s) < len + kCheapPrepend
            \/ writableBytes(s) + prependableBytes(s) >= len + kCheapPrepend
  BY <1>0
<1> QED BY <1>1, <1>2, <1>3, <1>4

(* Bytes copied in behind the readable ones, with writerIndex_ moved past  *)
(* them, become readable after those.                                      *)
LEMMA CopyAppends ==
  ASSUME NEW s, Good(s), NEW data \in Seq(Byte),
         writableBytes(s) >= Len(data),
         NEW t, t \in Buffers,
         t.buffer_ = Copied(s.buffer_, s.writerIndex_, data),
         t.readerIndex_ = s.readerIndex_,
         t.writerIndex_ = s.writerIndex_ + Len(data)
  PROVE  Good(t) /\ Content(t) = Content(s) \o data
<1> USE BufferAssumption
<1>0. /\ s.buffer_ \in Seq(Byte)
      /\ s.readerIndex_ \in Nat
      /\ s.writerIndex_ \in Nat
      /\ Len(s.buffer_) \in Nat
      /\ Len(data) \in Nat
      /\ kCheapPrepend \in Nat
      /\ Ordered(s)
  BY DEF Good, Buffers
<1> DEFINE n == readableBytes(s)
<1>1. /\ Len(t.buffer_) = Len(s.buffer_)
      /\ \A i \in 1 .. Len(s.buffer_) :
           t.buffer_[i] = IF s.writerIndex_ < i
                               /\ i <= s.writerIndex_ + Len(data)
                          THEN data[i - s.writerIndex_] ELSE s.buffer_[i]
  <2> DEFINE b == Copied(s.buffer_, s.writerIndex_, data)
  <2>1. /\ Len(b) = Len(s.buffer_)
        /\ \A i \in 1 .. Len(s.buffer_) :
             b[i] = IF s.writerIndex_ < i
                         /\ i <= s.writerIndex_ + Len(data)
                    THEN data[i - s.writerIndex_] ELSE s.buffer_[i]
    <3>1. s.buffer_ \in Seq(Byte) /\ s.writerIndex_ \in Nat
      BY <1>0
    <3> QED BY <3>1, CopiedIsSeq
  <2>2. t.buffer_ = b
    OBVIOUS
  <2> HIDE DEF b
  <2> QED BY <2>1, <2>2
<1>2. Good(t)
  BY <1>0, <1>1 DEF Good, Ordered, writableBytes
<1>3. /\ Content(s) \in Seq(Byte)
      /\ Len(Content(s)) = n
      /\ n \in Nat
      /\ \A i \in 1 .. n : Content(s)[i] = s.buffer_[s.readerIndex_ + i]
  BY ContentIsSeq
<1>4. /\ Content(t) \in Seq(Byte)
      /\ Len(Content(t)) = n + Len(data)
      /\ \A i \in 1 .. n + Len(data) :
           Content(t)[i] = t.buffer_[t.readerIndex_ + i]
  <2>1. readableBytes(t) = n + Len(data)
    BY <1>0 DEF readableBytes
  <2> QED BY <1>2, <2>1, ContentIsSeq
<1>5. \A i \in 1 .. n + Len(data) : Content(t)[i] = (Content(s) \o data)[i]
  <2> SUFFICES ASSUME NEW i \in 1 .. n + Len(data)
               PROVE  Content(t)[i] = (Content(s) \o data)[i]
    OBVIOUS
  <2> DEFINE j == s.readerIndex_ + i
  <2>1. /\ j \in 1 .. Len(s.buffer_)
        /\ (s.writerIndex_ < j) <=> (n < i)
        /\ j <= s.writerIndex_ + Len(data)
        /\ j - s.writerIndex_ = i - n
    <3>1. i \in Nat /\ 1 <= i /\ i <= n + Len(data)
      BY <1>0, <1>3
    <3>2. n = s.writerIndex_ - s.readerIndex_
      BY DEF readableBytes
    <3>3. s.writerIndex_ + Len(data) <= Len(s.buffer_)
      BY <1>0 DEF writableBytes
    <3> HIDE DEF n
    <3>4. j \in Nat /\ 1 <= j /\ j <= s.writerIndex_ + Len(data)
      BY <1>0, <3>1, <3>2
    <3>5. j = s.readerIndex_ + i
      OBVIOUS
    <3>6. j >= 1 /\ j <= Len(s.buffer_)
      BY <1>0, <3>3, <3>4
    <3>7. (s.writerIndex_ < j) <=> (n < i)
      BY <1>0, <1>3, <3>1, <3>2, <3>5
    <3>8. j - s.writerIndex_ = i - n
      BY <1>0, <1>3, <3>1, <3>2, <3>5
    <3> QED BY <1>0, <3>4, <3>6, <3>7, <3>8
  <2>2. Content(t)[i] = t.buffer_[j]
    BY <1>4
  <2>3. CASE i <= n
    <3>1. t.buffer_[j] = s.buffer_[j]
      BY <1>1, <1>3, <2>1, <2>3
    <3>2. Content(s)[i] = s.buffer_[j]
      BY <1>3, <2>3
    <3>3. (Content(s) \o data)[i] = Content(s)[i]
      BY <1>3, <2>3
    <3> QED BY <2>2, <3>1, <3>2, <3>3
  <2>4. CASE n < i
    <3>1. t.buffer_[j] = data[i - n]
      BY <1>1, <2>1, <2>4
    <3>2. (Content(s) \o data)[i] = data[i - n]
      BY <1>3, <2>4
    <3> QED BY <2>2, <3>1, <3>2
  <2> QED BY <1>3, <2>3, <2>4
<1>6. /\ Content(s) \o data \in Seq(Byte)
      /\ Len(Content(s) \o data) = n + Len(data)
  BY <1>3
<1>7. Content(t) = Content(s) \o data
  BY <1>4, <1>5, <1>6, SameSeq
<1> QED BY <1>2, <1>7

(* append puts its data behind what is readable (Buffer.h:93-98). *)
LEMMA AppendPuts ==
  ASSUME NEW s, Good(s), NEW data \in Seq(Byte)
  PROVE  /\ Good(Appended(s, data))
         /\ Content(Appended(s, data)) = Content(s) \o data
<1> DEFINE e == EnsureWritableBytes(s, Len(data))
           t == Appended(s, data)
<1>1. Good(e) /\ writableBytes(e) >= Len(data) /\ Content(e) = Content(s)
  BY EnsureKeeps
<1> DEFINE b == Copied(e.buffer_, e.writerIndex_, data)
<1>2. t = [e EXCEPT !.buffer_ = b,
                    !.writerIndex_ = e.writerIndex_ + Len(data)]
  BY DEF Appended
<1> HIDE DEF e, t
<1>3. b \in Seq(Byte)
  BY <1>1, CopiedIsSeq DEF Good, Buffers
<1>4. /\ t \in Buffers
      /\ t.buffer_ = b
      /\ t.readerIndex_ = e.readerIndex_
      /\ t.writerIndex_ = e.writerIndex_ + Len(data)
  <2> HIDE DEF b
  <2>1. /\ e \in [buffer_ : Seq(Byte), readerIndex_ : Nat, writerIndex_ : Nat]
        /\ e.writerIndex_ + Len(data) \in Nat
    BY <1>1 DEF Good, Buffers
  <2>2. t = [buffer_ |-> b, readerIndex_ |-> e.readerIndex_,
             writerIndex_ |-> e.writerIndex_ + Len(data)]
    BY <1>2, <2>1
  <2> QED BY <1>3, <2>1, <2>2 DEF Buffers
<1>5. Good(t) /\ Content(t) = Content(e) \o data
  BY <1>1, <1>4, CopyAppends
<1> QED BY <1>1, <1>5 DEF t

(* retrieve drops from the front (Buffer.h:52-68). *)
LEMMA RetrieveDrops ==
  ASSUME NEW s, Good(s), NEW len \in Nat
  PROVE  /\ Good(Retrieved(s, len))
         /\ LET n == IF len < readableBytes(s) THEN len ELSE readableBytes(s)
            IN  Content(Retrieved(s, len))
                  = SubSeq(Content(s), n + 1, Len(Content(s)))
<1> USE BufferAssumption
<1> DEFINE t == Retrieved(s, len)
           m == readableBytes(s)
<1>0. /\ s.buffer_ \in Seq(Byte)
      /\ s.readerIndex_ \in Nat
      /\ s.writerIndex_ \in Nat
      /\ Len(s.buffer_) \in Nat
      /\ kCheapPrepend \in Nat
      /\ Ordered(s)
  BY DEF Good, Buffers
<1>1. /\ Content(s) \in Seq(Byte)
      /\ Len(Content(s)) = m
      /\ m \in Nat
      /\ \A i \in 1 .. m : Content(s)[i] = s.buffer_[s.readerIndex_ + i]
  BY ContentIsSeq
<1>2. CASE len < m
  <2>1. /\ t \in Buffers
        /\ t.buffer_ = s.buffer_
        /\ t.readerIndex_ = s.readerIndex_ + len
        /\ t.writerIndex_ = s.writerIndex_
    BY <1>0, <1>2 DEF Retrieved, Good, Buffers
  <2>2. Good(t) /\ readableBytes(t) = m - len
    BY <1>0, <1>2, <2>1 DEF Good, Ordered, readableBytes
  <2>3. /\ Content(t) \in Seq(Byte)
        /\ Len(Content(t)) = m - len
        /\ \A i \in 1 .. m - len :
             Content(t)[i] = t.buffer_[t.readerIndex_ + i]
    BY <2>2, ContentIsSeq
  <2>4. /\ SubSeq(Content(s), len + 1, m) \in Seq(Byte)
        /\ Len(SubSeq(Content(s), len + 1, m)) = m - len
        /\ \A i \in 1 .. m - len :
             SubSeq(Content(s), len + 1, m)[i] = Content(s)[len + i]
    BY <1>1, <1>2
  <2>5. \A i \in 1 .. m - len :
          Content(t)[i] = SubSeq(Content(s), len + 1, m)[i]
    <3> SUFFICES ASSUME NEW i \in 1 .. m - len
                 PROVE  Content(t)[i] = Content(s)[len + i]
      BY <2>4
    <3>1. len + i \in 1 .. m /\ t.readerIndex_ + i = s.readerIndex_ + (len + i)
      BY <1>0, <1>1, <1>2, <2>1
    <3> QED BY <1>1, <2>1, <2>3, <3>1
  <2>6. Content(t) = SubSeq(Content(s), len + 1, m)
    BY <2>3, <2>4, <2>5, SameSeq
  <2> QED BY <1>1, <1>2, <2>2, <2>6
<1>3. CASE ~(len < m)
  <2>1. /\ t \in Buffers
        /\ t.buffer_ = s.buffer_
        /\ t.readerIndex_ = kCheapPrepend
        /\ t.writerIndex_ = kCheapPrepend
    BY <1>0, <1>3 DEF Retrieved, Good, Buffers
  <2>2. Good(t) /\ readableBytes(t) = 0
    BY <1>0, <2>1 DEF Good, Ordered, readableBytes
  <2>3. Content(t) \in Seq(Byte) /\ Len(Content(t)) = 0
    BY <2>2, ContentIsSeq
  <2>4. /\ SubSeq(Content(s), m + 1, m) \in Seq(Byte)
        /\ Len(SubSeq(Content(s), m + 1, m)) = 0
    BY <1>1
  <2>5. Content(t) = SubSeq(Content(s), m + 1, m)
    BY <2>3, <2>4, SameSeq
  <2> QED BY <1>1, <1>3, <2>2, <2>5
<1> QED BY <1>2, <1>3

(* readFd does what append does, by way of two areas (Buffer.cc:10-37). *)
LEMMA FilledPuts ==
  ASSUME NEW s, Good(s), NEW data \in Seq(Byte)
  PROVE  Good(Filled(s, data)) /\ Content(Filled(s, data)) = Content(s) \o data
<1> DEFINE k == writableBytes(s)
<1>0. /\ s.buffer_ \in Seq(Byte)
      /\ s.readerIndex_ \in Nat
      /\ s.writerIndex_ \in Nat
      /\ Len(s.buffer_) \in Nat
      /\ k \in Nat
      /\ Len(s.buffer_) = s.writerIndex_ + k
  BY DEF Good, Buffers, Ordered, writableBytes
<1>1. CASE Len(data) <= k
  <2> DEFINE b == Copied(s.buffer_, s.writerIndex_, data)
             t == Filled(s, data)
  <2>1. t = [s EXCEPT !.buffer_ = b, !.writerIndex_ = s.writerIndex_ + Len(data)]
    BY <1>1 DEF Filled
  <2>2. b \in Seq(Byte)
    BY <1>0, CopiedIsSeq
  <2>3. /\ t \in Buffers
        /\ t.buffer_ = b
        /\ t.readerIndex_ = s.readerIndex_
        /\ t.writerIndex_ = s.writerIndex_ + Len(data)
    <3> HIDE DEF b, t
    <3>1. /\ s \in [buffer_ : Seq(Byte), readerIndex_ : Nat, writerIndex_ : Nat]
          /\ s.writerIndex_ + Len(data) \in Nat
      BY <1>0 DEF Good, Buffers
    <3>2. t = [buffer_ |-> b, readerIndex_ |-> s.readerIndex_,
               writerIndex_ |-> s.writerIndex_ + Len(data)]
      BY <2>1, <3>1
    <3> QED BY <2>2, <3>1, <3>2 DEF Buffers
  <2> HIDE DEF t
  <2>4. Good(t) /\ Content(t) = Content(s) \o data
    BY <1>0, <1>1, <2>3, CopyAppends
  <2> QED BY <2>4 DEF t
<1>2. CASE k < Len(data)
  <2> DEFINE front == SubSeq(data, 1, k)
             back == SubSeq(data, k + 1, Len(data))
             b == Copied(s.buffer_, s.writerIndex_, front)
             t == [s EXCEPT !.buffer_ = b, !.writerIndex_ = Len(s.buffer_)]
  <2>1. Filled(s, data) = Appended(t, back)
    BY <1>0, <1>2 DEF Filled
  <2>2. /\ front \in Seq(Byte)
        /\ back \in Seq(Byte)
        /\ Len(front) = k
        /\ Len(back) = Len(data) - k
        /\ front \o back = data
    <3>1. k \in Nat /\ k <= Len(data)
      BY <1>0, <1>2
    <3> HIDE DEF k
    <3> QED BY <3>1, SplitSeq
  <2> HIDE DEF front, back
  <2>4. b \in Seq(Byte)
    BY <1>0, <2>2, CopiedIsSeq
  <2>5. t = [buffer_ |-> b, readerIndex_ |-> s.readerIndex_,
             writerIndex_ |-> Len(s.buffer_)]
    <3> HIDE DEF b
    <3>1. s \in [buffer_ : Seq(Byte), readerIndex_ : Nat, writerIndex_ : Nat]
      BY DEF Good, Buffers
    <3>2. t = [s EXCEPT !.buffer_ = b, !.writerIndex_ = Len(s.buffer_)]
      OBVIOUS
    <3> HIDE DEF t
    <3> QED BY <3>1, <3>2
  <2> HIDE DEF t
  <2>6. /\ t \in Buffers
        /\ t.buffer_ = b
        /\ t.readerIndex_ = s.readerIndex_
        /\ t.writerIndex_ = s.writerIndex_ + Len(front)
    <3> HIDE DEF b
    <3> QED BY <1>0, <2>2, <2>4, <2>5 DEF Buffers
  <2>7. Good(t) /\ Content(t) = Content(s) \o front
    <3>1. /\ writableBytes(s) >= Len(front) /\ front \in Seq(Byte)
          /\ t.buffer_ = Copied(s.buffer_, s.writerIndex_, front)
      BY <1>2, <2>2, <2>6
    <3> HIDE DEF b, k
    <3> QED BY <2>6, <3>1, CopyAppends
  <2>8. /\ Good(Appended(t, back))
        /\ Content(Appended(t, back)) = Content(t) \o back
    BY <2>2, <2>7, AppendPuts
  <2>9. (Content(s) \o front) \o back = Content(s) \o (front \o back)
    <3>1. Content(s) \in Seq(Byte)
      BY ContentIsSeq
    <3>2. front \in Seq(Byte) /\ back \in Seq(Byte)
      BY <2>2
    <3> QED BY <3>1, <3>2, ConcatAssociates
  <2> QED BY <2>1, <2>2, <2>7, <2>8, <2>9
<1> QED BY <1>0, <1>1, <1>2

-----------------------------------------------------------------------------
(* append grows the vector only when it has to (Buffer.h:126-141). *)
LEMMA AppendGrows ==
  ASSUME NEW s, Good(s), NEW data \in Seq(Byte),
         Len(Appended(s, data).buffer_) > Len(s.buffer_)
  PROVE  readableBytes(s) + Len(data) > Len(s.buffer_) - kCheapPrepend
<1> USE BufferAssumption
<1> DEFINE e == EnsureWritableBytes(s, Len(data))
           b == Copied(e.buffer_, e.writerIndex_, data)
<1>0. /\ s.buffer_ \in Seq(Byte)
      /\ s.readerIndex_ \in Nat
      /\ s.writerIndex_ \in Nat
      /\ Len(s.buffer_) \in Nat
      /\ Len(data) \in Nat
      /\ kCheapPrepend \in Nat
      /\ Ordered(s)
  BY DEF Good, Buffers
<1>1. e \in [buffer_ : Seq(Byte), readerIndex_ : Nat, writerIndex_ : Nat]
  BY <1>0, EnsureKeeps DEF Good, Buffers
<1>2. Appended(s, data) = [e EXCEPT !.buffer_ = b,
                             !.writerIndex_ = e.writerIndex_ + Len(data)]
  BY DEF Appended
<1> HIDE DEF e
<1>3. Len(b) = Len(e.buffer_)
  BY <1>0, <1>1, CopiedIsSeq
<1> HIDE DEF b
<1>4. Appended(s, data).buffer_ = b
  BY <1>1, <1>2
<1>5. Len(e.buffer_) > Len(s.buffer_)
  BY <1>3, <1>4
<1>6. CASE writableBytes(s) + prependableBytes(s) < Len(data) + kCheapPrepend
  BY <1>0, <1>6 DEF writableBytes, prependableBytes, readableBytes
<1>7. CASE ~(writableBytes(s) + prependableBytes(s)
               < Len(data) + kCheapPrepend)
  <2>1. e = s \/ e.buffer_ = Copied(s.buffer_, kCheapPrepend, Content(s))
    BY <1>7 DEF e, EnsureWritableBytes, MakeSpace
  <2>2. Len(Copied(s.buffer_, kCheapPrepend, Content(s))) = Len(s.buffer_)
    BY <1>0, ContentIsSeq, CopiedIsSeq
  <2>3. Len(e.buffer_) = Len(s.buffer_)
    BY <2>1, <2>2
  <2> QED BY <1>0, <1>5, <2>3
<1> QED BY <1>6, <1>7

(* So does readFd, which calls it for what extrabuf holds. *)
LEMMA FilledGrows ==
  ASSUME NEW s, Good(s), NEW data \in Seq(Byte),
         Len(Filled(s, data).buffer_) > Len(s.buffer_)
  PROVE  readableBytes(s) + Len(data) > Len(s.buffer_) - kCheapPrepend
<1> USE BufferAssumption
<1> DEFINE k == writableBytes(s)
<1>0. /\ s.buffer_ \in Seq(Byte)
      /\ s.readerIndex_ \in Nat
      /\ s.writerIndex_ \in Nat
      /\ Len(s.buffer_) \in Nat
      /\ Len(data) \in Nat
      /\ kCheapPrepend \in Nat
      /\ kCheapPrepend <= s.readerIndex_
      /\ k \in Nat
      /\ Len(s.buffer_) = s.writerIndex_ + k
  BY DEF Good, Buffers, Ordered, writableBytes
<1>1. CASE Len(data) <= k
  <2> DEFINE b == Copied(s.buffer_, s.writerIndex_, data)
  <2>1. Filled(s, data) = [s EXCEPT !.buffer_ = b,
                             !.writerIndex_ = s.writerIndex_ + Len(data)]
    BY <1>1 DEF Filled
  <2>2. Len(b) = Len(s.buffer_)
    BY <1>0, CopiedIsSeq
  <2>3. Filled(s, data).buffer_ = b
    <3> HIDE DEF b
    <3>1. s \in [buffer_ : Seq(Byte), readerIndex_ : Nat, writerIndex_ : Nat]
      BY DEF Good, Buffers
    <3> QED BY <2>1, <3>1
  <2> QED BY <1>0, <2>2, <2>3
<1>2. CASE k < Len(data)
  <2> DEFINE front == SubSeq(data, 1, k)
             back == SubSeq(data, k + 1, Len(data))
             b == Copied(s.buffer_, s.writerIndex_, front)
             t == [s EXCEPT !.buffer_ = b, !.writerIndex_ = Len(s.buffer_)]
  <2>1. Filled(s, data) = Appended(t, back)
    BY <1>0, <1>2 DEF Filled
  <2>2. /\ front \in Seq(Byte)
        /\ back \in Seq(Byte)
        /\ Len(back) = Len(data) - k
    <3>1. k \in Nat /\ k <= Len(data)
      BY <1>0, <1>2
    <3> HIDE DEF k
    <3> QED BY <3>1, SplitSeq
  <2> HIDE DEF front, back
  <2>3. b \in Seq(Byte) /\ Len(b) = Len(s.buffer_)
    BY <1>0, <2>2, CopiedIsSeq
  <2>4. t = [buffer_ |-> b, readerIndex_ |-> s.readerIndex_,
             writerIndex_ |-> Len(s.buffer_)]
    <3> HIDE DEF b
    <3>1. s \in [buffer_ : Seq(Byte), readerIndex_ : Nat, writerIndex_ : Nat]
      BY DEF Good, Buffers
    <3>2. t = [s EXCEPT !.buffer_ = b, !.writerIndex_ = Len(s.buffer_)]
      OBVIOUS
    <3> HIDE DEF t
    <3> QED BY <3>1, <3>2
  <2> HIDE DEF b, t
  <2>5. Good(t) /\ readableBytes(t) = readableBytes(s) + k
    BY <1>0, <2>3, <2>4 DEF Good, Buffers, Ordered, readableBytes
  <2>6. Len(t.buffer_) = Len(s.buffer_)
    BY <2>3, <2>4
  <2>7. readableBytes(t) + Len(back) > Len(t.buffer_) - kCheapPrepend
    BY <2>1, <2>2, <2>5, <2>6, AppendGrows
  <2>8. readableBytes(s) \in Nat
    BY ContentIsSeq
  <2> QED BY <1>0, <1>2, <2>2, <2>5, <2>6, <2>7, <2>8
<1> QED BY <1>0, <1>1, <1>2

-----------------------------------------------------------------------------
(* Every operation, as a step of the queue that keeps the indices ordered. *)

LEMMA InitGood ==
  ASSUME Init
  PROVE  TypeOK /\ Queue!Init
<1> USE BufferAssumption
<1>1. kCheapPrepend + kInitialSize \in Nat
  OBVIOUS
<1>2. /\ [i \in 1 .. kCheapPrepend + kInitialSize |-> Zero] \in Seq(Byte)
      /\ Len([i \in 1 .. kCheapPrepend + kInitialSize |-> Zero])
           = kCheapPrepend + kInitialSize
  BY <1>1
<1>3. Good(buf) /\ readableBytes(buf) = 0
  BY <1>1, <1>2 DEF Init, Good, Buffers, Ordered, readableBytes
<1>4. Content(buf) = <<>>
  BY <1>3, ContentIsSeq
<1> QED BY <1>3, <1>4 DEF Init, TypeOK, Good, Queue!Init

LEMMA StepGood ==
  ASSUME TypeOK, [Next]_vars
  PROVE  TypeOK' /\ [Queue!Next]_(Queue!vars)
<1> USE BufferAssumption
<1>0. Good(buf) /\ moved \in Seq(Byte)
  BY DEF TypeOK, Good
<1>1. /\ Content(buf) \in Seq(Byte)
      /\ Len(Content(buf)) = readableBytes(buf)
      /\ readableBytes(buf) \in Nat
  BY <1>0, ContentIsSeq
<1>2. ASSUME NEW data \in Data, append(data) \/ readFd(data)
      PROVE  TypeOK' /\ Queue!Next
  <2>1. data \in Seq(Byte)
    OBVIOUS
  <2>2. /\ Good(buf')
        /\ Content(buf') = Content(buf) \o data
        /\ moved' = data
    BY <1>0, <1>2, <2>1, AppendPuts, FilledPuts DEF append, readFd
  <2>3. Queue!Put(data)
    BY <2>2 DEF Queue!Put, Content, readableBytes
  <2> QED BY <2>1, <2>2, <2>3 DEF TypeOK, Good, Ordered, Queue!Next
<1>3. ASSUME NEW len \in 0 .. readableBytes(buf) + 1,
             retrieve(len) \/ retrieveAsString(len)
      PROVE  TypeOK' /\ Queue!Next
  <2> DEFINE n == IF len < readableBytes(buf) THEN len ELSE readableBytes(buf)
  <2>1. len \in Nat /\ n \in 0 .. Len(Content(buf))
    BY <1>1
  <2>2. /\ Good(buf')
        /\ Content(buf') = SubSeq(Content(buf), n + 1, Len(Content(buf)))
    <3>1. buf' = Retrieved(buf, len)
      BY <1>3 DEF retrieve, retrieveAsString
    <3> QED BY <1>0, <2>1, <3>1, RetrieveDrops
  <2>3. CASE retrieve(len)
    <3>1. Queue!Drop(n) /\ moved' = <<>>
      BY <2>2, <2>3 DEF retrieve, Queue!Drop, Queue!Rest, Content, readableBytes
    <3> QED BY <2>1, <2>2, <3>1 DEF TypeOK, Good, Ordered, Queue!Next
  <2>4. CASE retrieveAsString(len)
    <3>1. len = n /\ moved' = SubSeq(Content(buf), 1, n)
      BY <1>1, <2>1, <2>4 DEF retrieveAsString
    <3>2. Queue!Take(n)
      BY <2>2, <3>1 DEF Queue!Take, Queue!Rest, Content, readableBytes
    <3>3. moved' \in Seq(Byte)
      BY <1>1, <2>1, <3>1
    <3> QED BY <2>1, <2>2, <3>2, <3>3 DEF TypeOK, Good, Ordered, Queue!Next
  <2> QED BY <1>3, <2>3, <2>4
<1>4. CASE UNCHANGED vars
  BY <1>4 DEF vars, TypeOK, Ordered, Queue!vars, Content, readableBytes
<1> QED BY <1>2, <1>3, <1>4 DEF Next

(* The indices stay in the order that Buffer.h:15 draws, so that no call   *)
(* reads or writes outside the vector.                                     *)
THEOREM TypeCorrect == Spec => []TypeOK
<1>1. Init => TypeOK
  BY InitGood
<1>2. TypeOK /\ [Next]_vars => TypeOK'
  BY StepGood
<1> QED BY <1>1, <1>2, PTL DEF Spec

(* For every set of bytes and of data, every room in front, initial room   *)
(* and size of extrabuf, a Buffer behaves as the queue of its readable     *)
(* bytes: nothing is lost, doubled or reordered (Buffer.h:52-141,          *)
(* Buffer.cc:10-37).                                                       *)
THEOREM ImplementsByteQueue == Spec => IsByteQueue
<1>1. Init => Queue!Init
  BY InitGood
<1>2. TypeOK /\ [Next]_vars => [Queue!Next]_(Queue!vars)
  BY StepGood
<1> QED BY <1>1, <1>2, TypeCorrect, PTL DEF Spec, IsByteQueue, Queue!Spec

(* The vector grows only when it could not hold what is to be readable,    *)
(* wherever in it that was (Buffer.h:126-141).                             *)
THEOREM GrowsOnlyWhenFull == Spec => GrowsWhenFull
<1> USE BufferAssumption
<1> DEFINE Grows ==
      Len(buf'.buffer_) > Len(buf.buffer_)
        => readableBytes(buf)' > Len(buf.buffer_) - kCheapPrepend
<1>1. TypeOK /\ [Next]_vars => [Grows]_vars
  <2> SUFFICES ASSUME TypeOK, Next, Len(buf'.buffer_) > Len(buf.buffer_)
               PROVE  readableBytes(buf)' > Len(buf.buffer_) - kCheapPrepend
    OBVIOUS
  <2>1. Good(buf)
    BY DEF TypeOK, Good
  <2>2. ASSUME NEW data \in Data, append(data) \/ readFd(data)
        PROVE  readableBytes(buf)' > Len(buf.buffer_) - kCheapPrepend
    <3>1. data \in Seq(Byte)
      OBVIOUS
    <3>2. Good(buf') /\ Content(buf') = Content(buf) \o data
      BY <2>1, <2>2, <3>1, AppendPuts, FilledPuts DEF append, readFd
    <3>3. readableBytes(buf') = readableBytes(buf) + Len(data)
      <4>1. /\ Content(buf) \in Seq(Byte)
            /\ Len(Content(buf)) = readableBytes(buf)
        BY <2>1, ContentIsSeq
      <4>2. Len(Content(buf')) = readableBytes(buf')
        BY <3>2, ContentIsSeq
      <4>3. Len(Content(buf) \o data) = Len(Content(buf)) + Len(data)
        BY <3>1, <4>1
      <4> QED BY <3>2, <4>1, <4>2, <4>3
    <3>4. readableBytes(buf) + Len(data) > Len(buf.buffer_) - kCheapPrepend
      BY <2>1, <2>2, <3>1, AppendGrows, FilledGrows DEF append, readFd
    <3> QED BY <3>3, <3>4 DEF readableBytes
  <2>3. ASSUME NEW len \in 0 .. readableBytes(buf) + 1,
               retrieve(len) \/ retrieveAsString(len)
        PROVE  FALSE
    <3>1. buf' = Retrieved(buf, len)
      BY <2>3 DEF retrieve, retrieveAsString
    <3>2. buf'.buffer_ = buf.buffer_
      <4>1. buf \in [buffer_ : Seq(Byte), readerIndex_ : Nat,
                     writerIndex_ : Nat]
        BY <2>1 DEF Good, Buffers
      <4> QED BY <3>1, <4>1 DEF Retrieved
    <3>3. Len(buf.buffer_) \in Nat
      BY <2>1 DEF Good, Buffers
    <3> QED BY <3>2, <3>3
  <2> QED BY <2>2, <2>3 DEF Next
<1> QED BY <1>1, TypeCorrect, PTL DEF Spec, GrowsWhenFull
=============================================================================

------------------------ MODULE TcpConnectionProofs -------------------------
(***************************************************************************)
(* The safety of TcpConnection, for any messages, threads and sizes.       *)
(* The functor queue says most of it: connectEstablished is its head until *)
(* it has run, and behind a call with a raw pointer stands                 *)
(* connectDestroyed, once the connection is erased.                        *)
(***************************************************************************)
EXTENDS TcpConnectionProps, SequenceTheorems, TLAPS

Est == <<"established">>
Des == <<"destroyed">>
Callback == <<"callback">>

IsRaw(f) == f[1] \in {"send", "shutdown"}

EstFirst(q, s) ==
  \A i \in 1 .. Len(q) : q[i] = Est <=> i = 1 /\ s = "kConnecting"

RawCovered(q) ==
  \A i \in 1 .. Len(q) :
    IsRaw(q[i]) => \E j \in i + 1 .. Len(q) : q[j] = Des

(* Nothing has happened before connectEstablished. *)
Fresh ==
  /\ EstFirst(functors, state_)
  /\ state_ = "kConnecting" =>
       /\ functors # <<>> /\ loop = "idle" /\ inCallback = "none"
       /\ index_ = "kNew" /\ events_ = {} /\ outputBuffer_ = <<>> /\ ~closed
       /\ \A t \in Threads : call[t] = <<"none">>

(* A channel that is being handled is known to the poller. *)
Reports ==
  /\ revents_ \cap {"hup", "in"} # {} => index_ = "kAdded"
  /\ loop # "idle" => index_ # "kNew"
  /\ "hup" \in revents_ => peer # "open"

WritesBuffered ==
  ~closed /\ index_ # "kNew" => (isWriting <=> outputBuffer_ # <<>>)

(* Only a shutdown by another thread undoes what handleClose did. *)
Down ==
  Shutters = {} =>
    /\ closed => state_ = "kDisconnected" /\ index_ # "kAdded"
    /\ \A t \in Threads : call[t] \notin {<<"shutdown">>, <<"queue shutdown">>}

RawGuarded ==
  /\ ~late /\ erased => RawCovered(functors)
  /\ deadUse => late

InSendOrder(out, taken) ==
  /\ \A i \in 1 .. Len(out) : \E a \in 1 .. Len(taken) : taken[a] = out[i][1]
  /\ \A i, j \in 1 .. Len(out) :
       i < j => \E a, b \in 1 .. Len(taken) : /\ a <= b
                                              /\ taken[a] = out[i][1]
                                              /\ taken[b] = out[j][1]

Ordered == InSendOrder(Output, sent)

Inv ==
  /\ TypeOK /\ Fresh /\ Reports /\ WritesBuffered /\ Down /\ RawGuarded
  /\ Ordered

-----------------------------------------------------------------------------
(* Functors and sequences. *)

LEMMA FunctorFacts ==
  /\ {Est, Des, Callback, <<"shutdown">>} \subseteq Functor
  /\ \A m \in Messages : /\ <<"send", m>> \in Functor
                         /\ IsRaw(<<"send", m>>) /\ <<"send", m>> # Est
                         /\ <<"send", m>> # Des
  /\ IsRaw(<<"shutdown">>) /\ ~IsRaw(Est) /\ ~IsRaw(Des) /\ ~IsRaw(Callback)
  /\ Est # Des /\ Est # Callback /\ Est # <<"shutdown">> /\ Des # Callback
  BY DEF Est, Des, Callback, Functor, Plain, IsRaw

LEMMA QueueAppend ==
  ASSUME NEW q \in Seq(Functor), NEW f \in Functor, f # Est, NEW s,
         EstFirst(q, s), s = "kConnecting" => q # <<>>
  PROVE  /\ Append(q, f) \in Seq(Functor) /\ Append(q, f) # <<>>
         /\ EstFirst(Append(q, f), s)
         /\ RawCovered(q) /\ ~IsRaw(f) => RawCovered(Append(q, f))
         /\ f = Des => RawCovered(Append(q, f))
<1> DEFINE r == Append(q, f)
<1>1. /\ r \in Seq(Functor) /\ Len(r) = Len(q) + 1 /\ Len(q) \in Nat
      /\ \A i \in 1 .. Len(q) : r[i] = q[i]
      /\ r[Len(q) + 1] = f
  BY AppendProperties
<1>2. r # <<>> /\ (q # <<>> => Len(q) > 0)
  BY <1>1
<1> HIDE DEF r
<1>3. EstFirst(r, s)
  BY <1>1, <1>2 DEF EstFirst
<1>4. RawCovered(q) /\ ~IsRaw(f) => RawCovered(r)
  BY <1>1 DEF RawCovered
<1>5. ASSUME f = Des PROVE RawCovered(r)
  <2>1. ~IsRaw(f)
    BY <1>5, FunctorFacts
  <2> QED BY <1>1, <1>5, <2>1 DEF RawCovered
<1> QED BY <1>1, <1>2, <1>3, <1>4, <1>5 DEF r

LEMMA QueueTail ==
  ASSUME NEW q \in Seq(Functor), q # <<>>, NEW s, EstFirst(q, s)
  PROVE  /\ Head(q) \in Functor /\ Tail(q) \in Seq(Functor)
         /\ Head(q) = Est <=> s = "kConnecting"
         /\ \A t : t # "kConnecting" => EstFirst(Tail(q), t)
         /\ RawCovered(q) => RawCovered(Tail(q))
         /\ RawCovered(q) /\ IsRaw(Head(q)) => Des \in ToSet(q)
<1> DEFINE r == Tail(q)
<1>1. /\ Head(q) \in Functor /\ r \in Seq(Functor)
      /\ Len(r) = Len(q) - 1 /\ Len(q) \in Nat \ {0} /\ Head(q) = q[1]
      /\ \A i \in 1 .. Len(r) : r[i] = q[i + 1]
  OBVIOUS
<1> HIDE DEF r
<1>2. Head(q) = Est <=> s = "kConnecting"
  BY <1>1 DEF EstFirst
<1>3. \A t : t # "kConnecting" => EstFirst(r, t)
  BY <1>1 DEF EstFirst
<1>4. ASSUME RawCovered(q), NEW i \in 1 .. Len(r), IsRaw(r[i])
      PROVE  \E j \in i + 1 .. Len(r) : r[j] = Des
  <2>1. PICK j \in i + 2 .. Len(q) : q[j] = Des
    <3>1. i + 1 \in 1 .. Len(q) /\ IsRaw(q[i + 1])
      BY <1>1, <1>4
    <3> QED BY <1>1, <1>4, <3>1 DEF RawCovered
  <2>2. j - 1 \in i + 1 .. Len(r) /\ r[j - 1] = Des
    BY <1>1, <2>1
  <2> QED BY <2>2
<1>5. ASSUME RawCovered(q), IsRaw(Head(q)) PROVE Des \in ToSet(q)
  BY <1>1, <1>5 DEF RawCovered, ToSet
<1> QED BY <1>1, <1>2, <1>3, <1>4, <1>5 DEF r, RawCovered

LEMMA BytesAssociative ==
  \A r, u, v \in Seq(Byte) : (r \o u) \o v = r \o (u \o v)
<1> TAKE r, u, v \in Seq(Byte)
<1> QED BY ConcatAssociative

(* Bytes of a message that has been taken on, behind all others. *)
LEMMA OrderExtended ==
  ASSUME NEW out \in Seq(Byte), NEW taken \in Seq(Messages),
         InSendOrder(out, taken),
         NEW m \in Messages, NEW x \in Seq(Byte),
         \A i \in 1 .. Len(x) : x[i][1] = m
  PROVE  InSendOrder(out \o x, Append(taken, m))
<1> DEFINE new == out \o x
           all == Append(taken, m)
<1>1. /\ new \in Seq(Byte) /\ Len(new) = Len(out) + Len(x)
      /\ Len(out) \in Nat /\ Len(x) \in Nat
      /\ \A i \in 1 .. Len(out) : new[i] = out[i]
      /\ \A i \in Len(out) + 1 .. Len(new) : new[i][1] = m
  BY ConcatProperties
<1>2. /\ Len(all) = Len(taken) + 1 /\ Len(taken) \in Nat
      /\ \A a \in 1 .. Len(taken) : all[a] = taken[a]
      /\ all[Len(taken) + 1] = m
  BY AppendProperties
<1> HIDE DEF new, all
<1>3. ASSUME NEW i \in 1 .. Len(new)
      PROVE  \E a \in 1 .. Len(all) :
               all[a] = new[i][1] /\ (i > Len(out) => a = Len(all))
  <2>1. CASE i \in 1 .. Len(out)
    <3>1. PICK a \in 1 .. Len(taken) : taken[a] = out[i][1]
      BY <2>1 DEF InSendOrder
    <3>2. a \in 1 .. Len(all) /\ all[a] = new[i][1] /\ ~(i > Len(out))
      BY <1>1, <1>2, <2>1, <3>1
    <3> QED BY <3>2
  <2>2. CASE i > Len(out)
    <3>1. Len(all) \in 1 .. Len(all) /\ all[Len(all)] = m
      BY <1>2
    <3>2. new[i][1] = m
      BY <1>1, <2>2
    <3> QED BY <3>1, <3>2
  <2>3. i \in 1 .. Len(out) \/ i > Len(out)
    BY <1>1
  <2> QED BY <2>1, <2>2, <2>3
<1>4. ASSUME NEW i \in 1 .. Len(new), NEW j \in 1 .. Len(new), i < j
      PROVE  \E a, b \in 1 .. Len(all) : /\ a <= b
                                         /\ all[a] = new[i][1]
                                         /\ all[b] = new[j][1]
  <2>1. CASE j \in 1 .. Len(out)
    <3>1. i \in 1 .. Len(out) /\ new[i] = out[i] /\ new[j] = out[j]
      BY <1>1, <1>4, <2>1
    <3>2. PICK a \in 1 .. Len(taken), b \in 1 .. Len(taken) :
            a <= b /\ taken[a] = out[i][1] /\ taken[b] = out[j][1]
      BY <1>4, <2>1, <3>1 DEF InSendOrder
    <3>3. /\ a \in 1 .. Len(all) /\ b \in 1 .. Len(all)
          /\ all[a] = new[i][1] /\ all[b] = new[j][1]
      BY <1>2, <3>1, <3>2
    <3> QED BY <3>2, <3>3
  <2>2. CASE j > Len(out)
    <3>1. PICK a \in 1 .. Len(all) : all[a] = new[i][1]
      BY <1>3
    <3>2. PICK b \in 1 .. Len(all) : all[b] = new[j][1] /\ b = Len(all)
      BY <1>3, <2>2
    <3>3. a <= b
      BY <1>2, <3>1, <3>2
    <3> QED BY <3>1, <3>2, <3>3
  <2>3. j \in 1 .. Len(out) \/ j > Len(out)
    BY <1>1
  <2> QED BY <2>1, <2>2, <2>3
<1> QED BY <1>3, <1>4 DEF InSendOrder, new, all

(* How Output may grow: by bytes of a message that is taken on with them.  *)
OutputGrows ==
  \/ Output' = Output /\ sent' = sent
  \/ \E m \in Messages, x \in Seq(Byte) :
       /\ \A i \in 1 .. Len(x) : x[i][1] = m
       /\ Output' = Output \o x
       /\ sent' = Append(sent, m)

LEMMA GrowsInOrder ==
  ASSUME TypeOK, Ordered, OutputGrows
  PROVE  Ordered'
<1>1. Output \in Seq(Byte) /\ sent \in Seq(Messages)
  BY ConcatProperties DEF TypeOK, Output
<1>2. CASE Output' = Output /\ sent' = sent
  BY <1>2 DEF Ordered
<1>3. ASSUME NEW m \in Messages, NEW x \in Seq(Byte),
             \A i \in 1 .. Len(x) : x[i][1] = m,
             Output' = Output \o x, sent' = Append(sent, m)
      PROVE  Ordered'
  BY <1>1, <1>3, OrderExtended DEF Ordered
<1> QED BY <1>2, <1>3 DEF OutputGrows

-----------------------------------------------------------------------------
(* sendInLoop. *)

LEMMA BytesFacts ==
  ASSUME NEW m \in Messages, NEW from \in Int, NEW n \in Int,
         from >= -1, from + n <= Length[m]
  PROVE  /\ Bytes(m, from, n) \in Seq(Byte)
         /\ Len(Bytes(m, from, n)) = IF n > 0 THEN n ELSE 0
         /\ \A i \in 1 .. n : Bytes(m, from, n)[i][1] = m
<1> DEFINE x == Bytes(m, from, n)
           k == IF n > 0 THEN n ELSE 0
<1>1. k \in Nat /\ 1 .. n = 1 .. k /\ Length[m] \in Nat
  BY TcpConnectionAssumption
<1>2. ASSUME NEW i \in 1 .. n
      PROVE  x[i] \in Byte /\ x[i][1] = m
  <2>1. PICK b \in -1 .. Length[m] : x[i] = <<m, b>>
    <3>1. -1 \in -1 .. Length[m] /\ from + i \in -1 .. Length[m]
      BY <1>1
    <3> QED BY <3>1 DEF Bytes
  <2>2. {m} \X (-1 .. Length[m]) \in
          {{p} \X (-1 .. Length[p]) : p \in Messages}
    OBVIOUS
  <2> QED BY <2>1, <2>2 DEF Byte
<1>3. x \in [1 .. k -> Byte]
  BY <1>1, <1>2 DEF Bytes
<1>4. x \in Seq(Byte) /\ Len(x) = k
  BY <1>1, <1>3
<1> QED BY <1>2, <1>4

(* What sendInLoop does with message m when the functor queue is q. *)
ChannelAfterSend ==
  \/ /\ UNCHANGED channelVars
     /\ outputBuffer_' = outputBuffer_ \/ (isWriting /\ outputBuffer_' # <<>>)
  \/ /\ state_ # "kDisconnected" /\ ~isWriting
     /\ Update(events_ \cup {"out"})
     /\ outputBuffer_' # <<>>

SendEffect(q) ==
  /\ functors' \in {q, Append(q, Callback)}
  /\ outputBuffer_' \in Seq(Byte) /\ wire' \in Seq(Byte)
  /\ sent' \in Seq(Messages)
  /\ UNCHANGED <<peer, fin>>
  /\ ChannelAfterSend
  /\ OutputGrows

LEMMA SaveEffect ==
  ASSUME TypeOK, NEW m \in Messages, NEW q, NEW nwrote \in {-1, 0},
         NEW remaining \in 1 .. Length[m], state_ # "kDisconnected",
         Save(m, nwrote, remaining, q)
  PROVE  /\ functors' \in {q, Append(q, Callback)}
         /\ outputBuffer_' = outputBuffer_ \o Bytes(m, nwrote, remaining)
         /\ outputBuffer_' \in Seq(Byte) /\ outputBuffer_' # <<>>
         /\ ChannelAfterSend
         /\ sent' = Append(sent, m) /\ sent' \in Seq(Messages)
<1>1. /\ Length[m] \in Nat /\ nwrote \in Int /\ remaining \in Int
      /\ nwrote >= -1 /\ nwrote + remaining <= Length[m] /\ remaining > 0
  BY TcpConnectionAssumption
<1>2. /\ Bytes(m, nwrote, remaining) \in Seq(Byte)
      /\ Len(Bytes(m, nwrote, remaining)) > 0
  BY <1>1, BytesFacts
<1>3. /\ outputBuffer_' = outputBuffer_ \o Bytes(m, nwrote, remaining)
      /\ outputBuffer_ \in Seq(Byte) /\ sent \in Seq(Messages)
      /\ sent' = Append(sent, m)
  BY DEF TypeOK, Save
<1>4. /\ outputBuffer_' \in Seq(Byte)
      /\ Len(outputBuffer_') = Len(outputBuffer_)
                                 + Len(Bytes(m, nwrote, remaining))
  BY <1>2, <1>3, ConcatProperties
<1>5. outputBuffer_' # <<>>
  BY <1>2, <1>3, <1>4, LenProperties
<1>6. functors' \in {q, Append(q, Callback)}
  BY DEF Save, Callback
<1>7. ChannelAfterSend
  BY <1>5 DEF Save, ChannelAfterSend
<1>8. sent' \in Seq(Messages)
  BY <1>3, AppendProperties
<1> QED BY <1>3, <1>4, <1>5, <1>6, <1>7, <1>8

LEMMA WriteDirectlyEffect ==
  ASSUME TypeOK, NEW m \in Messages, NEW q, state_ # "kDisconnected",
         outputBuffer_ = <<>>, WriteDirectly(m, q), UNCHANGED <<peer, fin>>
  PROVE  SendEffect(q)
<1>1. /\ Length[m] \in Nat /\ sent \in Seq(Messages) /\ wire \in Seq(Byte)
      /\ Append(sent, m) \in Seq(Messages)
  BY TcpConnectionAssumption, AppendProperties DEF TypeOK
<1>2. PICK k \in Written(Length[m]) :
        /\ wire' = wire \o Bytes(m, 0, k)
        /\ \/ /\ k >= 0 /\ k = Length[m]
              /\ Skip(IF HasWriteComplete THEN Append(q, <<"callback">>)
                                          ELSE q)
              /\ sent' = Append(sent, m)
           \/ /\ k >= 0 /\ k # Length[m]
              /\ \/ Save(m, 0, Length[m] - k, q)
                 \/ Skip(q) /\ sent' = Append(sent, m)
           \/ /\ k < 0
              /\ Save(m, k, Length[m], q)
  BY DEF WriteDirectly
<1>3. k \in -1 .. Length[m] /\ (k = -1 => Length[m] > 0)
  BY <1>1 DEF Written
<1> DEFINE x == Bytes(m, 0, k)
<1>4. /\ x \in Seq(Byte) /\ \A i \in 1 .. Len(x) : x[i][1] = m
      /\ wire' = wire \o x /\ wire' \in Seq(Byte)
  BY <1>1, <1>2, <1>3, BytesFacts, ConcatProperties
<1> HIDE DEF x
<1>5. Output = wire /\ (outputBuffer_' = <<>> => Output' = wire')
  BY <1>1, <1>4 DEF Output
<1>6. CASE Skip(q) \/ Skip(Append(q, Callback))
  <2>1. /\ sent' = Append(sent, m) /\ outputBuffer_' = <<>>
        /\ functors' \in {q, Append(q, Callback)} /\ UNCHANGED channelVars
    BY <1>2, <1>6 DEF Skip, Save
  <2>2. Output' = Output \o x
    BY <1>4, <1>5, <2>1
  <2>3. OutputGrows
    BY <1>4, <2>1, <2>2 DEF OutputGrows
  <2> QED BY <1>1, <1>4, <2>1, <2>3 DEF SendEffect, ChannelAfterSend, TypeOK
<1>7. CASE \/ k >= 0 /\ k # Length[m] /\ Save(m, 0, Length[m] - k, q)
           \/ k < 0 /\ Save(m, k, Length[m], q)
  <2>1. PICK nwrote \in {-1, 0}, remaining \in 1 .. Length[m] :
          Save(m, nwrote, remaining, q) /\ nwrote + remaining <= Length[m]
    BY <1>1, <1>3, <1>7
  <2> DEFINE y == Bytes(m, nwrote, remaining)
  <2>2. /\ functors' \in {q, Append(q, Callback)}
        /\ outputBuffer_' = outputBuffer_ \o y
        /\ outputBuffer_' \in Seq(Byte) /\ ChannelAfterSend
        /\ sent' = Append(sent, m)
    BY <2>1, SaveEffect
  <2>3. y \in Seq(Byte) /\ \A i \in 1 .. Len(y) : y[i][1] = m
    BY <1>1, <2>1, BytesFacts
  <2> HIDE DEF y
  <2>4. outputBuffer_' = y
    BY <2>2, <2>3, ConcatEmptySeq
  <2>5. Output' = wire \o (x \o y)
    <3>1. Output' = (wire \o x) \o y
      BY <1>4, <2>4 DEF Output
    <3>2. (wire \o x) \o y = wire \o (x \o y)
      BY <1>1, <1>4, <2>3, BytesAssociative, Zenon
    <3> QED BY <3>1, <3>2
  <2>6. x \o y \in Seq(Byte) /\ \A i \in 1 .. Len(x \o y) : (x \o y)[i][1] = m
    BY <1>4, <2>3, ConcatProperties
  <2> DEFINE z == x \o y
  <2>7. z \in Seq(Byte) /\ Output' = Output \o z
    BY <1>5, <2>5, <2>6
  <2>8. \A i \in 1 .. Len(z) : z[i][1] = m
    BY <2>6
  <2> HIDE DEF z
  <2>9. OutputGrows
    BY <2>2, <2>7, <2>8 DEF OutputGrows
  <2> QED BY <1>1, <1>4, <2>2, <2>9 DEF SendEffect
<1> QED BY <1>2, <1>6, <1>7 DEF Callback

LEMMA SendInLoopEffect ==
  ASSUME TypeOK, NEW m \in Messages, NEW q, SendInLoop(m, q)
  PROVE  SendEffect(q)
<1>1. /\ Length[m] \in Nat /\ sent \in Seq(Messages) /\ wire \in Seq(Byte)
      /\ outputBuffer_ \in Seq(Byte) /\ Output \in Seq(Byte)
      /\ UNCHANGED <<peer, fin>>
  BY TcpConnectionAssumption, ConcatProperties DEF TypeOK, Output, SendInLoop
<1>2. CASE state_ = "kDisconnected"
  <2>1. /\ functors' = q /\ UNCHANGED <<outputBuffer_, wire, sent>>
        /\ UNCHANGED channelVars
    BY <1>2 DEF SendInLoop, Skip
  <2>2. OutputGrows
    BY <2>1 DEF OutputGrows, Output
  <2> QED BY <1>1, <2>1, <2>2 DEF SendEffect, ChannelAfterSend
<1>3. CASE /\ state_ # "kDisconnected"
           /\ ~isWriting /\ outputBuffer_ = <<>>
           /\ WriteDirectly(m, q)
  BY <1>1, <1>3, WriteDirectlyEffect
<1>4. CASE /\ state_ # "kDisconnected"
           /\ Length[m] > 0 /\ Save(m, 0, Length[m], q) /\ wire' = wire
  <2> DEFINE y == Bytes(m, 0, Length[m])
  <2>1. /\ functors' \in {q, Append(q, Callback)}
        /\ outputBuffer_' = outputBuffer_ \o y
        /\ outputBuffer_' \in Seq(Byte) /\ ChannelAfterSend
        /\ sent' = Append(sent, m) /\ sent' \in Seq(Messages)
    <3>1. Length[m] \in 1 .. Length[m]
      BY <1>1, <1>4
    <3> QED BY <1>4, <3>1, SaveEffect
  <2>2. y \in Seq(Byte) /\ \A i \in 1 .. Len(y) : y[i][1] = m
    BY <1>1, BytesFacts
  <2> HIDE DEF y
  <2>3. Output' = Output \o y
    <3>1. Output' = wire \o (outputBuffer_ \o y)
      BY <1>4, <2>1 DEF Output
    <3>2. (wire \o outputBuffer_) \o y = wire \o (outputBuffer_ \o y)
      BY <1>1, <2>2, BytesAssociative, Zenon
    <3> QED BY <3>1, <3>2 DEF Output
  <2>4. OutputGrows
    BY <2>1, <2>2, <2>3 DEF OutputGrows
  <2> QED BY <1>1, <1>4, <2>1, <2>4 DEF SendEffect
<1>5. CASE Skip(q) /\ sent' = Append(sent, m) /\ wire' = wire
  <2>1. /\ functors' = q /\ outputBuffer_' = outputBuffer_
        /\ UNCHANGED channelVars
    BY <1>5 DEF Skip
  <2> DEFINE y == <<>>
  <2>2. /\ y \in Seq(Byte) /\ \A i \in 1 .. Len(y) : y[i][1] = m
        /\ Output' = Output \o y
    BY <1>1, <1>5, <2>1, ConcatEmptySeq DEF Output
  <2> HIDE DEF y
  <2>3. OutputGrows
    BY <1>5, <2>2 DEF OutputGrows
  <2>4. sent' \in Seq(Messages)
    BY <1>1, <1>5, AppendProperties
  <2> QED BY <1>1, <1>5, <2>1, <2>3, <2>4 DEF SendEffect, ChannelAfterSend
<1> QED BY <1>2, <1>3, <1>4, <1>5 DEF SendInLoop

-----------------------------------------------------------------------------
(* The invariant. *)

LEMMA CallFacts ==
  /\ {<<"none">>, <<"shutdown">>, <<"queue shutdown">>} \subseteq Call
  /\ \A m \in Messages :
       /\ <<"send", m>> \in Call
       /\ <<"send", m>> \notin {<<"shutdown">>, <<"queue shutdown">>}
       /\ <<"send", m>> # <<"none">>
  /\ <<"none">> \notin {<<"shutdown">>, <<"queue shutdown">>}
  BY DEF Call

(* A thread begins or goes on with a call: c is what it is then in. *)
LEMMA CallChanges ==
  ASSUME TypeOK, NEW t \in Threads, NEW c \in Call,
         call' = [call EXCEPT ![t] = c], c # <<"none">> => t \in kept
  PROVE  /\ call' \in [Threads -> Call] /\ call'[t] = c
         /\ \A u \in Threads : u # t => call'[u] = call[u]
         /\ \A u \in Threads : call'[u] # <<"none">> => u \in kept
<1>1. call \in [Threads -> Call]
  BY DEF TypeOK
<1>2. /\ call' \in [Threads -> Call] /\ call'[t] = c
      /\ \A u \in Threads : u # t => call'[u] = call[u]
  BY <1>1
<1>3. \A u \in Threads : call[u] # <<"none">> => u \in kept
  BY DEF TypeOK
<1> QED BY <1>2, <1>3

(* Such a step changes nothing else that is typed but state_ and functors. *)
LEMMA CallTypeOK ==
  ASSUME TypeOK, call' \in [Threads -> Call], state_' \in StateE,
         \A u \in Threads : call'[u] # <<"none">> => u \in kept,
         functors' \in Seq(Functor), late' \in BOOLEAN,
         UNCHANGED <<outputBuffer_, channelVars, loopVars, dropped, kept,
                     serverVars, kernelVars, closed, sent, deadUse>>
  PROVE  TypeOK'
<1> USE DEF channelVars, loopVars, serverVars, kernelVars
<1>1. /\ call' \in [Threads -> Call]
      /\ \A u \in Threads : call'[u] # <<"none">> => u \in kept'
  OBVIOUS
<1>2. /\ state_' \in StateE /\ functors' \in Seq(Functor)
      /\ outputBuffer_' \in Seq(Byte)
      /\ wire' \in Seq(Byte) /\ sent' \in Seq(Messages)
      /\ dropped' \in SUBSET Messages /\ kept' \in SUBSET Threads
  BY DEF TypeOK
<1>3. /\ events_' \in SUBSET {"in", "out"}
      /\ index_' \in {"kNew", "kAdded", "kDeleted"}
      /\ index_' = "kAdded" => events_' # {}
      /\ index_' = "kDeleted" => events_' = {}
  BY DEF TypeOK
<1>4. /\ loop' \in {"idle", "active", "handling"}
      /\ revents_' \in SUBSET {"hup", "in", "out"}
      /\ loop' = "idle" => revents_' = {}
      /\ inCallback' \in {"none", "message", "down", "other"}
      /\ inCallback' \in {"message", "down"} => loop' = "handling"
  BY DEF TypeOK
<1>5. /\ removals' \in Nat /\ erased' \in BOOLEAN
      /\ server' \in {"up", "gone"}
      /\ peer' \in {"open", "closed", "reset"}
      /\ {fin', closed', late', deadUse'} \subseteq BOOLEAN
  BY DEF TypeOK
<1> QED BY <1>1, <1>2, <1>3, <1>4, <1>5, Zenon DEF TypeOK

LEMMA InitInv == Init => Inv
<1> SUFFICES ASSUME Init PROVE Inv
  OBVIOUS
<1> USE DEF Init
<1>1. functors \in Seq(Functor) /\ Len(functors) = 1 /\ functors[1] = Est
  BY FunctorFacts DEF Est
<1>2. TypeOK
  <2>1. <<>> \in Seq(Byte) /\ <<>> \in Seq(Messages)
    OBVIOUS
  <2> QED BY <1>1, <2>1, CallFacts DEF TypeOK, StateE
<1>3. Fresh
  BY <1>1 DEF Fresh, EstFirst, Est
<1>4. Reports /\ WritesBuffered /\ Down /\ RawGuarded
  BY DEF Reports, WritesBuffered, Down, RawGuarded
<1>5. Len(Output) = 0 /\ Len(sent) = 0
  BY DEF Output
<1>6. Ordered
  BY <1>5 DEF Ordered, InSendOrder
<1> QED BY <1>2, <1>3, <1>4, <1>6 DEF Inv

LEMMA UpdateFacts ==
  ASSUME NEW e, Update(e), e = {} => index_ = "kAdded"
  PROVE  /\ events_' = e
         /\ index_' \in {"kAdded", "kDeleted"}
         /\ index_' = "kAdded" <=> e # {}
  BY DEF Update

(* Steps of other threads, of the peer and of the loop that leave buffer,  *)
(* channel and queue alone.                                                *)
LEMMA UserInv ==
  ASSUME Inv,
         \/ \E t \in Senders, m \in Messages : Send(t, m)
         \/ \E m \in Messages : DropString(m)
         \/ \E t \in Threads : Drop(t)
         \/ \E t \in Shutters : Shutdown(t)
         \/ \E t \in Threads : SetDisconnecting(t)
  PROVE  Inv'
<1> USE DEF Inv, channelVars, loopVars, serverVars, kernelVars, historyVars
<1> DEFINE Same == UNCHANGED <<outputBuffer_, channelVars, functors, loopVars,
                               serverVars, kernelVars, historyVars>>
           Quiet == Shutters = {} =>
                      /\ state_' = state_
                      /\ \A t \in Threads : call'[t] \notin
                           {<<"shutdown">>, <<"queue shutdown">>}
           Later == \/ UNCHANGED <<state_, call>>
                    \/ state_ # "kConnecting" /\ state_' # "kConnecting"
<1>1. ASSUME NEW t \in Senders, NEW m \in Messages, Send(t, m)
      PROVE  TypeOK' /\ Same /\ Quiet /\ Later
  <2>1. t \in Threads /\ call' = [call EXCEPT ![t] = <<"send", m>>]
    BY <1>1 DEF Send, Threads
  <2>2. /\ call' \in [Threads -> Call] /\ call'[t] = <<"send", m>>
        /\ \A u \in Threads : u # t => call'[u] = call[u]
        /\ \A u \in Threads : call'[u] # <<"none">> => u \in kept
    BY <1>1, <2>1, CallFacts, CallChanges DEF Send
  <2>3. Same /\ UNCHANGED <<state_, dropped, kept>>
    BY <1>1 DEF Send
  <2>4. TypeOK'
    BY <2>2, <2>3, CallTypeOK DEF TypeOK
  <2>5. Quiet
    BY <2>2, <2>3, CallFacts DEF Down
  <2>6. Later
    BY <1>1, <2>3 DEF Send
  <2> QED BY <2>3, <2>4, <2>5, <2>6
<1>2. ASSUME NEW m \in Messages, DropString(m)
      PROVE  TypeOK' /\ Same /\ Quiet /\ Later
  <2>1. TypeOK'
    BY <1>2 DEF DropString, TypeOK
  <2>2. Quiet
    BY <1>2 DEF DropString, Down
  <2> QED BY <1>2, <2>1, <2>2 DEF DropString
<1>3. ASSUME NEW t \in Threads, Drop(t)
      PROVE  TypeOK' /\ Same /\ Quiet /\ Later
  <2>1. TypeOK'
    BY <1>3 DEF Drop, TypeOK
  <2>2. Quiet
    BY <1>3 DEF Drop, Down
  <2> QED BY <1>3, <2>1, <2>2 DEF Drop
<1>4. ASSUME NEW t \in Shutters, Shutdown(t)
      PROVE  TypeOK' /\ Same /\ Quiet /\ Later
  <2>1. t \in Threads /\ call' = [call EXCEPT ![t] = <<"shutdown">>]
    BY <1>4 DEF Shutdown, Threads
  <2>2. /\ call' \in [Threads -> Call]
        /\ \A u \in Threads : call'[u] # <<"none">> => u \in kept
    BY <1>4, <2>1, CallFacts, CallChanges DEF Shutdown
  <2>3. Same /\ UNCHANGED <<state_, dropped, kept>> /\ state_ = "kConnected"
    BY <1>4 DEF Shutdown
  <2>4. TypeOK'
    BY <2>2, <2>3, CallTypeOK DEF TypeOK
  <2> QED BY <1>4, <2>3, <2>4
<1>5. ASSUME NEW t \in Threads, SetDisconnecting(t)
      PROVE  TypeOK' /\ Same /\ Quiet /\ Later
  <2>1. call[t] = <<"shutdown">> /\ call[t] # <<"none">>
    BY <1>5, CallFacts DEF SetDisconnecting
  <2>2. /\ Same /\ UNCHANGED <<dropped, kept>>
        /\ state_' = "kDisconnecting" /\ state_' \in StateE
        /\ call' = [call EXCEPT ![t] = <<"queue shutdown">>]
    BY <1>5 DEF SetDisconnecting, StateE
  <2>3. t \in kept
    BY <2>1 DEF TypeOK
  <2>4. /\ call' \in [Threads -> Call]
        /\ \A u \in Threads : call'[u] # <<"none">> => u \in kept
    BY <2>2, <2>3, CallFacts, CallChanges
  <2>5. TypeOK'
    BY <2>2, <2>4, CallTypeOK DEF TypeOK
  <2>6. Quiet /\ state_ # "kConnecting"
    BY <2>1 DEF Down, Fresh
  <2> QED BY <2>2, <2>5, <2>6
<1>6. TypeOK' /\ Same /\ Quiet /\ Later
  BY <1>1, <1>2, <1>3, <1>4, <1>5
<1>7. Fresh'
  BY <1>6 DEF Fresh, EstFirst
<1>8. Reports' /\ WritesBuffered' /\ RawGuarded' /\ Ordered'
  BY <1>6 DEF Reports, WritesBuffered, isWriting, RawGuarded, Ordered, Output
<1>9. Down'
  BY <1>6 DEF Down
<1> QED BY <1>6, <1>7, <1>8, <1>9

LEMMA LoopInv ==
  ASSUME Inv,
         \/ OtherCallback \/ ReturnFromCallback \/ HandledEvent \/ HandleEvent
         \/ PeerCloses \/ PeerResets
         \/ \E R \in SUBSET Reportable : Poll(R)
  PROVE  Inv'
<1> USE DEF Inv, channelVars, loopVars, serverVars, kernelVars, historyVars,
            userVars
<1>1. UNCHANGED <<state_, outputBuffer_, events_, index_, functors, call,
                  dropped, kept, erased, wire, closed, sent, late, deadUse>>
  BY DEF OtherCallback, ReturnFromCallback, HandledEvent, HandleEvent,
         PeerCloses, PeerResets, Poll
<1>2. TypeOK' /\ Reports'
  <2>1. CASE OtherCallback
    BY <2>1 DEF OtherCallback, TypeOK, Reports
  <2>2. CASE ReturnFromCallback
    BY <2>2 DEF ReturnFromCallback, TypeOK, Reports
  <2>3. CASE HandledEvent \/ HandleEvent
    BY <2>3 DEF HandledEvent, HandleEvent, TypeOK, Reports
  <2>4. CASE PeerCloses \/ PeerResets
    <3>1. /\ peer' \in {"closed", "reset"}
          /\ UNCHANGED <<loopVars, dropped, kept, removals, server, fin>>
      BY <2>4 DEF PeerCloses, PeerResets
    <3> QED BY <1>1, <3>1 DEF TypeOK, Reports
  <2>5. ASSUME NEW R \in SUBSET Reportable, Poll(R)
        PROVE  TypeOK' /\ Reports'
    <3>1. R \in SUBSET {"hup", "in", "out"} /\ ("hup" \in R => peer # "open")
      BY DEF Reportable, HungUp, TypeOK
    <3> QED BY <2>5, <3>1 DEF Poll, TypeOK, Reports
  <2> QED BY <2>1, <2>2, <2>3, <2>4, <2>5
<1>3. Fresh'
  <2>1. state_ = "kConnecting" => loop' = "idle" /\ inCallback' = "none"
    BY DEF OtherCallback, ReturnFromCallback, HandledEvent, HandleEvent,
           PeerCloses, PeerResets, Poll, Fresh
  <2> QED BY <1>1, <2>1 DEF Fresh, EstFirst
<1>4. WritesBuffered' /\ RawGuarded' /\ Ordered' /\ Down'
  BY <1>1 DEF WritesBuffered, isWriting, RawGuarded, Ordered, Output, Down
<1> QED BY <1>2, <1>3, <1>4

(* A call of another thread is queued, with nothing behind it yet.         *)
LEMMA QueueRawInv ==
  ASSUME Inv, \E t \in Threads : QueueSend(t) \/ QueueShutdown(t)
  PROVE  Inv'
<1> USE DEF Inv, channelVars, loopVars, serverVars, kernelVars
<1>1. PICK t \in Threads, f \in Functor :
        f # Est /\ call[t] # <<"none">> /\ QueueRaw(t, f)
  <2>1. PICK t \in Threads : QueueSend(t) \/ QueueShutdown(t)
    OBVIOUS
  <2>2. CASE QueueSend(t)
    <3>1. PICK m \in Messages : call[t] = <<"send", m>>
      BY <2>2 DEF QueueSend
    <3>2. <<"send", m>> # <<"none">>
      BY <3>1, CallFacts
    <3> QED BY <2>2, <3>1, <3>2, FunctorFacts DEF QueueSend
  <2>3. CASE QueueShutdown(t)
    BY <2>3, FunctorFacts, CallFacts DEF QueueShutdown
  <2> QED BY <2>1, <2>2, <2>3
<1>2. state_ # "kConnecting"
  BY <1>1 DEF Fresh
<1>3. /\ functors' = Append(functors, f)
      /\ functors' \in Seq(Functor) /\ EstFirst(functors', state_)
  BY <1>1, <1>2, QueueAppend DEF QueueRaw, TypeOK, Fresh
<1>4. TypeOK'
  <2>1. /\ call' = [call EXCEPT ![t] = <<"none">>] /\ late' \in BOOLEAN
        /\ UNCHANGED <<state_, outputBuffer_, channelVars, loopVars, dropped,
                       kept, serverVars, kernelVars, closed, sent, deadUse>>
    BY <1>1 DEF QueueRaw, TypeOK
  <2>2. /\ call' \in [Threads -> Call]
        /\ \A u \in Threads : call'[u] # <<"none">> => u \in kept
    BY <2>1, CallFacts, CallChanges
  <2> QED BY <1>3, <2>1, <2>2, CallTypeOK DEF TypeOK
<1>5. Fresh'
  BY <1>1, <1>2, <1>3 DEF QueueRaw, Fresh
<1>6. Reports' /\ WritesBuffered' /\ Ordered'
  BY <1>1 DEF QueueRaw, Reports, WritesBuffered, isWriting, Ordered, Output
<1>7. RawGuarded'
  BY <1>1 DEF QueueRaw, RawGuarded
<1>8. Down'
  BY <1>1, CallFacts DEF QueueRaw, Down, TypeOK
<1> QED BY <1>4, <1>5, <1>6, <1>7, <1>8

(* sendInLoop, called in the loop's thread or run as a functor: q is what  *)
(* is in the queue when it begins.                                         *)
LEMMA SendInv ==
  ASSUME Inv, NEW m \in Messages, NEW q \in Seq(Functor), SendInLoop(m, q),
         UNCHANGED <<state_, loopVars, userVars, serverVars, closed, late>>,
         state_ # "kConnecting", EstFirst(q, state_),
         ~late /\ erased => RawCovered(q),
         deadUse' \in BOOLEAN, deadUse' => late
  PROVE  Inv'
<1> USE DEF Inv, channelVars, loopVars, userVars, serverVars
<1>1. SendEffect(q)
  BY SendInLoopEffect
<1>2. /\ functors' \in Seq(Functor) /\ EstFirst(functors', state_)
      /\ RawCovered(q) => RawCovered(functors')
  BY <1>1, QueueAppend, FunctorFacts DEF SendEffect
<1>3. /\ events_' \in SUBSET {"in", "out"}
      /\ index_' \in {"kNew", "kAdded", "kDeleted"}
      /\ index_' = "kAdded" => events_' # {}
      /\ index_' = "kDeleted" => events_' = {}
      /\ index_ = "kAdded" => index_' = "kAdded"
      /\ index_ # "kNew" => index_' # "kNew"
      /\ state_ = "kDisconnected" => index_' = index_
  <2>1. CASE UNCHANGED channelVars
    BY <2>1 DEF TypeOK
  <2>2. CASE state_ # "kDisconnected" /\ Update(events_ \cup {"out"})
    <3>1. events_ \cup {"out"} # {}
      OBVIOUS
    <3>2. events_' = events_ \cup {"out"} /\ index_' = "kAdded"
      BY <2>2, <3>1, UpdateFacts
    <3> QED BY <2>2, <3>2 DEF TypeOK
  <2> QED BY <1>1, <2>1, <2>2 DEF SendEffect, ChannelAfterSend
<1>4. TypeOK'
  BY <1>1, <1>2, <1>3 DEF SendEffect, TypeOK
<1>5. Fresh'
  BY <1>2 DEF Fresh
<1>6. Reports'
  BY <1>1, <1>3 DEF Reports, SendEffect
<1>7. WritesBuffered'
  <2>1. CASE /\ UNCHANGED channelVars
             /\ outputBuffer_' = outputBuffer_
                  \/ (isWriting /\ outputBuffer_' # <<>>)
    BY <2>1 DEF WritesBuffered, isWriting
  <2>2. CASE Update(events_ \cup {"out"}) /\ outputBuffer_' # <<>>
    BY <2>2 DEF Update, WritesBuffered, isWriting
  <2> QED BY <1>1, <2>1, <2>2 DEF SendEffect, ChannelAfterSend
<1>8. Down'
  BY <1>3 DEF Down
<1>9. RawGuarded'
  BY <1>2 DEF RawGuarded
<1>10. Ordered'
  BY <1>1, GrowsInOrder DEF SendEffect
<1> QED BY <1>4, <1>5, <1>6, <1>7, <1>8, <1>9, <1>10

LEMMA SendHereInv ==
  ASSUME Inv, NEW m \in Messages, SendHere(m)
  PROVE  Inv'
<1>1. /\ SendInLoop(m, functors) /\ deadUse' = deadUse
      /\ UNCHANGED <<state_, loopVars, userVars, serverVars, closed, late>>
      /\ functors \in Seq(Functor) /\ deadUse \in BOOLEAN
      /\ state_ # "kConnecting" /\ EstFirst(functors, state_)
      /\ ~late /\ erased => RawCovered(functors)
      /\ deadUse => late
  BY DEF SendHere, Inv, TypeOK, Fresh, RawGuarded
<1> QED BY <1>1, SendInv

LEMMA ShutdownHereInv ==
  ASSUME Inv, ShutdownHere
  PROVE  Inv'
<1> USE DEF Inv, ShutdownHere, ShutdownInLoop, channelVars, loopVars,
            userVars, serverVars, historyVars
<1>1. TypeOK'
  BY DEF TypeOK, StateE, isWriting
<1>2. Fresh' /\ Reports' /\ Down'
  BY DEF Fresh, EstFirst, Reports, Down
<1>3. WritesBuffered' /\ RawGuarded' /\ Ordered'
  BY DEF WritesBuffered, isWriting, RawGuarded, Ordered, Output
<1> QED BY <1>1, <1>2, <1>3

(* handleClose. *)
LEMMA CloseInv ==
  ASSUME Inv, loop = "handling", inCallback = "none",
         NEW e \in revents_ \cap {"hup", "in"}, revents_' = revents_ \ {e},
         \/ e = "in" /\ "hup" \notin revents_
         \/ e = "hup" /\ "in" \notin revents_,
         HandleClose
  PROVE  Inv'
<1> USE DEF Inv, HandleClose, userVars, serverVars, kernelVars
<1>1. index_ = "kAdded"
  BY DEF Reports
<1>2. events_' = {} /\ index_' = "kDeleted"
  BY <1>1 DEF Update
<1>3. revents_' \in SUBSET {"out"} /\ state_ # "kConnecting"
  BY DEF TypeOK, Fresh
<1>4. TypeOK'
  BY <1>2, <1>3 DEF TypeOK, StateE
<1>5. Fresh' /\ Reports' /\ Down'
  BY <1>2, <1>3 DEF Fresh, EstFirst, Reports, Down
<1>6. WritesBuffered' /\ RawGuarded' /\ Ordered'
  BY DEF WritesBuffered, RawGuarded, Ordered, Output
<1> QED BY <1>4, <1>5, <1>6

LEMMA HandleReadInv ==
  ASSUME Inv, loop = "handling", inCallback = "none", HandleHup \/ HandleRead
  PROVE  Inv'
<1> DEFINE Same == UNCHANGED <<state_, outputBuffer_, channelVars, functors,
                               loop, userVars, serverVars, kernelVars,
                               historyVars>>
<1>1. CASE HandleClose
  <2>1. CASE HandleHup
    BY <1>1, <2>1, CloseInv DEF HandleHup, HandleClose, historyVars
  <2>2. CASE HandleRead
    BY <1>1, <2>2, CloseInv DEF HandleRead
  <2> QED BY <2>1, <2>2
<1>2. CASE /\ revents_' \subseteq revents_
           /\ inCallback' \in {"none", "message"} /\ Same
  <2> USE DEF Inv, channelVars, userVars, serverVars, kernelVars, historyVars
  <2>1. TypeOK'
    BY <1>2 DEF TypeOK
  <2>2. state_ # "kConnecting"
    BY DEF Fresh
  <2>3. Fresh' /\ Reports' /\ Down'
    BY <1>2, <2>2 DEF Fresh, EstFirst, Reports, Down
  <2>4. WritesBuffered' /\ RawGuarded' /\ Ordered'
    BY <1>2 DEF WritesBuffered, isWriting, RawGuarded, Ordered, Output
  <2> QED BY <2>1, <2>3, <2>4
<1> QED BY <1>1, <1>2 DEF HandleHup, HandleRead, HandleError

(* The two halves of the buffer, one now with the kernel. *)
LEMMA CutFacts ==
  ASSUME TypeOK, NEW k \in 1 .. Len(outputBuffer_),
         wire' = wire \o SubSeq(outputBuffer_, 1, k),
         outputBuffer_' = SubSeq(outputBuffer_, k + 1, Len(outputBuffer_))
  PROVE  /\ wire' \in Seq(Byte) /\ outputBuffer_' \in Seq(Byte)
         /\ Output' = Output
<1> DEFINE front == SubSeq(outputBuffer_, 1, k)
           back == SubSeq(outputBuffer_, k + 1, Len(outputBuffer_))
<1>1. /\ wire \in Seq(Byte) /\ outputBuffer_ \in Seq(Byte)
      /\ Len(outputBuffer_) \in Nat
  BY DEF TypeOK
<1>2. front \in Seq(Byte) /\ back \in Seq(Byte)
  BY <1>1
<1>3. front \o back = outputBuffer_
  <2>1. /\ 1 \in 1 .. Len(outputBuffer_) + 1
        /\ k \in 1 - 1 .. Len(outputBuffer_)
        /\ Len(outputBuffer_) \in k .. Len(outputBuffer_)
    BY <1>1
  <2> QED BY <1>1, <2>1, ConcatAdjacentSubSeq, SubSeqFull
<1> HIDE DEF front, back
<1>4. wire' = wire \o front /\ outputBuffer_' = back
  BY DEF front, back
<1>5. wire' \in Seq(Byte)
  BY <1>1, <1>2, <1>4, ConcatProperties
<1>6. (wire \o front) \o back = wire \o (front \o back)
  BY <1>1, <1>2, BytesAssociative, Zenon
<1>7. Output' = Output
  BY <1>3, <1>4, <1>6 DEF Output
<1> QED BY <1>2, <1>4, <1>5, <1>7

LEMMA HandleWriteInv ==
  ASSUME Inv, loop = "handling", inCallback = "none",
         NEW k \in Written(Len(outputBuffer_)), HandleWrite(k)
  PROVE  Inv'
<1> USE DEF Inv, userVars, serverVars, historyVars, HandleWrite
<1>1. state_ # "kConnecting" /\ index_ # "kNew"
  BY DEF Fresh, Reports
<1>2. CASE ~(isWriting /\ k > 0)
  <2> USE DEF channelVars
  <2>1. TypeOK'
    BY <1>2 DEF TypeOK
  <2>2. Fresh' /\ Reports' /\ Down'
    BY <1>1, <1>2 DEF Fresh, EstFirst, Reports, Down
  <2>3. WritesBuffered' /\ RawGuarded' /\ Ordered'
    BY <1>2 DEF WritesBuffered, isWriting, RawGuarded, Ordered, Output
  <2> QED BY <2>1, <2>2, <2>3
<1>3. CASE isWriting /\ k > 0
  <2>1. k \in 1 .. Len(outputBuffer_)
    BY <1>3 DEF Written, TypeOK
  <2>2. /\ wire' \in Seq(Byte) /\ outputBuffer_' \in Seq(Byte)
        /\ Output' = Output
    BY <1>3, <2>1, CutFacts
  <2>3. index_ = "kAdded" /\ "out" \in events_
    BY <1>1, <1>3 DEF TypeOK, isWriting
  <2>4. /\ events_' \in SUBSET {"in", "out"}
        /\ index_' \in {"kAdded", "kDeleted"}
        /\ index_' = "kAdded" <=> events_' # {}
        /\ "out" \in events_' <=> outputBuffer_' # <<>>
        /\ functors' \in {functors, Append(functors, Callback)}
        /\ fin' \in BOOLEAN
    <3>1. CASE outputBuffer_' = <<>>
      <4>1. Drained
        BY <1>3, <3>1
      <4>2. /\ events_' = events_ \ {"out"}
            /\ index_' \in {"kAdded", "kDeleted"}
            /\ index_' = "kAdded" <=> events_' # {}
        BY <2>3, <4>1, UpdateFacts DEF Drained
      <4> QED BY <3>1, <4>1, <4>2
              DEF Drained, ShutdownInLoop, Callback, TypeOK
    <3>2. CASE outputBuffer_' # <<>>
      BY <1>3, <2>3, <3>2 DEF TypeOK, channelVars
    <3> QED BY <3>1, <3>2
  <2>5. /\ functors' \in Seq(Functor) /\ EstFirst(functors', state_)
        /\ RawCovered(functors) => RawCovered(functors')
    <3>1. CASE functors' = functors
      BY <3>1 DEF TypeOK, Fresh
    <3>2. CASE functors' = Append(functors, Callback)
      BY <1>1, <3>2, QueueAppend, FunctorFacts DEF TypeOK, Fresh
    <3> QED BY <2>4, <3>1, <3>2
  <2>6. TypeOK'
    BY <2>2, <2>4, <2>5 DEF TypeOK
  <2>7. Fresh' /\ Reports' /\ Down'
    BY <1>1, <2>3, <2>4, <2>5 DEF Fresh, Reports, Down
  <2>8. WritesBuffered' /\ RawGuarded' /\ Ordered'
    BY <2>2, <2>4, <2>5 DEF WritesBuffered, isWriting, RawGuarded, Ordered
  <2> QED BY <2>6, <2>7, <2>8
<1> QED BY <1>2, <1>3

-----------------------------------------------------------------------------
(* The functors. *)

LEMMA HeadFacts ==
  ASSUME Inv, functors # <<>>
  PROVE  /\ functors \in Seq(Functor) /\ Tail(functors) \in Seq(Functor)
         /\ Head(functors) = Est <=> state_ = "kConnecting"
         /\ \A s : s # "kConnecting" => EstFirst(Tail(functors), s)
         /\ ~late /\ erased => RawCovered(Tail(functors))
         /\ ~late /\ IsRaw(Head(functors)) => Owned
<1>1. /\ functors \in Seq(Functor) /\ EstFirst(functors, state_)
      /\ ~late /\ erased => RawCovered(functors)
  BY DEF Inv, TypeOK, Fresh, RawGuarded
<1>2. /\ Tail(functors) \in Seq(Functor)
      /\ Head(functors) = Est <=> state_ = "kConnecting"
      /\ \A s : s # "kConnecting" => EstFirst(Tail(functors), s)
      /\ RawCovered(functors) => RawCovered(Tail(functors))
      /\ RawCovered(functors) /\ IsRaw(Head(functors))
           => Des \in ToSet(functors)
  BY <1>1, QueueTail
<1>3. Des \in ToSet(functors) => Owned
  BY DEF Owned, Des
<1>4. ~erased => Owned
  BY DEF Owned
<1> QED BY <1>1, <1>2, <1>3, <1>4

LEMMA RunSendInv ==
  ASSUME Inv, functors # <<>>, NEW m \in Messages, RunSendInLoop(m)
  PROVE  Inv'
<1>1. Head(functors) = <<"send", m>> /\ IsRaw(Head(functors))
  BY FunctorFacts DEF RunSendInLoop
<1>2. /\ Tail(functors) \in Seq(Functor)
      /\ state_ # "kConnecting" /\ EstFirst(Tail(functors), state_)
      /\ ~late /\ erased => RawCovered(Tail(functors))
      /\ ~late => Owned
  BY <1>1, HeadFacts, FunctorFacts
<1>3. /\ SendInLoop(m, Tail(functors))
      /\ UNCHANGED <<state_, loopVars, userVars, serverVars, closed, late>>
      /\ deadUse' = (deadUse \/ ~Owned)
  BY DEF RunSendInLoop
<1>4. /\ deadUse \in BOOLEAN /\ late \in BOOLEAN /\ (deadUse => late)
  BY DEF Inv, TypeOK, RawGuarded
<1>5. deadUse' \in BOOLEAN /\ (deadUse' => late)
  BY <1>2, <1>3, <1>4
<1> QED BY <1>2, <1>3, <1>5, SendInv

(* The other functors take the head and put nothing in. *)
LEMMA RunInv ==
  ASSUME Inv, functors # <<>>, loop = "idle", inCallback = "none",
         \/ RunConnectEstablished \/ RunConnectDestroyed
         \/ RunShutdownInLoop \/ RunUserCallback
  PROVE  Inv'
<1> USE DEF Inv, channelVars, loopVars, userVars, serverVars, kernelVars,
            historyVars
<1>1. /\ functors' = Tail(functors) /\ functors' \in Seq(Functor)
      /\ Head(functors) = Est <=> state_ = "kConnecting"
      /\ state_' # "kConnecting" => EstFirst(functors', state_')
      /\ ~late /\ erased => RawCovered(functors')
      /\ ~late /\ IsRaw(Head(functors)) => Owned
  <2>1. functors' = Tail(functors)
    BY DEF RunConnectEstablished, RunConnectDestroyed, RunShutdownInLoop,
           RunUserCallback
  <2> HIDE DEF Inv
  <2> QED BY <2>1, HeadFacts
<1>2. UNCHANGED <<outputBuffer_, call, late, erased, wire, sent, closed>>
  BY DEF RunConnectEstablished, RunConnectDestroyed, RunShutdownInLoop,
         RunUserCallback
<1>3. Ordered'
  BY <1>2 DEF Ordered, Output
<1>4. CASE RunConnectEstablished
  <2>1. /\ state_ = "kConnecting" /\ state_' = "kConnected"
    BY <1>1, <1>4 DEF RunConnectEstablished, Est
  <2>2. events_' = {"in"} /\ index_' = "kAdded"
    BY <1>4, <2>1 DEF RunConnectEstablished, Fresh, Update
  <2>3. TypeOK'
    BY <1>1, <1>4, <2>1, <2>2 DEF RunConnectEstablished, TypeOK, StateE
  <2>4. Fresh' /\ Reports' /\ Down'
    BY <1>1, <1>4, <2>1, <2>2
    DEF RunConnectEstablished, TypeOK, Fresh, Reports, Down
  <2>5. WritesBuffered' /\ RawGuarded'
    BY <1>1, <1>2, <1>4, <2>1, <2>2
    DEF RunConnectEstablished, Fresh, WritesBuffered, isWriting, RawGuarded
  <2> QED BY <1>3, <2>3, <2>4, <2>5
<1>5. CASE RunConnectDestroyed
  <2>1. state_ # "kConnecting" /\ state_' # "kConnecting"
    BY <1>1, <1>5, FunctorFacts DEF RunConnectDestroyed, Des
  <2>2. TypeOK'
    BY <1>1, <1>5 DEF RunConnectDestroyed, TypeOK, StateE
  <2>3. Fresh' /\ Reports' /\ Down'
    BY <1>1, <1>5, <2>1 DEF RunConnectDestroyed, TypeOK, Fresh, Reports, Down
  <2>4. WritesBuffered' /\ RawGuarded'
    BY <1>1, <1>5 DEF RunConnectDestroyed, WritesBuffered, RawGuarded
  <2> QED BY <1>3, <2>2, <2>3, <2>4
<1>6. CASE RunShutdownInLoop
  <2>1. Head(functors) = <<"shutdown">> /\ state_ # "kConnecting"
    BY <1>1, <1>6, FunctorFacts DEF RunShutdownInLoop
  <2>2. deadUse' \in BOOLEAN /\ (deadUse' => late')
    BY <1>1, <1>6, <2>1, FunctorFacts
    DEF RunShutdownInLoop, TypeOK, RawGuarded
  <2>3. TypeOK'
    BY <1>1, <1>6, <2>2
    DEF RunShutdownInLoop, ShutdownInLoop, isWriting, TypeOK
  <2>4. Fresh' /\ Reports' /\ Down'
    BY <1>1, <1>6, <2>1 DEF RunShutdownInLoop, Fresh, Reports, Down
  <2>5. WritesBuffered' /\ RawGuarded'
    BY <1>1, <1>2, <1>6, <2>2
    DEF RunShutdownInLoop, WritesBuffered, isWriting, RawGuarded
  <2> QED BY <1>3, <2>3, <2>4, <2>5
<1>7. CASE RunUserCallback
  <2>1. state_ # "kConnecting"
    BY <1>1, <1>7, FunctorFacts DEF RunUserCallback, Callback
  <2>2. TypeOK'
    BY <1>1, <1>7 DEF RunUserCallback, TypeOK
  <2>3. Fresh' /\ Reports' /\ Down'
    BY <1>1, <1>7, <2>1 DEF RunUserCallback, Fresh, Reports, Down
  <2>4. WritesBuffered' /\ RawGuarded'
    BY <1>1, <1>7 DEF RunUserCallback, WritesBuffered, isWriting, RawGuarded
  <2> QED BY <1>3, <2>2, <2>3, <2>4
<1> QED BY <1>4, <1>5, <1>6, <1>7

(* connectDestroyed is queued, behind all calls. *)
LEMMA RemoveInv ==
  ASSUME Inv, RemoveConnectionInLoop \/ DestroyServer
  PROVE  Inv'
<1> USE DEF Inv, RemoveConnectionInLoop, DestroyServer, channelVars, loopVars,
            userVars, kernelVars, historyVars
<1>1. /\ functors' = Append(functors, Des)
      /\ UNCHANGED <<state_, outputBuffer_, channelVars, loopVars, userVars,
                     kernelVars, historyVars>>
      /\ removals' \in Nat /\ server' \in {"up", "gone"} /\ erased' = TRUE
  BY DEF TypeOK, Des
<1>2. /\ functors' \in Seq(Functor) /\ functors' # <<>>
      /\ EstFirst(functors', state_) /\ RawCovered(functors')
  BY <1>1, QueueAppend, FunctorFacts DEF TypeOK, Fresh
<1>3. TypeOK'
  BY <1>1, <1>2 DEF TypeOK
<1>4. Fresh' /\ Reports' /\ Down'
  BY <1>1, <1>2 DEF Fresh, Reports, Down
<1>5. WritesBuffered' /\ RawGuarded' /\ Ordered'
  BY <1>1, <1>2 DEF WritesBuffered, isWriting, RawGuarded, Ordered, Output
<1> QED BY <1>3, <1>4, <1>5

LEMMA StutterInv == Inv /\ UNCHANGED vars => Inv'
<1> SUFFICES ASSUME Inv, UNCHANGED vars PROVE Inv'
  OBVIOUS
<1> USE DEF Inv, vars, channelVars, loopVars, userVars, serverVars,
            kernelVars, historyVars
<1>1. TypeOK'
  BY DEF TypeOK
<1>2. Fresh' /\ Reports' /\ Down'
  BY DEF Fresh, EstFirst, Reports, Down
<1>3. WritesBuffered' /\ RawGuarded' /\ Ordered'
  BY DEF WritesBuffered, isWriting, RawGuarded, Ordered, Output
<1> QED BY <1>1, <1>2, <1>3

LEMMA InvInductive == Inv /\ [Next]_vars => Inv'
<1> SUFFICES ASSUME Inv, [Next]_vars PROVE Inv'
  OBVIOUS
<1>1. CASE \/ \E t \in Senders, m \in Messages : Send(t, m)
           \/ \E t \in Shutters : Shutdown(t)
           \/ \E m \in Messages : DropString(m)
           \/ \E t \in Threads : Drop(t)
           \/ \E t \in Threads : SetDisconnecting(t)
  BY <1>1, UserInv
<1>2. CASE \E t \in Threads : QueueSend(t) \/ QueueShutdown(t)
  BY <1>2, QueueRawInv
<1>3. CASE \/ OtherCallback \/ ReturnFromCallback \/ HandledEvent
           \/ HandleEvent \/ PeerCloses \/ PeerResets
           \/ \E R \in SUBSET Reportable : Poll(R)
  BY <1>3, LoopInv
<1>4. CASE ShutdownHere \/ \E m \in Messages : SendHere(m)
  BY <1>4, ShutdownHereInv, SendHereInv
<1>5. CASE HandlePart
  BY <1>5, HandleReadInv, HandleWriteInv DEF HandlePart
<1>6. CASE RunFunctor
  BY <1>6, RunInv, RunSendInv DEF RunFunctor
<1>7. CASE RemoveConnectionInLoop \/ DestroyServer
  BY <1>7, RemoveInv
<1>8. CASE UNCHANGED vars
  BY <1>8, StutterInv
<1> QED
  BY <1>1, <1>2, <1>3, <1>4, <1>5, <1>6, <1>7, <1>8 DEF Next, FinishCall

THEOREM Invariance == Spec => []Inv
  BY InitInv, InvInductive, PTL DEF Spec

-----------------------------------------------------------------------------
(* The properties. *)

(* The type invariant of the connection (TcpConnection.h).                 *)
THEOREM TypeCorrect == Spec => []TypeOK
<1>1. Inv => TypeOK
  BY DEF Inv
<1> QED BY <1>1, Invariance, PTL

(* EPOLLOUT is asked for exactly while something is buffered               *)
(* (TcpConnection.cc:113-116, 244-248).                                    *)
THEOREM WritingMeansBuffered == Spec => []WritingIffBuffered
<1>1. Inv => WritingIffBuffered
  BY DEF Inv, WritesBuffered, WritingIffBuffered
<1> QED BY <1>1, Invariance, PTL

(* Bytes leave in the order in which their messages were taken on          *)
(* (TcpConnection.cc:206, 244, 110-113).                                   *)
THEOREM BytesStayInOrder == Spec => []BytesInSendOrder
<1>1. Inv => BytesInSendOrder
  BY DEF Inv, Ordered, InSendOrder, BytesInSendOrder
<1> QED BY <1>1, Invariance, PTL

(* A queued call whose connection is gone was queued behind                *)
(* connectDestroyed (TcpConnection.cc:178-186, 252-258).                   *)
THEOREM QueuedCallsAreSafe == Spec => []RawPointersLive
<1>1. Inv => RawPointersLive
  BY DEF Inv, RawGuarded, RawPointersLive
<1> QED BY <1>1, Invariance, PTL

(* If no other thread shuts it down, a connection that is down is not      *)
(* polled again (TcpConnection.cc:140-150).                                *)
THEOREM DownIsQuiet ==
  ASSUME Shutters = {}
  PROVE  Spec => []ClosedStaysQuiet
<1>1. Inv => ClosedStaysQuiet
  BY DEF Inv, Down, ClosedStaysQuiet
<1> QED BY <1>1, Invariance, PTL

(* The FIN goes out behind all bytes taken on, or the connection is closed *)
(* or removed (TcpConnection.cc:122, 261-267).                             *)
THEOREM FinComesLast == Spec => FinAfterDrain
<1>1. ASSUME Inv, [Next]_vars, ~fin, fin'
      PROVE  outputBuffer_' = <<>> \/ closed \/ index_ = "kNew"
  <2> USE DEF channelVars, loopVars, userVars, serverVars, kernelVars,
              historyVars
  <2>1. CASE ShutdownHere \/ RunShutdownInLoop
    <3>1. ~isWriting /\ outputBuffer_' = outputBuffer_
      BY <1>1, <2>1 DEF ShutdownHere, RunShutdownInLoop, ShutdownInLoop
    <3> QED BY <1>1, <3>1 DEF Inv, WritesBuffered
  <2>2. CASE \E k \in Written(Len(outputBuffer_)) : HandleWrite(k)
    BY <1>1, <2>2 DEF HandleWrite
  <2>3. ASSUME fin' = fin PROVE FALSE
    BY <1>1, <2>3
  <2> QED
    BY <1>1, <2>1, <2>2, <2>3
    DEF Next, vars, Send, Shutdown, FinishCall, QueueSend, QueueShutdown,
        QueueRaw, SetDisconnecting, DropString, Drop, OtherCallback, SendHere,
        SendInLoop, ReturnFromCallback, Poll, HandleEvent, HandlePart,
        HandleHup, HandleRead, HandleError, HandleClose, HandledEvent,
        RunFunctor, RunConnectEstablished, RunConnectDestroyed, RunSendInLoop,
        RunUserCallback, RemoveConnectionInLoop, DestroyServer, PeerCloses,
        PeerResets
<1> QED BY <1>1, Invariance, PTL DEF Spec, FinAfterDrain

(* Bytes go in at the end of the stream and nowhere else, with the message *)
(* they belong to (TcpConnection.cc:110-113, 206-247).                     *)
THEOREM BytesAreKept == Spec => OutputKept
<1>1. ASSUME Inv, [Next]_vars
      PROVE  OutputGrows
  <2> USE DEF Inv, channelVars, loopVars, userVars, serverVars, kernelVars,
              historyVars
  <2>1. ASSUME NEW m \in Messages, NEW q, SendInLoop(m, q)
        PROVE  OutputGrows
    BY <1>1, <2>1, SendInLoopEffect DEF SendEffect
  <2>2. ASSUME NEW k \in Written(Len(outputBuffer_)), HandleWrite(k)
        PROVE  OutputGrows
    <3>1. CASE ~(isWriting /\ k > 0)
      BY <2>2, <3>1 DEF HandleWrite, OutputGrows, Output
    <3>2. CASE isWriting /\ k > 0
      <4>1. k \in 1 .. Len(outputBuffer_)
        BY <3>2 DEF Written, TypeOK
      <4>2. /\ wire' = wire \o SubSeq(outputBuffer_, 1, k)
            /\ outputBuffer_' = SubSeq(outputBuffer_, k + 1,
                                       Len(outputBuffer_))
            /\ sent' = sent
        BY <2>2, <3>2 DEF HandleWrite
      <4>3. Output' = Output
        BY <1>1, <4>1, <4>2, CutFacts
      <4> QED BY <4>2, <4>3 DEF OutputGrows
    <3> QED BY <3>1, <3>2
  <2>3. CASE UNCHANGED <<wire, outputBuffer_, sent>>
    BY <2>3 DEF OutputGrows, Output
  <2> QED
    BY <1>1, <2>1, <2>2, <2>3
    DEF Next, vars, Send, Shutdown, FinishCall, QueueSend, QueueShutdown,
        QueueRaw, SetDisconnecting, DropString, Drop, OtherCallback, SendHere,
        ShutdownHere, ReturnFromCallback, Poll, HandleEvent, HandlePart,
        HandleHup, HandleRead, HandleError, HandleClose, HandledEvent,
        RunFunctor, RunConnectEstablished, RunConnectDestroyed, RunSendInLoop,
        RunShutdownInLoop, RunUserCallback, RemoveConnectionInLoop,
        DestroyServer, PeerCloses, PeerResets
<1>2. ASSUME TypeOK, OutputGrows
      PROVE  /\ IsPrefix(Output, Output')
             /\ \A i \in Len(Output) + 1 .. Len(Output') :
                  sent' = Append(sent, Output'[i][1])
  <2>1. Output \in Seq(Byte) /\ Len(Output) \in Nat
    BY <1>2, ConcatProperties DEF TypeOK, Output
  <2>2. CASE Output' = Output
    BY <2>1, <2>2 DEF IsPrefix
  <2>3. ASSUME NEW m \in Messages, NEW x \in Seq(Byte),
               \A i \in 1 .. Len(x) : x[i][1] = m,
               Output' = Output \o x, sent' = Append(sent, m)
        PROVE  /\ IsPrefix(Output, Output')
               /\ \A i \in Len(Output) + 1 .. Len(Output') :
                    sent' = Append(sent, Output'[i][1])
    <3>1. IsPrefix(Output, Output \o x)
      BY <2>1, <2>3 DEF IsPrefix
    <3>2. \A i \in Len(Output) + 1 .. Len(Output \o x) :
            (Output \o x)[i][1] = m
      BY <2>1, <2>3, ConcatProperties
    <3> QED BY <2>3, <3>1, <3>2
  <2> QED BY <1>2, <2>2, <2>3 DEF OutputGrows
<1>3. ASSUME Inv, [Next]_vars
      PROVE  /\ IsPrefix(Output, Output')
             /\ \A i \in Len(Output) + 1 .. Len(Output') :
                  sent' = Append(sent, Output'[i][1])
  BY <1>1, <1>2, <1>3 DEF Inv
<1> QED BY <1>3, Invariance, PTL DEF Spec, OutputKept

-----------------------------------------------------------------------------
(* The user's view, without its liveness. *)

ViewSafety == View!Init /\ [][View!Next]_(View!vars)

(* What a close finds: a peer that has gone, a user not yet told.          *)
LEMMA CloseIsDown ==
  ASSUME Inv, Shutters = {}, HandleHup \/ HandleRead, HandleClose,
         loop = "handling", inCallback = "none"
  PROVE  View!Down
<1>1. state_ # "kConnecting" /\ index_ = "kAdded" /\ ~closed
  BY DEF Inv, Fresh, Reports, Down, HandleHup, HandleRead
<1>2. peer # "open"
  <2>1. CASE HandleHup
    BY <2>1 DEF Inv, Reports, HandleHup
  <2>2. CASE HandleRead
    <3>1. inCallback' = "down"
      BY DEF HandleClose
    <3> QED BY <2>2, <3>1 DEF HandleRead, HandleError
  <2> QED BY <2>1, <2>2
<1> QED
  BY <1>1, <1>2 DEF View!Down, View!Enter, HandleClose, kernelVars

LEMMA HandleIsInView ==
  ASSUME Inv, Shutters = {}, HandlePart
  PROVE  View!Next \/ UNCHANGED View!vars
<1> USE DEF channelVars, loopVars, userVars, serverVars, kernelVars,
            historyVars
<1>1. state_ # "kConnecting" /\ loop = "handling" /\ inCallback = "none"
  BY DEF HandlePart, Inv, Fresh
<1>2. CASE HandleClose /\ (HandleHup \/ HandleRead)
  BY <1>1, <1>2, CloseIsDown DEF View!Next
<1>3. CASE HandleHup /\ ~HandleClose
  BY <1>3 DEF HandleHup, View!vars
<1>4. CASE HandleRead /\ ~HandleClose
  <2>1. ~closed
    BY <1>4 DEF HandleRead, Inv, Reports, Down
  <2>2. CASE inCallback' = "message" /\ UNCHANGED <<state_, peer, closed>>
    BY <1>1, <2>1, <2>2 DEF View!Next, View!Message, View!Enter
  <2>3. CASE HandleError
    BY <2>3 DEF HandleError, View!vars
  <2> QED BY <1>4, <2>2, <2>3 DEF HandleRead
<1>5. ASSUME NEW k \in Written(Len(outputBuffer_)), HandleWrite(k)
      PROVE  UNCHANGED View!vars
  BY <1>5 DEF HandleWrite, View!vars
<1> QED BY <1>2, <1>3, <1>4, <1>5 DEF HandlePart

LEMMA RunIsInView ==
  ASSUME Inv, RunFunctor
  PROVE  View!Next \/ UNCHANGED View!vars
<1> USE DEF channelVars, loopVars, userVars, serverVars, kernelVars,
            historyVars
<1>1. /\ inCallback = "none"
      /\ Head(functors) = Est <=> state_ = "kConnecting"
      /\ state_ = "kConnecting" => ~closed
  BY HeadFacts DEF RunFunctor, Inv, Fresh
<1>2. CASE RunConnectEstablished
  BY <1>1, <1>2
  DEF RunConnectEstablished, Est, View!Next, View!Up, View!Enter
<1>3. CASE RunUserCallback
  <2>1. state_ # "kConnecting"
    BY <1>1, <1>3, FunctorFacts DEF RunUserCallback, Callback
  <2> QED
    BY <1>1, <1>3, <2>1
    DEF RunUserCallback, View!Next, View!Other, View!Enter
<1>4. CASE RunConnectDestroyed
  <2>1. state_ # "kConnecting"
    BY <1>1, <1>4, FunctorFacts DEF RunConnectDestroyed, Des
  <2> QED BY <1>4, <2>1 DEF RunConnectDestroyed, View!vars
<1>5. CASE RunShutdownInLoop \/ \E m \in Messages : RunSendInLoop(m)
  BY <1>5 DEF RunShutdownInLoop, RunSendInLoop, SendInLoop, View!vars
<1> QED BY <1>2, <1>3, <1>4, <1>5 DEF RunFunctor

(* If no other thread shuts it down, the user is told of a connection: up, *)
(* then messages, one callback at a time, then down, once                  *)
(* (TcpConnection.cc:61-160).                                              *)
THEOREM UserIsToldInOrder ==
  ASSUME Shutters = {}
  PROVE  Spec => ViewSafety
<1> USE DEF channelVars, loopVars, userVars, serverVars, kernelVars,
            historyVars
<1>1. Init => View!Init
  BY DEF Init, View!Init
<1>2. ASSUME Inv, [Next]_vars
      PROVE  View!Next \/ UNCHANGED View!vars
  <2>1. CASE OtherCallback
    BY <2>1 DEF OtherCallback, View!Next, View!Other, View!Enter
  <2>2. CASE ReturnFromCallback
    BY <2>2 DEF ReturnFromCallback, View!Next, View!Return
  <2>3. CASE HandlePart
    BY <1>2, <2>3, HandleIsInView
  <2>4. CASE RunFunctor
    BY <1>2, <2>4, RunIsInView
  <2>5. CASE PeerCloses \/ PeerResets
    BY <2>5 DEF PeerCloses, PeerResets, View!Next, View!PeerGoes, View!vars
  <2>6. ASSUME UNCHANGED <<inCallback, peer, closed>>,
               state_' = "kConnecting" <=> state_ = "kConnecting"
        PROVE  UNCHANGED View!vars
    BY <2>6 DEF View!vars
  <2>7. CASE \E t \in Threads : SetDisconnecting(t)
    BY <1>2, <2>6, <2>7, CallFacts DEF SetDisconnecting, Inv, Fresh
  <2>8. CASE ShutdownHere \/ \E m \in Messages : SendHere(m)
    BY <2>6, <2>8 DEF ShutdownHere, SendHere, SendInLoop
  <2>9. CASE \/ \E t \in Senders, m \in Messages : Send(t, m)
             \/ \E t \in Shutters : Shutdown(t)
             \/ \E t \in Threads : QueueSend(t) \/ QueueShutdown(t) \/ Drop(t)
             \/ \E m \in Messages : DropString(m)
             \/ \E R \in SUBSET Reportable : Poll(R)
             \/ HandleEvent \/ HandledEvent
             \/ RemoveConnectionInLoop \/ DestroyServer
             \/ UNCHANGED vars
    BY <2>6, <2>9
    DEF Send, Shutdown, QueueSend, QueueShutdown, QueueRaw, Drop, DropString,
        Poll, HandleEvent, HandledEvent, RemoveConnectionInLoop,
        DestroyServer, vars
  <2> QED
    BY <1>2, <2>1, <2>2, <2>3, <2>4, <2>5, <2>7, <2>8, <2>9
    DEF Next, FinishCall
<1> QED BY <1>1, <1>2, Invariance, PTL DEF Spec, ViewSafety

-----------------------------------------------------------------------------
(* Removal: closeCallback_, removeConnectionInLoop or ~TcpServer, and      *)
(* connectDestroyed, each once.                                            *)

HasDes(q) == \E i \in 1 .. Len(q) : q[i] = Des

OneDes(q) ==
  \A i, j \in 1 .. Len(q) : q[i] = Des /\ q[j] = Des => i = j

NoneLeft(q) == \A i \in 1 .. Len(q) : ~IsRaw(q[i]) /\ q[i] # Des

Destroyed == index_ = "kNew" /\ state_ # "kConnecting"

(* The close on its way to removeConnectionInLoop. *)
CloseReported ==
  /\ ~closed => /\ removals = 0 /\ inCallback # "down"
                /\ server = "up" => ~erased
  /\ removals \in {0, 1} /\ (inCallback = "down" => removals = 0)
  /\ server = "up" /\ (removals = 1 \/ inCallback = "down") => ~erased

(* connectDestroyed, and what it leaves. *)
LastDestroyed ==
  /\ OneDes(functors) /\ (HasDes(functors) => erased)
  /\ Destroyed => /\ erased /\ state_ # "kConnected"
                  /\ ~late => NoneLeft(functors)

RemovalInv == CloseReported /\ LastDestroyed

LEMMA DesAppend ==
  ASSUME NEW q \in Seq(Functor), NEW f \in Functor
  PROVE  /\ HasDes(Append(q, f)) => HasDes(q) \/ f = Des
         /\ OneDes(q) /\ (f = Des => ~HasDes(q)) => OneDes(Append(q, f))
         /\ NoneLeft(q) /\ ~IsRaw(f) /\ f # Des => NoneLeft(Append(q, f))
<1> DEFINE r == Append(q, f)
<1>1. /\ Len(r) = Len(q) + 1 /\ Len(q) \in Nat /\ r[Len(q) + 1] = f
      /\ \A i \in 1 .. Len(q) : r[i] = q[i]
  BY AppendProperties
<1> HIDE DEF r
<1>2. HasDes(r) => HasDes(q) \/ f = Des
  BY <1>1 DEF HasDes
<1>3. OneDes(q) /\ (f = Des => ~HasDes(q)) => OneDes(r)
  BY <1>1 DEF OneDes, HasDes
<1>4. NoneLeft(q) /\ ~IsRaw(f) /\ f # Des => NoneLeft(r)
  BY <1>1 DEF NoneLeft
<1> QED BY <1>2, <1>3, <1>4 DEF r

(* All raw calls run before connectDestroyed, which stands behind them. *)
LEMMA DesTail ==
  ASSUME NEW q \in Seq(Functor), q # <<>>
  PROVE  /\ HasDes(Tail(q)) => HasDes(q)
         /\ OneDes(q) => OneDes(Tail(q))
         /\ NoneLeft(q) => NoneLeft(Tail(q)) /\ ~IsRaw(Head(q))
                                             /\ Head(q) # Des
         /\ Head(q) = Des => HasDes(q)
         /\ Head(q) = Des /\ OneDes(q) /\ RawCovered(q) => NoneLeft(Tail(q))
<1> DEFINE r == Tail(q)
<1>1. /\ Len(r) = Len(q) - 1 /\ Len(q) \in Nat \ {0} /\ Head(q) = q[1]
      /\ \A i \in 1 .. Len(r) : r[i] = q[i + 1]
  OBVIOUS
<1> HIDE DEF r
<1>2. \A i \in 1 .. Len(r) : i + 1 \in 1 .. Len(q) /\ i + 1 # 1
  BY <1>1
<1>3. HasDes(r) => HasDes(q)
  BY <1>1, <1>2 DEF HasDes
<1>4. ASSUME OneDes(q), NEW i \in 1 .. Len(r), NEW j \in 1 .. Len(r),
             r[i] = Des, r[j] = Des
      PROVE  i = j
  <2>1. i + 1 = j + 1
    BY <1>1, <1>2, <1>4 DEF OneDes
  <2> QED BY <2>1
<1>5. 1 \in 1 .. Len(q)
  BY <1>1
<1>6. /\ NoneLeft(q) => NoneLeft(r) /\ ~IsRaw(Head(q)) /\ Head(q) # Des
      /\ Head(q) = Des => HasDes(q)
  BY <1>1, <1>2, <1>5 DEF NoneLeft, HasDes
<1>7. ASSUME Head(q) = Des, OneDes(q), RawCovered(q), NEW i \in 1 .. Len(r)
      PROVE  ~IsRaw(r[i]) /\ r[i] # Des
  <2>1. q[1] = Des /\ \A j \in 1 .. Len(q) : q[j] = Des => j = 1
    BY <1>1, <1>5, <1>7 DEF OneDes
  <2>2. r[i] = q[i + 1] /\ r[i] # Des
    BY <1>1, <1>2, <2>1
  <2>3. ASSUME IsRaw(q[i + 1]) PROVE FALSE
    <3>1. PICK j \in i + 2 .. Len(q) : q[j] = Des
      BY <1>2, <1>7, <2>3 DEF RawCovered
    <3>2. j \in 1 .. Len(q) /\ j # 1
      BY <1>1, <3>1
    <3> QED BY <2>1, <3>1, <3>2
  <2> QED BY <2>2, <2>3
<1> QED BY <1>3, <1>4, <1>6, <1>7 DEF r, OneDes, NoneLeft

(* What the step of a phase is in ConnectionLives. *)
LEMMA LivesSteps ==
  /\ Phase' = Phase => Phases' = Phases
  /\ Phase = "accepted" /\ Phase' = "up" => Lives!Next
  /\ Phase = "up" /\ Phase' = "closed" => Lives!Next
  /\ Phase \in {"up", "closed"} /\ Phase' = "destroyed" => Lives!Next
<1>1. /\ Phases[1] = Phase /\ 1 \in {1}
      /\ \A to : Phase' = to => Phases' = [Phases EXCEPT ![1] = to]
  BY DEF Phases
<1> QED
  BY <1>1
  DEF Phases, Lives!Next, Lives!Establish, Lives!Close, Lives!Destroy,
      Lives!Move

(* What every step does to the removal of the connection. *)
RemovalStep ==
  /\ RemovalInv'
  /\ removals' > removals => removals = 0 /\ ~erased
  /\ late' \/ Lives!Next \/ Phases' = Phases

(* Steps that leave channel, state and queue alone. *)
LEMMA UserRemoval ==
  ASSUME Inv, RemovalInv, Shutters = {},
         \/ \E t \in Senders, m \in Messages : Send(t, m)
         \/ \E m \in Messages : DropString(m)
         \/ \E t \in Threads : Drop(t)
         \/ \E t \in Shutters : Shutdown(t)
         \/ \E t \in Threads : SetDisconnecting(t)
         \/ OtherCallback \/ ReturnFromCallback \/ HandledEvent
         \/ HandleEvent \/ PeerCloses \/ PeerResets
         \/ \E R \in SUBSET Reportable : Poll(R)
         \/ UNCHANGED vars
  PROVE  RemovalStep
<1> USE DEF channelVars, loopVars, userVars, serverVars, kernelVars,
            historyVars
<1>1. ~\E t \in Threads : SetDisconnecting(t)
  BY DEF Inv, Down, SetDisconnecting
<1>2. UNCHANGED <<state_, index_, functors, erased, server, closed, late>>
  BY <1>1
  DEF Send, DropString, Drop, Shutdown, OtherCallback, ReturnFromCallback,
      HandledEvent, HandleEvent, PeerCloses, PeerResets, Poll, vars
<1>3. \/ removals' = removals /\ inCallback' \in {inCallback, "none", "other"}
      \/ /\ inCallback = "down" /\ server = "up" /\ removals' = removals + 1
         /\ inCallback' = "none"
  BY <1>1
  DEF Send, DropString, Drop, Shutdown, OtherCallback, ReturnFromCallback,
      HandledEvent, HandleEvent, PeerCloses, PeerResets, Poll, vars
<1>4. CloseReported' /\ (removals' > removals => removals = 0 /\ ~erased)
  BY <1>2, <1>3 DEF RemovalInv, CloseReported
<1>5. LastDestroyed'
  BY <1>2
  DEF RemovalInv, LastDestroyed, Destroyed, HasDes, OneDes, NoneLeft
<1>6. Phases' = Phases
  BY <1>2, LivesSteps DEF Phase
<1> QED BY <1>4, <1>5, <1>6 DEF RemovalInv, RemovalStep

(* A call queued once the connection is erased is late. *)
LEMMA QueueRawRemoval ==
  ASSUME Inv, RemovalInv, \E t \in Threads : QueueSend(t) \/ QueueShutdown(t)
  PROVE  RemovalStep
<1> USE DEF channelVars, loopVars, userVars, serverVars, kernelVars,
            historyVars
<1>1. PICK t \in Threads, f \in Functor : f # Des /\ QueueRaw(t, f)
  BY FunctorFacts DEF QueueSend, QueueShutdown
<1>2. /\ functors' = Append(functors, f) /\ functors \in Seq(Functor)
      /\ UNCHANGED <<state_, index_, inCallback, removals, erased, server,
                     closed>>
      /\ late' = (late \/ erased)
  BY <1>1 DEF QueueRaw, Inv, TypeOK
<1>3. CloseReported' /\ ~(removals' > removals)
  BY <1>2 DEF RemovalInv, CloseReported
<1>4. OneDes(functors') /\ (HasDes(functors') => erased)
  BY <1>1, <1>2, DesAppend DEF RemovalInv, LastDestroyed
<1>5. LastDestroyed'
  BY <1>2, <1>4 DEF RemovalInv, LastDestroyed, Destroyed
<1>6. Phases' = Phases
  BY <1>2, LivesSteps DEF Phase
<1> QED BY <1>3, <1>5, <1>6 DEF RemovalInv, RemovalStep

(* sendInLoop, with functor queue q, registers no channel that is gone. *)
LEMMA SendRemoval ==
  ASSUME Inv, RemovalInv, NEW m \in Messages, NEW q \in Seq(Functor),
         SendInLoop(m, q), state_ # "kConnecting",
         UNCHANGED <<state_, loopVars, serverVars, closed, late>>,
         OneDes(q), HasDes(q) => erased, Destroyed => late
  PROVE  RemovalStep
<1> USE DEF channelVars, loopVars, userVars, serverVars, kernelVars,
            historyVars
<1>1. /\ functors' \in {q, Append(q, Callback)}
      /\ \/ index_' = index_
         \/ index_' = "kAdded"
  <2>1. SendEffect(q)
    BY SendInLoopEffect DEF Inv
  <2>2. events_ \cup {"out"} # {}
    OBVIOUS
  <2> QED BY <2>1, <2>2 DEF SendEffect, ChannelAfterSend, Update
<1>2. OneDes(functors') /\ (HasDes(functors') => erased)
  BY <1>1, DesAppend, FunctorFacts
<1>3. CloseReported' /\ ~(removals' > removals)
  BY DEF RemovalInv, CloseReported
<1>4. Destroyed' => Destroyed
  BY <1>1 DEF Destroyed
<1>5. LastDestroyed'
  BY <1>2, <1>4 DEF RemovalInv, LastDestroyed
<1>6. late \/ Phases' = Phases
  BY <1>1, LivesSteps DEF Phase, Destroyed
<1> QED BY <1>3, <1>5, <1>6 DEF RemovalInv, RemovalStep

LEMMA HereRemoval ==
  ASSUME Inv, RemovalInv, ShutdownHere \/ \E m \in Messages : SendHere(m)
  PROVE  RemovalStep
<1> USE DEF channelVars, loopVars, userVars, serverVars, kernelVars,
            historyVars
<1>1. state_ = "kConnected" /\ ~Destroyed /\ functors \in Seq(Functor)
  BY DEF ShutdownHere, SendHere, RemovalInv, LastDestroyed, Inv, TypeOK
<1>2. ASSUME NEW m \in Messages, SendHere(m) PROVE RemovalStep
  <2>1. OneDes(functors) /\ (HasDes(functors) => erased)
    BY DEF RemovalInv, LastDestroyed
  <2> QED BY <1>1, <1>2, <2>1, SendRemoval DEF SendHere
<1>3. CASE ShutdownHere
  <2>1. /\ UNCHANGED <<index_, functors, inCallback, removals, erased, server,
                       closed, late>>
        /\ state_' = "kDisconnecting"
    BY <1>3 DEF ShutdownHere
  <2>2. CloseReported' /\ ~(removals' > removals)
    BY <2>1 DEF RemovalInv, CloseReported
  <2>3. LastDestroyed'
    BY <1>1, <2>1
    DEF RemovalInv, LastDestroyed, Destroyed, OneDes, HasDes
  <2>4. Phases' = Phases
    BY <1>1, <2>1, LivesSteps DEF Phase
  <2> QED BY <2>2, <2>3, <2>4 DEF RemovalInv, RemovalStep
<1> QED BY <1>2, <1>3

(* One close for each connection. *)
LEMMA HandleRemoval ==
  ASSUME Inv, RemovalInv, Shutters = {}, HandlePart
  PROVE  RemovalStep
<1> USE DEF channelVars, loopVars, userVars, serverVars, kernelVars,
            historyVars
<1>1. /\ loop = "handling" /\ inCallback = "none"
      /\ index_ # "kNew" /\ state_ # "kConnecting"
  BY DEF HandlePart, Inv, Reports, Fresh
<1>2. CASE HandleClose /\ (HandleHup \/ HandleRead)
  <2>1. ~closed /\ index_ = "kAdded"
    BY <1>2 DEF Inv, Reports, Down, HandleHup, HandleRead
  <2>2. /\ UNCHANGED <<functors, removals, erased, server, late>>
        /\ inCallback' = "down" /\ closed' /\ state_' = "kDisconnected"
        /\ index_' = "kDeleted"
    BY <1>2, <2>1 DEF HandleClose, Update
  <2>3. CloseReported' /\ ~(removals' > removals)
    BY <2>1, <2>2 DEF RemovalInv, CloseReported
  <2>4. LastDestroyed'
    BY <2>2 DEF RemovalInv, LastDestroyed, Destroyed, OneDes, HasDes
  <2>5. Lives!Next
    BY <1>1, <2>1, <2>2, LivesSteps DEF Phase
  <2> QED BY <2>3, <2>4, <2>5 DEF RemovalInv, RemovalStep
<1>3. CASE (HandleHup \/ HandleRead) /\ ~HandleClose
  <2>1. /\ UNCHANGED <<state_, index_, functors, removals, erased, server,
                       closed, late>>
        /\ inCallback' \in {inCallback, "message"}
    BY <1>3 DEF HandleHup, HandleRead, HandleError
  <2>2. CloseReported' /\ ~(removals' > removals)
    BY <1>1, <2>1 DEF RemovalInv, CloseReported
  <2>3. LastDestroyed'
    BY <2>1
    DEF RemovalInv, LastDestroyed, Destroyed, OneDes, HasDes, NoneLeft
  <2>4. Phases' = Phases
    BY <2>1, LivesSteps DEF Phase
  <2> QED BY <2>2, <2>3, <2>4 DEF RemovalInv, RemovalStep
<1>4. ASSUME NEW k \in Written(Len(outputBuffer_)), HandleWrite(k)
      PROVE  RemovalStep
  <2>1. /\ UNCHANGED <<state_, inCallback, removals, erased, server, closed,
                       late>>
        /\ functors' \in {functors, Append(functors, Callback)}
        /\ index_' # "kNew"
    BY <1>1, <1>4 DEF HandleWrite, Drained, Update, Callback
  <2>2. CloseReported' /\ ~(removals' > removals)
    BY <2>1 DEF RemovalInv, CloseReported
  <2>3. OneDes(functors') /\ (HasDes(functors') => erased)
    <3>1. /\ functors \in Seq(Functor) /\ OneDes(functors)
          /\ HasDes(functors) => erased
      BY DEF RemovalInv, LastDestroyed, Inv, TypeOK
    <3> QED BY <2>1, <3>1, DesAppend, FunctorFacts
  <2>4. LastDestroyed'
    BY <2>1, <2>3 DEF LastDestroyed, Destroyed
  <2>5. Phases' = Phases
    BY <1>1, <2>1, LivesSteps DEF Phase
  <2> QED BY <2>2, <2>4, <2>5 DEF RemovalInv, RemovalStep
<1> QED BY <1>2, <1>3, <1>4 DEF HandlePart

(* connectDestroyed finds all raw calls run, and leaves none behind it. *)
LEMMA RunRemoval ==
  ASSUME Inv, RemovalInv, RunFunctor
  PROVE  RemovalStep
<1> USE DEF channelVars, loopVars, userVars, serverVars, kernelVars,
            historyVars
<1>1. /\ inCallback = "none" /\ functors # <<>> /\ functors \in Seq(Functor)
      /\ Tail(functors) \in Seq(Functor)
      /\ Head(functors) = Est <=> state_ = "kConnecting"
  BY HeadFacts DEF RunFunctor
<1>2. /\ OneDes(functors) /\ (HasDes(functors) => erased)
      /\ OneDes(Tail(functors)) /\ (HasDes(Tail(functors)) => erased)
      /\ NoneLeft(functors) => /\ NoneLeft(Tail(functors))
                               /\ ~IsRaw(Head(functors))
                               /\ Head(functors) # Des
      /\ Head(functors) = Des => erased
      /\ Head(functors) = Des /\ RawCovered(functors)
           => NoneLeft(Tail(functors))
  BY <1>1, DesTail DEF RemovalInv, LastDestroyed
<1>3. CASE RunConnectEstablished
  <2>1. state_ = "kConnecting" /\ ~closed
    BY <1>1, <1>3 DEF RunConnectEstablished, Est, Inv, Fresh
  <2>2. events_ \cup {"in"} # {}
    OBVIOUS
  <2>3. /\ UNCHANGED <<removals, erased, server, closed, late>>
        /\ inCallback' = "other" /\ functors' = Tail(functors)
        /\ state_' = "kConnected" /\ index_' = "kAdded"
    BY <1>3, <2>2 DEF RunConnectEstablished, Update
  <2>4. CloseReported' /\ ~(removals' > removals)
    BY <2>3 DEF RemovalInv, CloseReported
  <2>5. LastDestroyed'
    BY <1>2, <2>3 DEF LastDestroyed, Destroyed
  <2>6. Lives!Next
    BY <2>1, <2>3, LivesSteps DEF Phase
  <2> QED BY <2>4, <2>5, <2>6 DEF RemovalInv, RemovalStep
<1>4. CASE RunConnectDestroyed
  <2>1. Head(functors) = Des /\ state_ # "kConnecting"
    BY <1>1, <1>4, FunctorFacts DEF RunConnectDestroyed, Des
  <2>2. /\ UNCHANGED <<removals, erased, server, closed, late, inCallback>>
        /\ functors' = Tail(functors) /\ index_' = "kNew"
        /\ state_' # "kConnected" /\ state_' # "kConnecting"
    BY <1>4, <2>1 DEF RunConnectDestroyed
  <2>3. CloseReported' /\ ~(removals' > removals)
    BY <2>2 DEF RemovalInv, CloseReported
  <2>4. erased /\ (~late => NoneLeft(Tail(functors)))
    BY <1>2, <2>1 DEF Inv, RawGuarded
  <2>5. LastDestroyed'
    BY <1>2, <2>2, <2>4 DEF LastDestroyed
  <2>6. Lives!Next \/ Phases' = Phases
    BY <2>1, <2>2, LivesSteps DEF Phase
  <2> QED BY <2>3, <2>5, <2>6 DEF RemovalInv, RemovalStep
<1>5. ASSUME NEW m \in Messages, RunSendInLoop(m)
      PROVE  RemovalStep
  <2>1. IsRaw(Head(functors)) /\ state_ # "kConnecting"
    BY <1>1, <1>5, FunctorFacts DEF RunSendInLoop
  <2>2. Destroyed => late
    BY <1>2, <2>1 DEF RemovalInv, LastDestroyed
  <2>3. /\ SendInLoop(m, Tail(functors))
        /\ UNCHANGED <<state_, loopVars, serverVars, closed, late>>
    BY <1>5 DEF RunSendInLoop
  <2> HIDE DEF loopVars, serverVars
  <2> QED BY <1>1, <1>2, <2>1, <2>2, <2>3, SendRemoval
<1>6. CASE RunShutdownInLoop \/ RunUserCallback
  <2>1. /\ UNCHANGED <<state_, index_, removals, erased, server, closed, late>>
        /\ functors' = Tail(functors) /\ inCallback' \in {"none", "other"}
    BY <1>1, <1>6 DEF RunShutdownInLoop, RunUserCallback
  <2>2. CloseReported' /\ ~(removals' > removals)
    BY <2>1 DEF RemovalInv, CloseReported
  <2>3. LastDestroyed'
    BY <1>2, <2>1 DEF RemovalInv, LastDestroyed, Destroyed
  <2>4. Phases' = Phases
    BY <2>1, LivesSteps DEF Phase
  <2> QED BY <2>2, <2>3, <2>4 DEF RemovalInv, RemovalStep
<1> QED BY <1>3, <1>4, <1>5, <1>6 DEF RunFunctor

LEMMA RemoveRemoval ==
  ASSUME Inv, RemovalInv, RemoveConnectionInLoop \/ DestroyServer
  PROVE  RemovalStep
<1> USE DEF channelVars, loopVars, userVars, serverVars, kernelVars,
            historyVars
<1>1. /\ ~erased /\ erased' = TRUE
      /\ functors' = Append(functors, Des) /\ functors \in Seq(Functor)
      /\ UNCHANGED <<state_, index_, inCallback, closed, late>>
  BY DEF RemoveConnectionInLoop, DestroyServer, Des, RemovalInv,
         CloseReported, Inv, TypeOK
<1>2. CloseReported' /\ ~(removals' > removals)
  <2>1. CASE RemoveConnectionInLoop
    BY <2>1 DEF RemoveConnectionInLoop, RemovalInv, CloseReported
  <2>2. CASE DestroyServer
    BY <2>2 DEF DestroyServer, RemovalInv, CloseReported
  <2> QED BY <2>1, <2>2
<1>3. OneDes(functors')
  BY <1>1, DesAppend, FunctorFacts DEF RemovalInv, LastDestroyed
<1>4. LastDestroyed'
  BY <1>1, <1>3 DEF RemovalInv, LastDestroyed, Destroyed
<1>5. Phases' = Phases
  BY <1>1, LivesSteps DEF Phase
<1> QED BY <1>2, <1>4, <1>5 DEF RemovalInv, RemovalStep

LEMMA RemovalInductive ==
  ASSUME Inv, RemovalInv, Shutters = {}, [Next]_vars
  PROVE  RemovalStep
<1>1. CASE \/ \E t \in Threads : QueueSend(t) \/ QueueShutdown(t)
           \/ ShutdownHere \/ \E m \in Messages : SendHere(m)
           \/ HandlePart \/ RunFunctor
           \/ RemoveConnectionInLoop \/ DestroyServer
  BY <1>1, QueueRawRemoval, HereRemoval, HandleRemoval, RunRemoval,
     RemoveRemoval
<1>2. CASE \/ \E t \in Senders, m \in Messages : Send(t, m)
           \/ \E m \in Messages : DropString(m)
           \/ \E t \in Threads : Drop(t)
           \/ \E t \in Shutters : Shutdown(t)
           \/ \E t \in Threads : SetDisconnecting(t)
           \/ OtherCallback \/ ReturnFromCallback \/ HandledEvent
           \/ HandleEvent \/ PeerCloses \/ PeerResets
           \/ \E R \in SUBSET Reportable : Poll(R)
           \/ UNCHANGED vars
  BY <1>2, UserRemoval
<1> QED BY <1>1, <1>2 DEF Next, FinishCall

LEMMA RemovalInit ==
  ASSUME Init
  PROVE  RemovalInv
<1>1. Len(functors) = 1 /\ functors[1] # Des
  BY FunctorFacts DEF Init, Est
<1> QED
  BY <1>1
  DEF Init, RemovalInv, CloseReported, LastDestroyed, Destroyed, OneDes,
      HasDes

(* Without shutdown() in other threads TcpServer is told of the close once *)
(* (TcpConnection.cc:149, TcpServer.cc:105-119).                           *)
THEOREM CloseIsReportedOnce ==
  ASSUME Shutters = {}
  PROVE  Spec => ReportsCloseOnce
<1>1. Inv /\ RemovalInv /\ [Next]_vars => RemovalStep
  BY RemovalInductive
<1>2. RemovalStep => /\ RemovalInv'
                     /\ removals' > removals => removals = 0 /\ ~erased
  BY DEF RemovalStep
<1> QED
  BY <1>1, <1>2, Invariance, RemovalInit, PTL DEF Spec, ReportsCloseOnce

(* ... and, if no send comes behind connectDestroyed, a connection lives   *)
(* as TcpServer thinks it does (TcpConnection.cc:61-79, 140-150).          *)
THEOREM LivesAsPromised ==
  ASSUME Shutters = {}
  PROVE  Spec => LivesOnce
<1>1. Inv /\ RemovalInv /\ [Next]_vars => RemovalStep
  BY RemovalInductive
<1>2. RemovalStep => RemovalInv' /\ [late' \/ Lives!Next]_Phases
  BY DEF RemovalStep
<1> QED
  BY <1>1, <1>2, Invariance, RemovalInit, PTL DEF Spec, LivesOnce
=============================================================================

---------------------------- MODULE LoggerProofs ----------------------------
(***************************************************************************)
(* The properties of LoggerProps that are not about progress, for any      *)
(* threads.  The invariant says what a thread may find in logLevel_, who   *)
(* wrote the last piece of the line, and what the line is while one thread *)
(* alone is at it.                                                         *)
(***************************************************************************)
EXTENDS LoggerProps, SequenceTheorems, TLAPS

LevelKnown == \A t \in Threads : logLevel_ \in {level[t]} \cup rivals[t]

Writing(t) == at[t] \in {"tag", "time", "msg"}

LastIsWriting == line # <<>> => Writing(line[Len(line)][1])

(* What a thread has written of a line that carries its own level. *)
Written(t) ==
  CASE at[t] = "tag" -> <<<<t, level[t]>>>>
    [] at[t] = "time" -> <<<<t, level[t]>>, <<t, "time">>>>
    [] at[t] = "msg" -> <<<<t, level[t]>>, <<t, "time">>, <<t, "msg">>>>
    [] OTHER -> <<>>

AloneWrites ==
  \A t \in Threads :
    alone[t] /\ at[t] # "idle" => /\ \A u \in Threads \ {t} : at[u] = "idle"
                                  /\ rivals[t] = {}
                                  /\ line = Written(t)

Inv == TypeOK /\ LevelKnown /\ TagsOverlap /\ LastIsWriting /\ AloneWrites

LEMMA Append1 ==
  ASSUME NEW S, NEW a \in S, NEW b \in S
  PROVE  Append(<<a>>, b) = <<a, b>>
<1> DEFINE s == Append(<<a>>, b)
<1>1. <<a>> \in Seq(S) /\ Len(<<a>>) = 1 /\ <<a>>[1] = a
  OBVIOUS
<1>2. s \in Seq(S) /\ Len(s) = 2 /\ s[1] = a /\ s[2] = b
  BY <1>1, AppendProperties
<1>3. /\ <<a, b>> \in Seq(S) /\ Len(<<a, b>>) = 2
      /\ <<a, b>>[1] = a /\ <<a, b>>[2] = b
  OBVIOUS
<1>4. \A i \in 1 .. Len(s) : s[i] = <<a, b>>[i]
  BY <1>2, <1>3
<1> HIDE DEF s
<1>5. s = <<a, b>>
  BY <1>2, <1>3, <1>4, SeqEqual
<1> QED BY <1>5 DEF s

LEMMA Append2 ==
  ASSUME NEW S, NEW a \in S, NEW b \in S, NEW c \in S
  PROVE  Append(<<a, b>>, c) = <<a, b, c>>
<1> DEFINE s == Append(<<a, b>>, c)
<1>1. /\ <<a, b>> \in Seq(S) /\ Len(<<a, b>>) = 2
      /\ <<a, b>>[1] = a /\ <<a, b>>[2] = b
  OBVIOUS
<1>2. s \in Seq(S) /\ Len(s) = 3 /\ s[1] = a /\ s[2] = b /\ s[3] = c
  BY <1>1, AppendProperties
<1>3. /\ <<a, b, c>> \in Seq(S) /\ Len(<<a, b, c>>) = 3
      /\ <<a, b, c>>[1] = a /\ <<a, b, c>>[2] = b /\ <<a, b, c>>[3] = c
  OBVIOUS
<1>4. \A i \in 1 .. Len(s) : s[i] = <<a, b, c>>[i]
  BY <1>2, <1>3
<1> HIDE DEF s
<1>5. s = <<a, b, c>>
  BY <1>2, <1>3, <1>4, SeqEqual
<1> QED BY <1>5 DEF s

LEMMA InitInv == Init => Inv
<1> SUFFICES ASSUME Init PROVE Inv
  OBVIOUS
<1> USE DEF Init
<1>1. TypeOK
  <2>1. {} \in SUBSET LogLevel /\ line \in Seq(Threads \X Piece)
    OBVIOUS
  <2> QED BY <2>1 DEF TypeOK, LogLevel, Place
<1>2. LevelKnown /\ TagsOverlap /\ LastIsWriting /\ AloneWrites
  BY DEF LevelKnown, TagsOverlap, LastIsWriting, AloneWrites
<1> QED BY <1>1, <1>2 DEF Inv

(* When nobody is logging, no line is unfinished. *)
LEMMA QuietIsClean ==
  Inv => ((\A t \in Threads : at[t] = "idle") => line = <<>>)
  BY DEF Inv, TypeOK, LastIsWriting, Writing, Piece

(* A new line, begun by t. *)
LEMMA SetInv ==
  ASSUME Inv, NEW t \in Threads, NEW l \in LogLevel, SetLogLevel(t, l)
  PROVE  Inv'
<1> USE DEF Inv, SetLogLevel, Go, Store
<1>1. TypeOK'
  BY DEF TypeOK, Place, Busy
<1>2. LevelKnown'
  BY DEF TypeOK, LevelKnown
<1>3. TagsOverlap'
  BY DEF TypeOK, TagsOverlap
<1>4. LastIsWriting'
  <2>1. line # <<>> => line[Len(line)][1] \in Threads \ {t}
    BY DEF TypeOK, LastIsWriting, Writing
  <2> QED BY <2>1 DEF TypeOK, LastIsWriting, Writing
<1>5. AloneWrites'
  <2> SUFFICES ASSUME NEW v \in Threads, alone'[v], at'[v] # "idle"
               PROVE  /\ \A u \in Threads \ {v} : at'[u] = "idle"
                      /\ rivals'[v] = {}
                      /\ line' = Written(v)'
    BY DEF AloneWrites
  <2>1. v = t /\ \A u \in Threads : at[u] = "idle"
    BY DEF TypeOK, Busy
  <2>2. line = <<>>
    BY <2>1, QuietIsClean
  <2>3. at'[t] = "set"
    BY DEF TypeOK
  <2> QED BY <2>1, <2>2, <2>3 DEF TypeOK, Written
<1> QED BY <1>1, <1>2, <1>3, <1>4, <1>5

(* The level is read back: that of t, if no other line overlaps. *)
LEMMA ReadInv ==
  ASSUME Inv, NEW t \in Threads, ReadLevel(t)
  PROVE  Inv'
<1> USE DEF Inv, ReadLevel, Go
<1>1. TypeOK'
  BY DEF TypeOK, Place
<1>2. LevelKnown'
  BY DEF LevelKnown
<1>3. TagsOverlap'
  BY DEF TypeOK, TagsOverlap, LevelKnown
<1>4. LastIsWriting'
  <2>1. line # <<>> => line[Len(line)][1] \in Threads \ {t}
    BY DEF TypeOK, LastIsWriting, Writing
  <2> QED BY <2>1 DEF TypeOK, LastIsWriting, Writing
<1>5. AloneWrites'
  BY DEF TypeOK, AloneWrites, Written
<1> QED BY <1>1, <1>2, <1>3, <1>4, <1>5

(* A piece is written. *)
LEMMA WriteInv ==
  ASSUME Inv, NEW t \in Threads,
         \/ Write(t, "read", "tag", tag[t])
         \/ Write(t, "tag", "time", "time")
         \/ Write(t, "time", "msg", "msg")
  PROVE  Inv'
<1> USE DEF Inv
<1>1. PICK from, to, piece :
        /\ Write(t, from, to, piece)
        /\ \/ from = "read" /\ to = "tag" /\ piece = tag[t]
           \/ from = "tag" /\ to = "time" /\ piece = "time"
           \/ from = "time" /\ to = "msg" /\ piece = "msg"
  OBVIOUS
<1>2. /\ at[t] = from /\ at' = [at EXCEPT ![t] = to]
      /\ <<t, piece>> \in Threads \X Piece
      /\ line' = Append(line, <<t, piece>>)
      /\ UNCHANGED <<logLevel_, level, tag, exited, rivals, alone>>
  BY <1>1 DEF Write, Go, TypeOK, Piece
<1>3. /\ line' \in Seq(Threads \X Piece)
      /\ line' # <<>> /\ line'[Len(line')] = <<t, piece>>
  BY <1>2 DEF TypeOK
<1>4. TypeOK'
  BY <1>1, <1>2, <1>3 DEF TypeOK, Place
<1>5. LevelKnown'
  BY <1>2 DEF LevelKnown
<1>6. TagsOverlap'
  BY <1>1, <1>2 DEF TypeOK, TagsOverlap
<1>7. LastIsWriting'
  BY <1>1, <1>2, <1>3 DEF TypeOK, LastIsWriting, Writing
<1>8. AloneWrites'
  <2> SUFFICES ASSUME NEW v \in Threads, alone[v], at'[v] # "idle"
               PROVE  /\ \A u \in Threads \ {v} : at'[u] = "idle"
                      /\ rivals[v] = {}
                      /\ line' = Written(v)'
    BY <1>2 DEF AloneWrites
  <2>1. v = t
    BY <1>1, <1>2 DEF TypeOK, AloneWrites
  <2>2. /\ \A u \in Threads \ {t} : at[u] = "idle"
        /\ rivals[t] = {}
        /\ line = Written(t)
    BY <1>1, <1>2, <2>1 DEF AloneWrites
  <2>3. tag[t] = level[t]
    BY <1>1, <1>2, <2>2 DEF TagsOverlap
  <2>4. line' = Written(t)'
    <3>1. at'[t] = to
      BY <1>2 DEF TypeOK
    <3>2. level'[t] = level[t]
      BY <1>2
    <3>3. CASE at[t] = "read"
      <4>1. line = <<>> /\ line' = <<<<t, level[t]>>>>
        BY <1>1, <1>2, <2>2, <2>3, <3>3 DEF Written
      <4> QED BY <1>1, <1>2, <3>1, <3>2, <3>3, <4>1 DEF Written
    <3>4. CASE at[t] = "tag"
      <4>1. line = <<<<t, level[t]>>>>
        BY <2>2, <3>4 DEF Written
      <4>2. line' = <<<<t, level[t]>>, <<t, "time">>>>
        <5>1. /\ <<t, level[t]>> \in Threads \X Piece
              /\ <<t, "time">> \in Threads \X Piece
          BY DEF TypeOK, Piece
        <5>2. line' = Append(line, <<t, "time">>)
          BY <1>1, <1>2, <3>4
        <5> QED BY <4>1, <5>1, <5>2, Append1
      <4> QED BY <1>1, <1>2, <3>1, <3>2, <3>4, <4>2 DEF Written
    <3>5. CASE at[t] = "time"
      <4>1. line = <<<<t, level[t]>>, <<t, "time">>>>
        BY <2>2, <3>5 DEF Written
      <4>2. line' = <<<<t, level[t]>>, <<t, "time">>, <<t, "msg">>>>
        <5>1. /\ <<t, level[t]>> \in Threads \X Piece
              /\ <<t, "time">> \in Threads \X Piece
              /\ <<t, "msg">> \in Threads \X Piece
          BY DEF TypeOK, Piece
        <5>2. line' = Append(line, <<t, "msg">>)
          BY <1>1, <1>2, <3>5
        <5> QED BY <4>1, <5>1, <5>2, Append2
      <4> QED BY <1>1, <1>2, <3>1, <3>2, <3>5, <4>2 DEF Written
    <3> QED BY <1>1, <1>2, <3>3, <3>4, <3>5
  <2> QED BY <1>2, <2>1, <2>2, <2>4 DEF TypeOK
<1> QED BY <1>4, <1>5, <1>6, <1>7, <1>8

(* The line ends, and so may the program. *)
LEMMA EndInv ==
  ASSUME Inv, NEW t \in Threads, EndLine(t) \/ Exit(t)
  PROVE  Inv'
<1> USE DEF Inv, Go
<1>1. CASE EndLine(t)
  <2>1. /\ line' = <<>>
        /\ at' = [at EXCEPT ![t] = IF level[t] = "FATAL" THEN "end" ELSE "idle"]
        /\ at[t] = "msg" /\ ~exited
        /\ UNCHANGED <<logLevel_, level, tag, exited, rivals, alone>>
    BY <1>1 DEF EndLine
  <2>2. TypeOK'
    BY <2>1 DEF TypeOK, Place
  <2>3. LevelKnown' /\ TagsOverlap' /\ LastIsWriting'
    BY <2>1 DEF TypeOK, LevelKnown, TagsOverlap, LastIsWriting
  <2>4. AloneWrites'
    BY <2>1 DEF TypeOK, AloneWrites, Written
  <2> QED BY <2>2, <2>3, <2>4
<1>2. CASE Exit(t)
  <2>1. at' = at /\ exited' = TRUE /\ at[t] = "end"
        /\ UNCHANGED <<logLevel_, level, tag, line, rivals, alone>>
    BY <1>2 DEF Exit, TypeOK
  <2>2. TypeOK'
    BY <2>1 DEF TypeOK
  <2> QED
    BY <2>1, <2>2 DEF LevelKnown, TagsOverlap, LastIsWriting, Writing,
                      AloneWrites, Written
<1> QED BY <1>1, <1>2

LEMMA InvInductive == Spec => []Inv
<1>1. Inv /\ [Next]_vars => Inv'
  <2> SUFFICES ASSUME Inv, [Next]_vars PROVE Inv'
    OBVIOUS
  <2>1. ASSUME NEW t \in Threads, Log(t) PROVE Inv'
    BY <2>1, ReadInv, WriteInv, EndInv DEF Log
  <2>2. ASSUME NEW t \in Threads, NEW l \in LogLevel, SetLogLevel(t, l)
        PROVE  Inv'
    BY <2>2, SetInv
  <2>3. CASE UNCHANGED vars
    BY <2>3 DEF vars, Inv, TypeOK, LevelKnown, TagsOverlap, LastIsWriting,
                Writing, AloneWrites, Written
  <2> QED BY <2>1, <2>2, <2>3 DEF Next
<1> QED BY <1>1, InitInv, PTL DEF Spec

(* The type invariant of the logger (Logger.h, Logger.cc). *)
THEOREM TypeCorrect == Spec => []TypeOK
<1>1. Inv => TypeOK
  BY DEF Inv
<1> QED BY <1>1, InvInductive, PTL

(* A line's tag is its own level, or that of a line begun after it         *)
(* (Logger.h:19, Logger.cc:18-34).                                         *)
THEOREM TagsAreOfOverlaps == Spec => []TagsOverlap
<1>1. Inv => TagsOverlap
  BY DEF Inv
<1> QED BY <1>1, InvInductive, PTL

(* A line that no other line overlaps is written whole, under its own      *)
(* level (Logger.cc:16-39).                                                *)
THEOREM AloneMeansWhole == Spec => AloneIsWhole
<1>1. ASSUME Inv, [Next]_vars
      PROVE  \A t \in Threads :
               at[t] = "msg" /\ at'[t] # "msg" /\ alone[t]
                 => line = <<<<t, level[t]>>, <<t, "time">>, <<t, "msg">>>>
  BY <1>1 DEF Inv, AloneWrites, Written
<1> QED BY <1>1, InvInductive, PTL DEF Spec, AloneIsWhole
=============================================================================

------------------------------- MODULE Logger -------------------------------
(***************************************************************************)
(* The Logger: one object for all threads, without a lock.  LOG_INFO and   *)
(* its like store the level of their line in it and then call log, which   *)
(* reads the level back and writes the line to std::cout piece by piece.   *)
(*                                                                         *)
(* logLevel_ is an aligned int: the accesses race, and each is one step.   *)
(* Every << of std::cout is one step, the ':' with the time before it.     *)
(***************************************************************************)
EXTENDS Sequences

CONSTANTS
  Threads,   \* the threads that log
  MODEBUG    \* LOG_DEBUG is compiled in

ASSUME LoggerAssumption == MODEBUG \in BOOLEAN

LogLevel == {"INFO", "ERROR", "FATAL", "DEBUG"}

VARIABLES
  logLevel_,  \* Logger::logLevel_
  at,         \* per thread: how far its LOG_... is
  level,      \* per thread: the level of its line
  tag,        \* per thread: the level that log found
  line,       \* on std::cout since the last end of line: <<thread, piece>>
  exited,     \* LOG_FATAL has ended the program
  rivals,     \* history, per thread: levels that others set since it did
  alone       \* history, per thread: no other line overlaps its line

vars == <<logLevel_, at, level, tag, line, exited, rivals, alone>>

Place == {"idle", "set", "read", "tag", "time", "msg", "end"}

Piece == LogLevel \cup {"time", "msg"}

TypeOK ==
  /\ logLevel_ \in LogLevel
  /\ at \in [Threads -> Place]
  /\ level \in [Threads -> LogLevel]
  /\ tag \in [Threads -> LogLevel]
  /\ line \in Seq(Threads \X Piece)
  /\ exited \in BOOLEAN
  /\ rivals \in [Threads -> SUBSET LogLevel]
  /\ alone \in [Threads -> BOOLEAN]
  /\ \A t \in Threads : at[t] = "end" => level[t] = "FATAL"
  /\ exited => \E t \in Threads : at[t] = "end"

(* The logger has static storage: its level is 0. *)
Init ==
  /\ logLevel_ = "INFO"
  /\ at = [t \in Threads |-> "idle"]
  /\ level = [t \in Threads |-> "INFO"]
  /\ tag = [t \in Threads |-> "INFO"]
  /\ line = <<>>
  /\ exited = FALSE
  /\ rivals = [t \in Threads |-> {}]
  /\ alone = [t \in Threads |-> FALSE]

Go(t, from, to) ==
  /\ ~exited
  /\ at[t] = from
  /\ at' = [at EXCEPT ![t] = to]

Busy(t) == \E u \in Threads \ {t} : at[u] # "idle"

(* Mutant: the level is stored only when it differs from the last line's. *)
StoreIfChanged(t, l) ==
  logLevel_' = IF level[t] = l THEN logLevel_ ELSE l

Store(t, l) == logLevel_' = l

SetLogLevel(t, l) ==
  /\ Go(t, "idle", "set")
  /\ l = "DEBUG" => MODEBUG
  /\ Store(t, l)
  /\ level' = [level EXCEPT ![t] = l]
  /\ rivals' = [u \in Threads |-> IF u = t THEN {} ELSE rivals[u] \cup {l}]
  /\ alone' = [u \in Threads |-> u = t /\ ~Busy(t)]
  /\ UNCHANGED <<tag, line, exited>>

(* switch (logLevel_) *)
ReadLevel(t) ==
  /\ Go(t, "set", "read")
  /\ tag' = [tag EXCEPT ![t] = logLevel_]
  /\ UNCHANGED <<logLevel_, level, line, exited, rivals, alone>>

Write(t, from, to, piece) ==
  /\ Go(t, from, to)
  /\ line' = Append(line, <<t, piece>>)
  /\ UNCHANGED <<logLevel_, level, tag, exited, rivals, alone>>

(* << std::endl; only LOG_FATAL has anything left to do. *)
EndLine(t) ==
  /\ Go(t, "msg", IF level[t] = "FATAL" THEN "end" ELSE "idle")
  /\ line' = <<>>
  /\ UNCHANGED <<logLevel_, level, tag, exited, rivals, alone>>

(* Mutant: log itself exits, by the level that it has read. *)
ExitByTag(t) ==
  /\ Go(t, "end", "end")
  /\ exited' = (tag[t] = "FATAL")
  /\ UNCHANGED <<logLevel_, level, tag, line, rivals, alone>>

(* exit(-1) *)
Exit(t) ==
  /\ Go(t, "end", "end")
  /\ exited' = TRUE
  /\ UNCHANGED <<logLevel_, level, tag, line, rivals, alone>>

Log(t) ==
  \/ ReadLevel(t)
  \/ Write(t, "read", "tag", tag[t])
  \/ Write(t, "tag", "time", "time")
  \/ Write(t, "time", "msg", "msg")
  \/ EndLine(t)
  \/ Exit(t)

Next == \E t \in Threads : Log(t) \/ \E l \in LogLevel : SetLogLevel(t, l)

Spec == Init /\ [][Next]_vars

(* A thread that has begun a line goes on with it. *)
FairSpec == Spec /\ \A t \in Threads : WF_vars(Log(t))
=============================================================================

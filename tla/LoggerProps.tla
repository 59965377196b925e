----------------------------- MODULE LoggerProps ----------------------------
(* What is left of a line's integrity without a lock.                      *)
EXTENDS Logger

(* A line carries its own level, or that of a line which another thread    *)
(* began after it: never one of a line begun before, and never none        *)
(* (Logger.h:19, Logger.cc:18-34).                                         *)
TagsOverlap ==
  \A t \in Threads :
    at[t] \notin {"idle", "set"} => tag[t] \in {level[t]} \cup rivals[t]

(* Logger.cc:15 says a line is "[level]time: message"; it is for a line    *)
(* that no other line overlaps (Logger.cc:16-39).                          *)
AloneIsWhole ==
  [][\A t \in Threads :
       at[t] = "msg" /\ at'[t] # "msg" /\ alone[t]
         => line = <<<<t, level[t]>>, <<t, "time">>, <<t, "msg">>>>]_vars

(* LOG_FATAL ends the program, whatever other threads do to the shared     *)
(* level (Logger.h:37-46).                                                 *)
FatalEnds ==
  \A t \in Threads : at[t] # "idle" /\ level[t] = "FATAL" ~> exited
=============================================================================

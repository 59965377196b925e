---------------------------- MODULE MCEventLoop -----------------------------
(* Instances of EventLoopProps for TLC.                                    *)
EXTENDS EventLoopProps

CONSTANTS f1, f2, f3, t1, t2

MCFunctors == {f1, f2, f3}
MCInitFunctors == {f1}
MCThreads == {t1, t2}

=============================================================================

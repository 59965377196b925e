--------------------------- MODULE MCEPollPoller ----------------------------
(* Instances of EPollPollerProps for TLC. *)
EXTENDS EPollPollerProps, TLC

CONSTANTS c1, c2, c3, fd5, fd6

MCChannel == {c1, c2, c3}
MCFd == {fd5, fd6}

(* Any two channels, and any two descriptors, are alike. *)
Symmetry == Permutations(MCChannel) \cup Permutations(MCFd)
=============================================================================

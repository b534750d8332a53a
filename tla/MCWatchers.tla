----------------------------- MODULE MCWatchers -----------------------------
(* Instances of Watchers for TLC.                                          *)
EXTENDS Watchers, TLC

CONSTANTS f1, w1, w2, o1

\* For the runs that check no liveness.
Symmetric == Permutations(Watchers)
=============================================================================

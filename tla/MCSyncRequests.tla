-------------------------- MODULE MCSyncRequests --------------------------
(* Instances of SyncRequests for TLC.                                      *)
EXTENDS SyncRequests, TLC

CONSTANTS a1, a2, f1, f2, t1, t2, i1, i2, i3, i4

\* Accounts, folders and task slots are interchangeable (activity ids are
\* not: FreshActivity picks one).  For the runs that check no liveness.
Symmetric == Permutations(Accounts) \cup Permutations(Folders)
             \cup Permutations(Tasks)
=============================================================================

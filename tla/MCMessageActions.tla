------------------------- MODULE MCMessageActions -------------------------
EXTENDS MessageActions, TLC

Symmetry == Permutations(Accounts) \cup Permutations(Uids) \cup Permutations(Requests)

\* The instance starts with one message; a second may arrive in either account.
MCInit == /\ Init
          /\ Cardinality(inbox) = 1
          /\ \A m \in inbox : id[m] = 1
MCSpec == MCInit /\ [][Next]_vars
===========================================================================

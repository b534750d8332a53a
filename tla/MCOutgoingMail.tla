--------------------------- MODULE MCOutgoingMail ---------------------------
EXTENDS OutgoingMail, TLC
Symmetry == Permutations(Drafts)
=============================================================================

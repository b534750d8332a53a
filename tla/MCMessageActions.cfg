CONSTANTS
  Accounts = {a1, a2}
  Uids = {u1}
  Requests = {q1, q2}
  Permits = 2
  MaxEpoch = 2
  MaxId = 3
  MaxChanges = 1
SPECIFICATION MCSpec
SYMMETRY Symmetry
INVARIANTS NothingErased NothingHidden DeleteHonoured ReadOnlyIfFlagged
\* Every request is answered in the end.
CHECK_DEADLOCK FALSE

CONSTANTS
  Accounts = {a1}
  Uids = {u1}
  Requests = {q1}
  Permits = 1
  MaxEpoch = 2
  MaxId = 2
  MaxChanges = 2
SPECIFICATION MCSpec
INVARIANT DeletesWhatWasChosen
CHECK_DEADLOCK FALSE

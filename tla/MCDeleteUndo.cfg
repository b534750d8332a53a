CONSTANTS
  Messages = {m1, m2}
  NoMessage = NoMessage
  UNDO_WINDOW = 1
  DELETE_COMMIT = 2
  MaxVisits = 2
  MaxPresses = 2
SPECIFICATION FairSpec
INVARIANTS UndoHonoured HiddenForAReason
PROPERTY DeletesCarriedOut
\* Every message may be deleted.
CHECK_DEADLOCK FALSE

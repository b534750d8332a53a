SPECIFICATION Spec
CONSTANTS
  f1 = f1
  w1 = w1
  w2 = w2
  Folders = {f1}
  Watchers = {w1,w2}
  MaxEdits = 2
  NoTask = NoTask
  NoFolder = NoFolder
  o1 = o1
  Outsiders = {o1}
SYMMETRY Symmetric
INVARIANTS TypeOK WatchersSupervised ConnectionsOwned StatusHonest NewsNoticed
PROPERTY ClosesOnlyItsOwn
CHECK_DEADLOCK FALSE

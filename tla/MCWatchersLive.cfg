SPECIFICATION FairSpec
CONSTANTS
  f1 = f1
  w1 = w1
  w2 = w2
  Folders = {f1}
  Watchers = {w1,w2}
  MaxEdits = 1
  NoTask = NoTask
  NoFolder = NoFolder
  o1 = o1
  Outsiders = {}
PROPERTIES SettlesOnDesired NewsServed
CHECK_DEADLOCK FALSE

SPECIFICATION FairSpec
CONSTANTS
  Originals = {1, 2}
  Microsofts = {2}
  Folders = {f1, f2}
  f1 = f1
  f2 = f2
  MaxAccounts = 4
  MaxFlows = 1
  MaxSteps = 2
  MaxUpsets = 2
INVARIANTS OwnSettings ChoicesKept SignInUsedOnce
PROPERTY SignInTold
\* The user may leave the page as it is.
CHECK_DEADLOCK FALSE

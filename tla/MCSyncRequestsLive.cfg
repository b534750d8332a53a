SPECIFICATION FairSpec
CONSTANTS
  a1 = a1
  a2 = a2
  f1 = f1
  f2 = f2
  t1 = t1
  t2 = t2
  Accounts = {a1}
  Folders = {f1,f2}
  Tasks = {t1,t2}
  i1 = i1
  i2 = i2
  i3 = i3
  i4 = i4
  ActivityIds = {i1,i2,i3}
  MaxConcurrent = 1
  AllFolders = AllFolders
  NoRequest = NoRequest
  NoTask = NoTask
  NoAccount = NoAccount
  NoActivity = NoActivity
  Outsider = Outsider
PROPERTY RequestsServed
CHECK_DEADLOCK FALSE

SPECIFICATION FairSpec
CONSTANTS
  t1 = t1
  t2 = t2
  e1 = e1
  e2 = e2
  f1 = f1
  Tab = {t1}
  Entry = {e1, e2}
  File = {f1}
  FilesOf <- MCFilesOf
  TextOf <- MCTextOf
  Kinds = {TRUE, FALSE}
  MaxDrops = 1
  MaxRefusals = 1
  MaxRetries = 1
  None = None
PROPERTIES Flushed
INVARIANTS
  Inv
  NothingLost
  FilesOnce
ACTION_CONSTRAINT LoadsFirst
CHECK_DEADLOCK FALSE

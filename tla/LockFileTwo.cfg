SPECIFICATION LockSpec
CONSTANTS
  Readers = {"diagnostics", "inlay"}
  MaxWrites = 3
  NoFile = NoFile
INVARIANTS
  NeverStale
CHECK_DEADLOCK FALSE

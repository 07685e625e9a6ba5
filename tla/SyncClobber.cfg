SPECIFICATION Spec
CONSTANTS
  Loaders = {"sync"}
  MaxSessions = 1
  MaxVersion = 1
  MaxWrites = 1
  MaxPending = 1
  Events = {"write"}
  NoFile = NoFile
  NoDocument = NoDocument
INVARIANTS
  NeverClobbered
CHECK_DEADLOCK FALSE

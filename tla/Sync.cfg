SPECIFICATION SessionSpec
CONSTANTS
  Loaders = {"worker", "sync"}
  MaxSessions = 2
  MaxVersion = 3
  MaxWrites = 2
  MaxPending = 2
  Events = {"format", "reorder", "delete", "save", "write"}
  NoFile = NoFile
  NoDocument = NoDocument
  MaxText = 3
  MaxResult = 1
INVARIANTS
  InSync
  PositionsAgree
  EditsGiveFormatted
PROPERTIES
  FormatNotStale
  Converges
CHECK_DEADLOCK FALSE

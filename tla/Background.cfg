SPECIFICATION BackgroundSpec
CONSTANTS
  Readers = {"diagnostics", "inlay"}
  MaxWrites = 2
  NoFile = NoFile
  MaxInits = 2
  Outcomes = {"plugin", "cli"}
  Enriches = TRUE
  Nothing = Nothing
  Dirs <- MCDirs
  Files <- MCFiles
  DirOf <- MCDirOf
  CallsOf <- MCCallsOf
  Workspace = {"root", "child"}
  Handlers = {"open1"}
  None = None
INVARIANTS
  AnswersFresh
  SchemasCurrent
  EnrichedInTheEnd
  ScheduledIsCovered
  CompletedUnlessClosed
  ChildrenTracked
PROPERTIES
  InitNoticed
  ScansEnd
CHECK_DEADLOCK FALSE

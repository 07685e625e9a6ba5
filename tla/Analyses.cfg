CONSTANTS
    Sources <- MCSources
    DirOf <- MCDirOf
    HomeOf <- MCHomeOf
    Families <- MCFamilies
    Admits = {"root", "child"}
    Fresh = "z"
    Items <- MCItems
    Breakable = {"main", "homes"}
    MaxItems = 3
    MaxMissed = 1
    MaxOffers = 2
    Programs <- MCPrograms
    Optional = {"flag"}
    PlanKnown <- MCPlanKnown
    KeyOrder <- MCKeyOrder
    Depth = 4
    Calls <- MCCalls
    VarFiles <- MCVarFiles
    CallerOf <- MCCallerOf
    Module = "m"
    Expressions <- MCExpressions
    Variables <- MCVariables
    MaxEdits = 3
SPECIFICATION AnalysesSpec
INVARIANTS VerdictRight SuggestionFits NoFalseMismatch
PROPERTIES ReferencesKept ConvertRecordsMoves FiledInPlace AnalysisEnds
CHECK_DEADLOCK FALSE

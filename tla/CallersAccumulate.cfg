CONSTANTS
    KeyOrder <- MCKeyOrder
    Depth = 4
    Calls <- MCCalls
    VarFiles <- MCVarFiles
    CallerOf <- MCCallerOf
    Module = "m"
    Expressions <- MCExpressions
    Variables <- MCVariables
    MaxEdits = 3
SPECIFICATION InputsSpec
INVARIANT CallersAccumulate
CHECK_DEADLOCK FALSE

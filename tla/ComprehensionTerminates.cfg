CONSTANTS
    Programs <- MCShadowing
    Optional = {"flag"}
    PlanKnown <- MCPlanKnown
SPECIFICATION UnknownSpec
PROPERTY ComprehensionTerminates
CHECK_DEADLOCK FALSE

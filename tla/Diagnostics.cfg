SPECIFICATION DiagnosticsSpec
CONSTANTS
    Config = {1, 2}
    Tests = {3}
    Callers = {4}
    Blocks <- MCBlocks
    CoreThreshold <- MCCoreThreshold
    ProviderThreshold <- MCProviderThreshold
    Probes <- MCProbes
    Locked <- MCLocked
    MaxBlocks = 3
    Docs = {a, b}
    MaxText = 3
    MaxTasks = 5
    Concurrent = 2
SYMMETRY DocsSymmetric
INVARIANTS SnapshotAgrees GateSound DiagnosticsSettle
PROPERTIES BlocksMayMove PeersRefreshed
CHECK_DEADLOCK FALSE

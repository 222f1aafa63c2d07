SPECIFICATION Spec
CONSTANTS
    Peers <- MCPeers
    Known <- Local
    Count = 2
    Alpha = 2
    MaxIterations = 3
    MaxCandidates = 3
    Seeds <- AnySeeds
    Answers <- AnyAnswers
    Flaky <- MCPeers
CHECK_DEADLOCK FALSE
INVARIANTS
    LookupTypeOK
    StatesAgree
    WithinLimits
    ConvergedIsFinal
PROPERTIES
    QueriedOnce
    LookupEnds

SPECIFICATION Spec
CONSTANTS
    Peers <- MCPeers
    Known <- Local
    Count = 3
    Alpha = 2
    MaxIterations = 6
    MaxCandidates = 2
    Seeds <- AnySeeds
    Answers <- HonestAnswers
    Flaky = {}
CHECK_DEADLOCK FALSE
INVARIANT
    FindsClosest

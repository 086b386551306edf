SPECIFICATION Spec
CONSTANTS
    Value = {v1, v2}
    None = None
    MaxPuts = 5
    Addr = {a1, a2, a3, a4}
    ZeroAddr = ZeroAddr
    U64Max = 7
    Env = {}
    TableAddr = {a1, a2, a3}
    Ring = 4
    MaxL1 = 13
    MaxSends = 9
    Account = {account}
    Slot = {s1, s2}
    Word = {0, 1}
    MaxBlocks = 3
INVARIANTS
    TypeOK ListMatchesMap SizeCounts RoundTrip
    AnswersAreFresh PartialsAreSubtrees RootIsTreeRoot NodesLogged WalkReachesRoot ReadsTrue
PROPERTIES
    ImplementsDeque ImplementsSet HashesStable
CHECK_DEADLOCK FALSE

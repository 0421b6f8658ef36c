CONSTANTS
    Analyses <- RunAll
    Sources <- MCSources
    Prefixes <- MCPrefixes
    SrcMtime <- MCSrcMtime
    Grace <- MCGrace
    MaxTime <- MCMaxTime
    Noise <- MCNoise
    PublicKey = TRUE
    Sequential = FALSE
    None = None
SPECIFICATION FairSpec
CHECK_DEADLOCK FALSE
INVARIANT OwnResults

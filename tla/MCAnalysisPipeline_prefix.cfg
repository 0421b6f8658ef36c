CONSTANTS
    Analyses <- SharedPrefix
    Sources <- MCSources
    Prefixes <- MCPrefixes
    SrcMtime <- MCSrcMtime
    Grace <- MCGrace
    MaxTime <- MCMaxTime
    Noise <- MCNoise
    PublicKey = TRUE
    Sequential = TRUE
    None = None
SPECIFICATION FairSpec
CHECK_DEADLOCK FALSE
INVARIANT MapOfOwnSource

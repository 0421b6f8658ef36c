CONSTANTS
    Proc = {p1, p2}
    Partial = Partial
    Grace <- MCGrace
    BuildBound <- MCBuildBound
    MaxTime <- MCMaxTime
    MaxVersion <- MCMaxVersion
    Sequential = TRUE
SYMMETRY Symmetry
SPECIFICATION SpecCrash
INVARIANT FreshMapUsed

CONSTANTS
    Proc = {p1, p2}
    Partial = Partial
    Grace <- MCGrace
    BuildBound <- MCSlowBuildBound
    MaxTime <- MCMaxTime
    MaxVersion <- MCMaxVersion
    Sequential = TRUE
SYMMETRY Symmetry
SPECIFICATION Spec
INVARIANT FreshMapUsed

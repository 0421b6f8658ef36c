CONSTANTS
    DirPaths <- MCDirPaths
    FileSpecs <- MCFileSpecs
    Multiplicities <- OneEach
    HiddenNames <- MCHiddenNames
    ProperPrefixes <- MCProperPrefixes
    ExitModulus <- MCExitModulus
    GolintResults <- MCGolintResults
SPECIFICATION Spec
CHECK_DEADLOCK FALSE
INVARIANT SkippedNeverLinted

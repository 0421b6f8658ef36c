CONSTANTS
    DirPaths <- MCDirPaths
    FileSpecs <- MCFileSpecs
    Multiplicities <- Many
    HiddenNames <- MCHiddenNames
    ProperPrefixes <- MCProperPrefixes
    ExitModulus <- MCExitModulus
    GolintResults <- MCGolintResults
SPECIFICATION Spec
CHECK_DEADLOCK FALSE
INVARIANT ExitHonest

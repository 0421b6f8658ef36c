CONSTANTS
    DirPaths <- MCDirPaths
    FileSpecs <- MCFileSpecs
    Multiplicities <- OneEach
    HiddenNames <- MCHiddenNames
    ProperPrefixes <- MCProperPrefixes
    ExitModulus <- MCExitModulus
SPECIFICATION Spec
CHECK_DEADLOCK FALSE
INVARIANT EveryFileLinted

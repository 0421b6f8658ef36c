CONSTANTS
    None = None
    MaxTries <- MCMaxTries
SPECIFICATION FairSpec
CHECK_DEADLOCK FALSE
INVARIANT TypeOK
INVARIANT RetryOnlyE2E
INVARIANT ResultReflectsRuns
PROPERTY TestTerminates
PROPERTY RecordedFinal
PROPERTY JudgesInOrder

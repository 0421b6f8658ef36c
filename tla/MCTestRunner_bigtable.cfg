CONSTANTS
    None = None
    MaxTries <- MCMaxTries
SPECIFICATION FairSpec
CHECK_DEADLOCK FALSE




INVARIANT BigtableAvailable

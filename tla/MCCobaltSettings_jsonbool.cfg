CONSTANTS
    JsonStatuses <- WellFormed
SPECIFICATION Spec
CHECK_DEADLOCK FALSE
INVARIANT NoCrash

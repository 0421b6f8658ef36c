CONSTANTS
    JsonStatuses <- AllStatuses
SPECIFICATION Spec
CHECK_DEADLOCK FALSE
INVARIANT NoCrash

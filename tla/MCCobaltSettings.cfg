CONSTANTS
    JsonStatuses <- AllStatuses
SPECIFICATION Spec
CHECK_DEADLOCK FALSE
INVARIANT TypeOK
INVARIANT ProductionArtifactsTogether
PROPERTY ResolvesTogether

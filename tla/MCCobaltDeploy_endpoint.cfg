CONSTANTS
    v1 = v1
    Versions <- MCVersions
    MaxInvocations <- MCMaxInvocations
SPECIFICATION Spec
CHECK_DEADLOCK FALSE
INVARIANT NoInternalError

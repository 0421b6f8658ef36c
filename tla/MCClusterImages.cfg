CONSTANTS
    r1 = r1
    Refs <- MCRefs
    MaxInvocations <- MCMaxInvocations
SPECIFICATION Spec
CHECK_DEADLOCK FALSE
INVARIANT TypeOK

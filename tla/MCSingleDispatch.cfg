SPECIFICATION Spec
CONSTANT MaxAttempt = 4
CHECK_DEADLOCK FALSE
INVARIANTS
    TypeOK
    AtMostOneWrite
    PermitIsProof
    DecisiveCheckpointNotHidden
    ReadBackIsGenuine
PROPERTY ClaimPrecedesSend

SPECIFICATION TokenFairSpec
CONSTANTS
    Reads = {r1, r2}
    Nobody = Nobody
    MaxToken = 3
    MaxReads = 2
INVARIANTS
    SurvivesRotation
PROPERTIES
    ReadsFinish
CHECK_DEADLOCK FALSE

SPECIFICATION Spec
CONSTANTS
    NaN = NaN
    Lower <- MCLower
    Numbers <- MCNumbers
    Sources <- MCSources
    FirstMap <- MCFirstMap
    Upserts <- MCUpserts
    MaxUpserts = 1
    BcPages <- MCBcPages
    Faults = {"crash", "staging", "reply", "retry", "sync"}
    MaxFaults = 2
INVARIANTS TypeOK VerdictSound IncompleteNeverTagged ExactDraft
PROPERTY ImplementsOutcome
CHECK_DEADLOCK FALSE

SPECIFICATION Spec
CONSTANTS
    Tx = {t1, t2, t3}
    MaxHeight = 3
    NoBlock = NoBlock
    MaxCrashes = 2
SYMMETRY Symmetry
CHECK_DEADLOCK FALSE
INVARIANTS TypeOK StoredIsChain HeaderIsReadable LookupIsFound ReplayedOnlyIfTorn IdleIsAtTop HaltsOnlyIfTorn LookupIsAnswered

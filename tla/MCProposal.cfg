SPECIFICATION MCSpec
CONSTANTS
    v1 = v1
    v2 = v2
    v3 = v3
    t1 = t1
    t2 = t2
    t3 = t3
    Validators = {v1, v2, v3}
    None = None
    TxTime <- MCTxTime
    Second = 2
    Limit = 2
    Enough = 1
    Stamps <- MCStamps
    MaxCopies = 2
INVARIANTS TypeOK NoReplay Orderless LosersAreIrrelevant
PROPERTIES OnlyLinkedLeaves PooledIsLinked
CHECK_DEADLOCK FALSE

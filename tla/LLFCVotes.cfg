SPECIFICATION MCSpec
CONSTANTS
    v1 = v1
    v2 = v2
    v3 = v3
    v4 = v4
    Validators = {v1, v2, v3, v4}
    NoBlock = NoBlock
    Height = 2
    Nobody = Nobody
    Select <- MCSelect
    ConfirmCount = 4
    ConfirmTerms = 3
    AgreeCount = 3
    OtherHeights = {}
    MaxRenewals = 0
    MaxStray = 0
    MaxQueue = 2
    Scenarios = {"anyOrder"}
CHECK_DEADLOCK FALSE
INVARIANTS LinkedCarriesQuorum

SPECIFICATION MCSpec
CONSTANTS
    v1 = v1
    v2 = v2
    v3 = v3
    v4 = v4
    Validators = {v1, v2, v3, v4}
    NoBlock = NoBlock
    Height = 2
    Nobody = Nobody
    Select <- MCSelect
    ConfirmCount = 4
    ConfirmTerms = 3
    AgreeCount = 3
    OtherHeights = {1, 3}
    MaxRenewals = 1
    MaxStray = 2
    MaxQueue = 2
    Scenarios = {"anyOrder", "split", "faults", "stray",
        "behind", "restart", "renew"}
CHECK_DEADLOCK FALSE
INVARIANTS
    TypeOK FinalBackedByQuorum RepublishedIsRenewed NothingForged AwaitsCertified
    OwnCandidateIsOfThisProcess AgreementIfTimely RewardIfTimely
PROPERTY Implements

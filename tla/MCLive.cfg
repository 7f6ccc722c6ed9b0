SPECIFICATION LiveSpec
CONSTANTS
    v1 = v1
    v2 = v2
    Validators = {v1, v2}
    NoBlock = NoBlock
    Height = 2
    Select <- MCSelect
    ConfirmCount = 2
    ConfirmTerms = 2
    AgreeCount = 2
    OtherHeights = {1}
    MaxRenewals = 0
    MaxStray = 1
    MaxQueue = 1
    MayBeLate <- LiveWaits
    MayBeStale = {v1}
PROPERTY PublishedIsLinked
CHECK_DEADLOCK FALSE

SPECIFICATION Spec
CONSTANTS
    main = main
    side = side
    Branches = {main}
    Main = main
    MaxHeight = 3
    ForkAt = 2
    Late = {}
    NoBlock = NoBlock
    MaxLost = 0
CHECK_DEADLOCK FALSE
PROPERTY WaitIsSurvived

SPECIFICATION Spec
CONSTANTS
    main = main
    side = side
    Branches = {main, side}
    Main = main
    MaxHeight = 3
    ForkAt = 2
    Late <- SideIsLate
    NoBlock = NoBlock
    MaxLost = 1
CHECK_DEADLOCK FALSE
INVARIANTS TypeOK ChainIsBranch ReceivedIsKept 
PROPERTY ReceivedIsLinked

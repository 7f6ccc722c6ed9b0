SPECIFICATION Spec
CONSTANTS
    a = a
    b = b
    c = c
    Account = {a, b, c}
    None = None
    Malformed = Malformed
    CreateContract = CreateContract
    Contract = c
    FeeExecute = 1
    Block <- MCBlock
    Creator = a
    Validator <- MCValidator
    Published = 20
    Minimum = 4
    MaxHeight = 2
    MaxReceipts = 2
INVARIANTS TypeOK HonestIsLinkable  MoneyIsAccountedFor
PROPERTY Implements
CHECK_DEADLOCK FALSE

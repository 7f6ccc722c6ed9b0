SPECIFICATION MCSpec
CONSTANTS
    Height = 1
    MaxFinals = 2
    Validators = {n1, n2, n3}
    Block = {b1, b2}
    NoBlock = NoBlock
    AgreeCount = 2
    ConfirmTerms = 2
SYMMETRY Symmetry
INVARIANTS FinalVotedByQuorum ForkAccountability AgreementUnlessReconfirmed
CHECK_DEADLOCK FALSE

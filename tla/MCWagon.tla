------------------------------ MODULE MCWagon ------------------------------
(***************************************************************************)
(* An instance of Wagon for TLC: blocks whose transactions have every      *)
(* outcome, alone and after one another, and pay one or two validators.    *)
(***************************************************************************)
EXTENDS Wagon, TLC

CONSTANTS a, b, c

Pay(from, to, value, fee) ==
    [from |-> from, to |-> to, value |-> value, fee |-> fee, valid |-> TRUE, parsable |-> TRUE]

MCBlock == {
    \* The second needs what the first has brought; the fees do not divide evenly.
    [txs |-> <<Pay(a, b, 3, 2), Pay(b, a, 2, 1), Pay(a, a, 1, 3)>>, voters |-> {a, b}],
    \* The sender can afford the first only: the second is rejected.
    [txs |-> <<Pay(b, c, 1, 1), Pay(b, c, 4, 1)>>, voters |-> {a}],
    \* A limit below the fee, of a sender that cannot even afford the fee.
    [txs |-> <<Pay(c, a, 0, 0), Pay(c, a, 0, 0)>>, voters |-> {b}],
    [txs |-> <<Pay(a, Malformed, 2, 2), Pay(a, CreateContract, 0, 2)>>, voters |-> {a, b}],
    [txs |-> <<[Pay(a, b, 1, 2) EXCEPT !.parsable = FALSE],
               [Pay(a, b, 1, 2) EXCEPT !.valid = FALSE]>>, voters |-> {b}]}

MCValidator == <<a, b>>
=============================================================================

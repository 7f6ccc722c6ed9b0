------------------------------- MODULE Ledger -------------------------------
(***************************************************************************)
(* What the blocks of the chain do to the accounts, without the caches,    *)
(* tries and wagons that compute it: a block is a list of transactions and *)
(* the validators whose votes it carries.  Wagon implements it.            *)
(***************************************************************************)
EXTENDS Integers, FiniteSets, Sequences

CONSTANTS
    Account,        \* well-formed addresses
    Malformed,      \* a recipient that validate_address refuses
    CreateContract, \* CREATE_CONTRACT, the recipient of code to be installed
    FeeExecute,     \* Fee.execute
    Block,          \* the blocks: [txs, voters]
    Creator,        \* the account that publishes the money
    Validator,      \* the accounts of the validators, in order
    Published,      \* the money
    Minimum         \* what every validator delegates to itself

VARIABLE ledger     \* balance, nonce and stake of every account

\* The outcome of a transaction for the accounts as they are before it.
Outcome(accounts, tx) ==
    CASE ~tx.valid \/ accounts[tx.from].balance < tx.value + tx.fee -> "rejected"
      [] OTHER ->
            CASE tx.fee < FeeExecute                   -> "limited"
              [] tx.fee >= FeeExecute ->
                    CASE tx.to = CreateContract                    -> "uncreated"
                      [] tx.to # CreateContract /\ ~tx.parsable    -> "unparsable"
                      [] tx.to = Malformed /\ tx.parsable          -> "malformed"
                      [] tx.to \in Account /\ tx.parsable          -> "transferred"

Paid(outcome) == IF outcome = "rejected" THEN 0 ELSE FeeExecute

\* What the sender gains: a transaction that is rejected pays its fee out.
Gain(outcome, tx) ==
    CASE outcome = "rejected"                     -> tx.fee
      [] outcome \in {"malformed", "transferred"} -> -(tx.value + FeeExecute)
      [] OTHER                                    -> -FeeExecute

\* How often the nonce of the sender is increased.
Nonces(outcome) ==
    CASE outcome = "rejected"                  -> 0
      [] outcome \in {"limited", "unparsable"} -> 1
      [] OTHER                                 -> 2

Transact(accounts, tx) ==
    LET outcome == Outcome(accounts, tx)
        sent == [accounts EXCEPT ![tx.from].balance = @ + Gain(outcome, tx),
                                 ![tx.from].nonce = @ + Nonces(outcome)]
    IN  IF outcome = "transferred" THEN [sent EXCEPT ![tx.to].balance = @ + tx.value] ELSE sent

\* The fees go to the voters in equal parts; the remainder goes to nobody.
Reward(accounts, voters, paid) ==
    [a \in Account |->
        IF a \in voters
        THEN [accounts[a] EXCEPT !.balance = @ + paid \div Cardinality(voters)]
        ELSE accounts[a]]

\* Accounts and fees after every number of transactions.
Run(accounts, txs) ==
    LET run[i \in 0..Len(txs)] ==
            IF i = 0 THEN [accounts |-> accounts, paid |-> 0]
            ELSE [accounts |-> Transact(run[i - 1].accounts, txs[i]),
                  paid |-> run[i - 1].paid + Paid(Outcome(run[i - 1].accounts, txs[i]))]
    IN  run

After(accounts, block) ==
    LET end == Run(accounts, block.txs)[Len(block.txs)]
    IN  Reward(end.accounts, block.voters, end.paid)

\* The genesis block: one nonce and the minimum for every validator.
Genesis ==
    LET times(a) == Cardinality({i \in DOMAIN Validator : Validator[i] = a})
        created(a) == IF a = Creator THEN 1 ELSE 0
    IN  [a \in Account |->
            [balance |-> created(a) * (Published - Len(Validator) * Minimum),
             nonce   |-> times(a) + created(a) * Len(Validator),
             stake   |-> times(a) * Minimum]]

Init == ledger = [a \in Account |-> [balance |-> 0, nonce |-> 0, stake |-> 0]]

DeclareGenesis ==
    /\ Init
    /\ ledger' = Genesis

LinkBlock(block) == ledger' = After(ledger, block)

Next ==
    \/ DeclareGenesis
    \/ \E block \in Block : LinkBlock(block)

Spec == Init /\ [][Next]_ledger

=============================================================================

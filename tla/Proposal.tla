------------------------------ MODULE Proposal ------------------------------
(***************************************************************************)
(* The way of a transaction into the chain: the pool of every node         *)
(* (TransactionManager), the candidates the validators make of their       *)
(* pools, and what a block that is linked leaves in them.                  *)
(*                                                                         *)
(* A round is one step here, Decide: some candidates were read by those    *)
(* whose votes decided, and Selection says which of them they voted for.   *)
(* LLFC is about how the round gets there.                                 *)
(***************************************************************************)
EXTENDS Selection, TLC

CONSTANTS
    Validators,
    None,           \* no candidate
    Limit,          \* length of get_list, 60 in the code
    Enough,         \* _terms_consent of the candidate manager
    Stamps,         \* what a candidate may get: [time, distance, hash]
    MaxCopies       \* bound: how often one transaction is sent to one node

Tx == DOMAIN TxTime

\* A candidate lists some transactions, not more than get_list returns.
Candidate ==
    [creator : Validators, txs : {txs \in Seq(Tx) : Len(txs) \in 1..Limit},
     time : Nat, distance : Nat, hash : Nat]

ASSUME ProposalAssumption ==
    /\ IsFiniteSet(Validators)
    /\ None \notin Candidate
    /\ Limit \in Nat \ {0} /\ Enough \in Nat \ {0} /\ MaxCopies \in Nat
    /\ Stamps \subseteq [time : Nat, distance : Nat, hash : Nat]

VARIABLES
    running,    \* the validators that are up
    copies,     \* copies[n][tx]: deliveries of tx to n still to come
    pool,       \* pool[n]: the storage of the transaction manager, in its order
    proposed,   \* proposed[n]: n's candidate on top of its chain
    chain,      \* the transactions of the final blocks
    height      \* height[n]: how many of them n has linked

vars == <<running, copies, pool, proposed, chain, height>>

\* The transactions the chain of n has.
Known(n) == UNION {ToSet(chain[h]) : h \in 1..height[n]}

\* delete_keys.
DeleteKeys(txs, keys) == Only(txs, ToSet(txs) \ keys)

\* Mutants: one entry too many; the first one is skipped.
GetListLonger(n) == SubSeq(pool[n], 1, Min({Limit + 1, Len(pool[n])}))
GetListSkips(n) == SubSeq(pool[n], 2, Min({Limit, Len(pool[n])}))

\* Storage.range: the first entries, in the order of their first insertion.
GetList(n) == SubSeq(pool[n], 1, Min({Limit, Len(pool[n])}))

\* The candidates of the height that is to be decided.
Candidates == {proposed[n] : n \in {m \in Validators : height[m] = Len(chain)}} \ {None}

Init ==
    /\ running \in {S \in SUBSET Validators : Cardinality(S) >= Enough}
    /\ copies = [n \in Validators |-> [tx \in Tx |-> MaxCopies]]
    /\ pool = [n \in Validators |-> <<>>]
    /\ proposed = [n \in Validators |-> None]
    /\ chain = <<>>
    /\ height = [n \in Validators |-> 0]

\* _process_event: a transaction is stored by its hash; one that is stored already
\* keeps its place.
Process(n, tx) ==
    /\ n \in running
    /\ copies[n][tx] > 0
    /\ copies' = [copies EXCEPT ![n][tx] = @ - 1]
    /\ pool' = [pool EXCEPT ![n] = IF tx \in ToSet(@) THEN @ ELSE Append(@, tx)]
    /\ UNCHANGED <<running, proposed, chain, height>>

\* The transaction is ten minutes old, or the message is lost.
Miss(n, tx) ==
    /\ n \in running
    /\ copies[n][tx] > 0
    /\ copies' = [copies EXCEPT ![n][tx] = @ - 1]
    /\ UNCHANGED <<running, pool, proposed, chain, height>>

\* Mutant: nothing is filtered.
UnknownAll(n, txs) == txs

\* validate_has_transactions.
Unknown(n, txs) == DeleteKeys(txs, Known(n))

CanPropose(n) ==
    /\ n \in running
    /\ proposed[n] = None
    /\ pool[n] # <<>>

\* Mutant: what is proposed leaves the pool.
MakeCandidateTakes(n) ==
    LET txs == Unknown(n, GetList(n)) IN
    /\ CanPropose(n)
    /\ txs # <<>>
    /\ \E stamp \in Stamps :
        /\ \A c \in Candidates : c.hash # stamp.hash
        /\ proposed' = [proposed EXCEPT ![n] =
             [creator |-> n, txs |-> txs, time |-> stamp.time,
              distance |-> stamp.distance, hash |-> stamp.hash]]
    /\ pool' = [pool EXCEPT ![n] = DeleteKeys(@, ToSet(txs))]
    /\ UNCHANGED <<running, copies, chain, height>>

\* make_candidate, of the transactions the chain of n does not have; hashes of
\* different blocks differ.
MakeCandidate(n) ==
    LET txs == Unknown(n, GetList(n)) IN
    /\ CanPropose(n)
    /\ txs # <<>>
    /\ \E stamp \in Stamps :
        /\ \A c \in Candidates : c.hash # stamp.hash
        /\ proposed' = [proposed EXCEPT ![n] =
             [creator |-> n, txs |-> txs, time |-> stamp.time,
              distance |-> stamp.distance, hash |-> stamp.hash]]
    /\ UNCHANGED <<running, copies, pool, chain, height>>

\* make_candidate: all the transactions of the list are known, and deleted.
DeleteKnown(n) ==
    /\ CanPropose(n)
    /\ Unknown(n, GetList(n)) = <<>>
    /\ pool' = [pool EXCEPT ![n] = DeleteKeys(@, ToSet(GetList(n)))]
    /\ UNCHANGED <<running, copies, proposed, chain, height>>

\* The validators that decide have read the candidates in S, in some order.
Decide ==
    \E S \in SUBSET Candidates :
        /\ Cardinality(S) >= Enough
        /\ \E order \in SetToSeqs(S) : chain' = Append(chain, SelectCandidate(order).txs)
        /\ UNCHANGED <<running, copies, pool, proposed, height>>

\* A node links the next block: TransactionManager.clear.
Link(n) ==
    /\ n \in running
    /\ height[n] < Len(chain)
    /\ height' = [height EXCEPT ![n] = @ + 1]
    /\ pool' = [pool EXCEPT ![n] = DeleteKeys(@, ToSet(chain[height'[n]]))]
    /\ proposed' = [proposed EXCEPT ![n] = None]
    /\ UNCHANGED <<running, copies, chain>>

Next ==
    \/ \E n \in Validators, tx \in Tx : Process(n, tx) \/ Miss(n, tx)
    \/ \E n \in Validators : MakeCandidate(n) \/ DeleteKnown(n) \/ Link(n)
    \/ Decide

\* A validator that is up does not stop; a round that can decide does.
Fairness ==
    /\ \A n \in Validators : WF_vars(MakeCandidate(n) \/ DeleteKnown(n) \/ Link(n))
    /\ WF_vars(Decide)

Spec == Init /\ [][Next]_vars /\ Fairness

-----------------------------------------------------------------------------
\* Properties.

\* Types of the variables: a pool is a queue of different transactions, and no block
\* is longer than a list of them.
TypeOK ==
    /\ running \in SUBSET Validators
    /\ copies \in [Validators -> [Tx -> 0..MaxCopies]]
    /\ pool \in [Validators -> Seq(Tx)]
    /\ \A n \in Validators : IsInjective(pool[n])
    /\ proposed \in [Validators -> Candidate \cup {None}]
    /\ \A n \in Validators : proposed[n] # None => proposed[n].creator = n
    /\ chain \in Seq({txs \in Seq(Tx) : Len(txs) \in 1..Limit})
    /\ height \in [Validators -> 0..Len(chain)]

\* No transaction is in two blocks, or twice in one, however late or often it was
\* delivered: transactions carry no nonce, so a replay would be executed.
NoReplay ==
    /\ \A h \in 1..Len(chain) : IsInjective(chain[h])
    /\ \A g, h \in 1..Len(chain) : g # h => ToSet(chain[g]) \cap ToSet(chain[h]) = {}

\* A transaction leaves a pool only if the node has linked it: not when it was
\* proposed in a candidate that lost, nor when others of its list were known.
OnlyLinkedLeaves ==
    [][\A n \in Validators : ToSet(pool[n]) \ ToSet(pool'[n]) \subseteq Known(n)']_vars

\* Whatever the order in which they were stored, the same candidates give the same
\* block, the one that is best by transactions, age, distance and hash.
Orderless ==
    \A S \in (SUBSET Candidates) \ {{}} :
        \A order \in SetToSeqs(S) : SelectCandidate(order) = Best(S)

\* Candidates that lose decide nothing unless they are the first or the last by time:
\* without them the same block is selected.
LosersAreIrrelevant ==
    \A T \in (SUBSET Candidates) \ {{}} : \A S \in (SUBSET T) \ {{}} :
        LET times(C) == {blk.time : blk \in C}
            selected(C) == SelectCandidate(SetToSeq(C))
        IN  /\ Min(times(S)) = Min(times(T)) /\ Max(times(S)) = Max(times(T))
            /\ selected(T) \in S
            => selected(S) = selected(T)

\* A transaction that every validator that is up has in its pool gets into the chain,
\* whoever wins the rounds and whatever is sent after it: pools are queues, and the
\* block of the winner takes what is ahead of it out of all of them.
PooledIsLinked ==
    \A tx \in Tx :
        (\A n \in running : tx \in ToSet(pool[n])) ~> (\A n \in running : tx \in Known(n))

=============================================================================

------------------------------- MODULE Wagon -------------------------------
(***************************************************************************)
(* Execution of blocks by one node: Wagon, State and Executor work on one  *)
(* StateDB, which reads accounts through a cache and writes them to the    *)
(* cache and to the state trie.  The creator of a block executes it before *)
(* it publishes it and again, like every node, when it links it.           *)
(*                                                                         *)
(* Nothing suspends the task within an execution: verify awaits coroutines *)
(* that do not wait.  What happens in between are the next blocks, queries *)
(* of balances and a restart of the process.                               *)
(*                                                                         *)
(* Tries are maps here (Trie implements them): a root that was never       *)
(* committed cannot be read once the cache of its trie is cleared.         *)
(***************************************************************************)
EXTENDS Integers, FiniteSets, Sequences, SequencesExt, FiniteSetsExt

CONSTANTS
    Account,        \* well-formed addresses
    None,           \* no account, nothing cached
    Malformed,      \* a recipient that validate_address refuses
    CreateContract, \* CREATE_CONTRACT, the recipient of code to be installed
    Contract,       \* the address of the code to be installed
    FeeExecute,     \* Fee.execute
    Block,          \* the blocks: [txs, voters]
    Creator,        \* MainConstant.creator
    Validator,      \* the accounts of MainConstant.constant_validator, in order
    Published,      \* MainConstant.published_balance
    Minimum,        \* MainConstant.minimum
    MaxHeight,      \* bound: blocks linked
    MaxReceipts     \* bound: receipts left over when a block starts

Tx == [from : Account, to : Account \cup {Malformed, CreateContract},
       value : Nat, fee : Nat, valid : BOOLEAN, parsable : BOOLEAN]

ASSUME AddressAssumption ==
    /\ IsFiniteSet(Account)
    /\ None \notin [balance : Int, nonce : Nat, stake : Int]
    /\ None \notin [block : Block, links : BOOLEAN, right : BOOLEAN]
    /\ Malformed \notin Account /\ CreateContract \notin Account
    /\ Malformed # CreateContract
    /\ Contract \in Account
ASSUME BlockAssumption ==
    \A b \in Block :
        /\ b.txs \in Seq(Tx)
        /\ b.voters \in SUBSET Account /\ b.voters # {} /\ IsFiniteSet(b.voters)
ASSUME GenesisAssumption ==
    /\ FeeExecute \in Nat /\ Published \in Nat /\ Minimum \in Nat
    /\ MaxHeight \in Nat /\ MaxReceipts \in Nat
    /\ Creator \in Account
    /\ Validator \in Seq(Account)
    /\ Len(Validator) * Minimum <= Published

VARIABLES
    height,     \* height of the top block
    committed,  \* the accounts below its state root, in the database
    exec,       \* the StateDB, the receipts and the fees of the wagon at work
    ref,        \* what a node computes that starts the same block with nothing cached
    pc,         \* "genesis", "idle", "execute" or "executed"
    job,        \* the block at work, whether to link it, whether its header is right
    next,       \* the transaction to be executed next
    own,        \* the final block this node has published
    trouble     \* history: what has left traces since the last clear

vars == <<height, committed, exec, ref, pc, job, next, own, trouble>>

-----------------------------------------------------------------------------
\* StateDB.  A state s has the accounts in the trie, s.work, and in the cache.

Default == [balance |-> 0, nonce |-> 0, stake |-> 0]
NoAccounts == [a \in Account |-> None]

Content(map, a) == IF map[a] = None THEN Default ELSE map[a]

\* _get_account: the result, and the state that has cached it.
GetAccount(s, a) == IF s.cache[a] # None THEN s.cache[a] ELSE Content(s.work, a)
Read(s, a) == [s EXCEPT !.cache[a] = GetAccount(s, a)]

SetAccount(s, a, account) == [s EXCEPT !.cache[a] = account, !.work[a] = account]

ComputeBalance(s, a, consume) ==
    SetAccount(s, a, [GetAccount(s, a) EXCEPT !.balance = @ + consume])
IncreaseNonce(s, a) ==
    SetAccount(s, a, [GetAccount(s, a) EXCEPT !.nonce = @ + 1])

\* set_delegated, with the sender as its own delegate: the same account twice.
SetDelegated(s, a, value) ==
    LET paid == ComputeBalance(s, a, -value)
    IN  SetAccount(paid, a, [GetAccount(paid, a) EXCEPT !.stake = @ + value])

Clean(map) == [work |-> map, cache |-> NoAccounts, receipts |-> <<>>, paid |-> 0]

\* set_root: the cache of accounts stays what it is; the fees are counted anew by
\* every wagon, the receipts are not.
SetRoot(s) == [s EXCEPT !.work = committed, !.paid = 0]

\* Mutant: the cache of accounts survives.
ClearTrie(s, map) ==
    [work |-> IF s.work = map THEN map ELSE NoAccounts,
     cache |-> s.cache, receipts |-> <<>>, paid |-> 0]

\* Wagon.clear: receipts and caches are emptied, and a root that is not that of
\* map, the committed one, can no longer be read.
Clear(s, map) == Clean(IF s.work = map THEN map ELSE NoAccounts)

-----------------------------------------------------------------------------
\* One transaction.

\* Mutant: only the signature is checked.
ValidatedUnpaid(s, tx) == tx.valid

\* validate_transaction: version, hash and signature, validate_payable.
Validated(s, tx) == tx.valid /\ GetAccount(s, tx.from).balance >= tx.value + tx.fee

\* prepare_execute: the limit is taken from the sender.
Prepared(s, tx) == IncreaseNonce(ComputeBalance(s, tx.from, -tx.fee), tx.from)

\* execute: the nonce is increased once more.
Executed(s, tx) == IncreaseNonce(Prepared(s, tx), tx.from)

\* Mutant: the value stays until the recipient has been looked at.
DebitedLate(s, tx) == IF tx.to = Malformed THEN s ELSE ComputeBalance(s, tx.from, -tx.value)

\* The value leaves the sender before the recipient is looked at.
Debited(s, tx) == ComputeBalance(s, tx.from, -tx.value)

\* How far a transaction gets: it is refused, the limit does not cover the fee,
\* code is not installed (it never is), the message is no dictionary, the
\* recipient no address.
Status(s, tx) ==
    IF ~Validated(s, tx) THEN "rejected"
    ELSE IF FeeExecute > tx.fee THEN "limited"
    ELSE IF tx.to = CreateContract THEN "uncreated"
    ELSE IF ~tx.parsable THEN "unparsable"
    ELSE IF tx.to = Malformed THEN "malformed"
    ELSE "transferred"

\* context.paid.
Used(status) == IF status = "rejected" THEN 0 ELSE FeeExecute

\* What the executor has done when it returns or raises.  That get_code may cache the
\* account of a contract that is sent to is left out: the cache then holds what the
\* trie holds, and compute_balance of the recipient reads the same account.
Applied(s, tx, status) ==
    CASE status = "rejected"                   -> s
      [] status \in {"limited", "unparsable"} -> Prepared(s, tx)
      [] status = "uncreated"                  -> Read(Executed(s, tx), Contract)
      [] status = "malformed"                  -> Debited(Executed(s, tx), tx)
      [] status = "transferred" ->
            ComputeBalance(Debited(Executed(s, tx), tx), tx.to, tx.value)

\* The remainder of the limit goes to the sender, after an error, too.
Refunded(s, tx, used) == ComputeBalance(s, tx.from, tx.fee - used)

\* Mutant: what remains of the limit is counted as paid.
SettledByRemainder(s, index, tx, status) ==
    LET end == Refunded(Applied(s, tx, status), tx, Used(status))
    IN  [end EXCEPT
            !.receipts = Append(@, [index |-> index, tx |-> tx, status |-> status, paid |-> Used(status)]),
            !.paid = @ + tx.fee - Used(status)]

\* set_execute_result.
Settled(s, index, tx, status) ==
    LET end == Refunded(Applied(s, tx, status), tx, Used(status))
    IN  [end EXCEPT
            !.receipts = Append(@, [index |-> index, tx |-> tx, status |-> status, paid |-> Used(status)]),
            !.paid = @ + Used(status)]

Transacted(s, index, tx) == Settled(s, index, tx, Status(s, tx))

\* The rewards: equal parts for the validators whose votes the block carries.
Rewarded(s, voters) ==
    LET share == s.paid \div Cardinality(voters)
        account(a) == [GetAccount(s, a) EXCEPT !.balance = @ + share]
    IN  [s EXCEPT
            !.cache = [a \in Account |-> IF a \in voters THEN account(a) ELSE @[a]],
            !.work = [a \in Account |-> IF a \in voters THEN account(a) ELSE @[a]]]

\* What the header says of an execution: hash_receipt_root, hash_state_root.
Header(s) ==
    [receipts |-> SortSeq(s.receipts, LAMBDA p, q : p.index < q.index), state |-> s.work]

\* StateDB.commit: a cached account differs from the one in the trie.
CacheError(s) ==
    \E a \in Account : s.cache[a] # None /\ s.work[a] # None /\ s.cache[a] # s.work[a]

-----------------------------------------------------------------------------

\* genesis_declare: the creator publishes the balance and endows the validators,
\* each of which delegates the minimum to itself.
Endowed(s, a) ==
    LET nonces == IncreaseNonce(IncreaseNonce(s, Creator), a)
    IN  SetDelegated(ComputeBalance(ComputeBalance(nonces, Creator, -Minimum), a, Minimum), a, Minimum)

Init ==
    /\ height = 0
    /\ committed = NoAccounts
    /\ exec = ComputeBalance(Clean(NoAccounts), Creator, Published)
    /\ ref = Clean(NoAccounts)
    /\ pc = "genesis"
    /\ job = None
    /\ next = 1
    /\ own = None
    /\ trouble = {}

DeclareValidator ==
    /\ pc = "genesis"
    /\ next <= Len(Validator)
    /\ exec' = Endowed(exec, Validator[next])
    /\ next' = next + 1
    /\ UNCHANGED <<height, committed, ref, pc, job, own, trouble>>

\* commit; nothing is cleared.
DeclareGenesis ==
    /\ pc = "genesis"
    /\ next > Len(Validator)
    /\ ~CacheError(exec)
    /\ committed' = exec.work
    /\ ref' = Clean(committed')
    /\ pc' = "idle"
    /\ next' = 1
    /\ UNCHANGED <<height, exec, job, own, trouble>>

\* A wagon on top of the chain starts to execute a block.
Start(block, links, right) ==
    /\ pc = "idle"
    /\ height < MaxHeight
    /\ Len(exec.receipts) <= MaxReceipts
    /\ job' = [block |-> block, links |-> links, right |-> right]
    /\ exec' = SetRoot(exec)
    /\ ref' = Clean(committed)
    /\ pc' = "execute"
    /\ next' = 1
    /\ UNCHANGED <<height, committed, own, trouble>>

\* make_finalize_from_confirm, for a block of this node.
StartPropose(block) == Start(block, FALSE, TRUE)

\* finalize: a block of another node, with the right header or not, or the own one.
StartLink ==
    \/ \E block \in Block, right \in BOOLEAN : Start(block, TRUE, right)
    \/ own # None /\ Start(own.block, TRUE, own.right)

ExecuteTransaction ==
    /\ pc = "execute"
    /\ next <= Len(job.block.txs)
    /\ exec' = Transacted(exec, next, job.block.txs[next])
    /\ ref' = Transacted(ref, next, job.block.txs[next])
    /\ next' = next + 1
    /\ UNCHANGED <<height, committed, pc, job, own, trouble>>

PreFinalize ==
    /\ pc = "execute"
    /\ next > Len(job.block.txs)
    /\ exec' = Rewarded(exec, job.block.voters)
    /\ ref' = Rewarded(ref, job.block.voters)
    /\ pc' = "executed"
    /\ UNCHANGED <<height, committed, job, next, own, trouble>>

\* The wagon is done with its block.
Finish ==
    /\ pc' = "idle"
    /\ job' = None
    /\ next' = 1
    /\ ref' = Clean(committed')

\* The block is published with the header this execution gave; clear.
MakeFinalize ==
    /\ pc = "executed"
    /\ ~job.links
    /\ own' = [block |-> job.block, right |-> Header(exec) = Header(ref)]
    /\ exec' = Clear(exec, committed)
    /\ trouble' = {}
    /\ UNCHANGED <<height, committed>>
    /\ Finish

\* The hash of the header is that of the final block.
HashMatches == job.right /\ Header(exec) = Header(ref)

\* ValidationError: the wagon is dropped, but nothing is cleared.
Refuse ==
    /\ pc = "executed"
    /\ job.links
    /\ ~HashMatches
    /\ trouble' = trouble \cup {"refused"}
    /\ UNCHANGED <<height, committed, exec, own>>
    /\ Finish

\* Mutant: the hash is not compared.
CommitUnchecked ==
    /\ pc = "executed"
    /\ job.links
    /\ ~CacheError(exec)
    /\ height' = height + 1
    /\ committed' = exec.work
    /\ exec' = Clear(exec, exec.work)
    /\ own' = None
    /\ trouble' = {}
    /\ Finish

\* finalize and Wagon._commit.
Commit ==
    /\ pc = "executed"
    /\ job.links
    /\ HashMatches
    /\ ~CacheError(exec)
    /\ height' = height + 1
    /\ committed' = exec.work
    /\ exec' = Clear(exec, exec.work)
    /\ own' = None
    /\ trouble' = {}
    /\ Finish

\* CacheError: FinalizeError, after clear.
CommitFails ==
    /\ pc = "executed"
    /\ job.links
    /\ HashMatches
    /\ CacheError(exec)
    /\ exec' = Clear(exec, committed)
    /\ trouble' = {}
    /\ UNCHANGED <<height, committed, own>>
    /\ Finish

\* Chain.get_balance and the like, at any time; trouble if what it caches is not
\* what the chain says.
Query(a) ==
    /\ pc = "idle"
    /\ exec' = Read(exec, a)
    /\ trouble' = IF exec.work = committed THEN trouble ELSE trouble \cup {"queried"}
    /\ UNCHANGED <<height, committed, ref, pc, job, next, own>>

\* A new process.
Restart ==
    /\ pc = "idle"
    /\ exec' = Clean(committed)
    /\ own' = None
    /\ trouble' = {}
    /\ UNCHANGED <<height, committed, ref, pc, job, next>>

Next ==
    \/ DeclareValidator
    \/ DeclareGenesis
    \/ \E block \in Block : StartPropose(block)
    \/ StartLink
    \/ ExecuteTransaction
    \/ PreFinalize
    \/ MakeFinalize
    \/ Refuse
    \/ Commit
    \/ CommitFails
    \/ \E a \in Account : Query(a)
    \/ Restart

Spec == Init /\ [][Next]_vars

-----------------------------------------------------------------------------
\* Properties.

AccountRecord == [balance : Int, nonce : Nat, stake : Int]
Accounts == [Account -> AccountRecord \cup {None}]
Receipt == [index : Nat, tx : Tx,
            status : {"rejected", "limited", "uncreated", "unparsable", "malformed", "transferred"},
            paid : Nat]
StateRecord == [work : Accounts, cache : Accounts, receipts : Seq(Receipt), paid : Nat]

\* Types of the variables: the fees a wagon counts never turn negative.
TypeOK ==
    /\ height \in 0..MaxHeight
    /\ committed \in Accounts
    /\ exec \in StateRecord
    /\ ref \in StateRecord
    /\ pc \in {"genesis", "idle", "execute", "executed"}
    /\ job \in [block : Block, links : BOOLEAN, right : BOOLEAN] \cup {None}
    /\ pc \in {"execute", "executed"} <=> job # None
    /\ next \in Nat \ {0}
    /\ own \in [block : Block, right : BOOLEAN] \cup {None}
    /\ trouble \in SUBSET {"refused", "queried"}

\* Execution depends on the chain only: unless a block was refused or an account
\* was asked for while the trie could not be read, and nothing cleared since, an
\* execution gives what every other node gets, and its commit finds the cache in
\* accordance with the trie, whatever this node proposed, linked or answered before.
HonestIsLinkable ==
    pc = "executed" /\ trouble = {} => Header(exec) = Header(ref) /\ ~CacheError(exec)

\* No account owes more than one fee: a sender is charged beyond its balance only
\* by a limit that does not cover the fee (ExecuteContext.use, fee_remainder),
\* and never again before it has been paid.
NoDeepDebt ==
    \A a \in Account : Content(committed, a).balance >= -FeeExecute

Supply(map) ==
    MapThenSumSet(LAMBDA a : Content(map, a).balance + Content(map, a).stake, Account)

\* What a transaction adds to the money there is: a rejected one pays its fee out
\* to the sender, the value sent to a malformed recipient is gone.
Issued(receipt) ==
    CASE receipt.status = "rejected"  -> receipt.tx.fee
      [] receipt.status = "malformed" -> -receipt.tx.value
      [] OTHER                        -> 0

\* What the transactions with these receipts add.
TotalIssued(receipts) ==
    LET total[i \in 0..Len(receipts)] ==
            IF i = 0 THEN 0 ELSE total[i - 1] + Issued(receipts[i])
    IN  total[Len(receipts)]

\* Money is what was published, and a block changes it by what its transactions
\* issue and by the remainder of the rewards: every other fee, value and refund
\* that compute_balance takes from one account arrives at another.
MoneyIsAccountedFor ==
    /\ height = 0 /\ pc # "genesis" => Supply(committed) = Published
    /\ pc = "executed" =>
        Supply(ref.work) = Supply(committed) + TotalIssued(ref.receipts)
            - (ref.paid % Cardinality(job.block.voters))

\* The chain of this node does what Ledger says, although its cache, its trie and
\* its receipts may hold anything of blocks it proposed, refused or was asked about.
Known(map) == [a \in Account |-> Content(map, a)]
L == INSTANCE Ledger WITH ledger <- Known(committed)
Implements == L!Spec

=============================================================================

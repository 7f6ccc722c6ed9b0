# A TLA+ model of gbrick

gbrick is a blockchain node in Python: a set of *validators* agree, height by
height, on the next block with LLFC ("LeaderLess Fast Consensus"), execute its
transactions and link it to their chain; *subscribers* link what the validators
made final.  This directory models the program under `src/` in TLA+, checks the
models with TLC on small instances and proves theorems about them with TLAPS, for
every number of validators and every choice of the thresholds, for every length of
the chain, and for all blocks and accounts.

Contents: 1 the system, 2 the modules, 3 the runs, 4 what the runs found,
5 the proofs, 6 what is not modelled, 7 what could come next.

## 1. The system

### Components, state, operations

| Component | Source | State | Operations |
|---|---|---|---|
| LLFC consensus | `gbrick/nodes/validator.py`, `llfc_helpers.py` | where `progress` and `_progress` stand, the candidate, the selected block, the vote context | propose, select, vote, confirm, finalize; `RoundError`, `ValidationError`, `FinalizeError`, `AttributeError` handlers |
| Event managers | `event/manager/*.py`, `utils/storage.py` | per exchange the last message of each (height, sender), or a list of final blocks | `process_event`, `send`, `get`, `exists`, `clear` |
| Event facade | `event/event.py`, `event/base.py`, `event/event_context.py` | `asyncio.Event` objects, contexts of candidates and votes | `prepare`, `set_info`, `clear`, `reset`, the five waits |
| Transaction pool | `event/manager/tx_manager.py`, `make_candidate` of `llfc_helpers.py` | pending transactions by hash | `_process_event`, `get_list`, `exists`, `clear` |
| Subscriber | `gbrick/nodes/subscriber.py` | where `_worker` stands | wait for a final block, link it, catch up, synchronise |
| Chain | `gbrick/chains/chain.py` | none of its own: everything is in the databases | `validate_block`, `make_finalize_from_confirm`, `finalize`, `block_from_genesis` |
| Chain database | `gbrick/db/chain.py` | top height, headers by height, blocks by hash, lookups of transactions and votes, tries of transactions, receipts, votes | `commit`, `set_trie`, `get_*`, `has_transaction` |
| State database | `gbrick/db/state.py` | the state trie and its root, caches of accounts and code | `set_root`, `commit`, `clear`, account operations, delegation, registration of validators |
| Wagon | `gbrick/wagon/*.py` | receipts, total of the fees, execution context | `execute_transactions`, `finalize`, `clear`, block rewards |
| Trie | `utils/trie/*.py` | nodes by hash, the root | `put`, `get`, `commit`, `clear` |
| Types, validation, crypto, addresses, utilities | `gbrick/types`, `gbrick/validation.py`, `utils/crypto`, `utils/address.py`, ... | none | encodings, hashes, signatures, checks of single messages |
| Syncer, API, RPC | `event/syncer`, `event/api`, `event/rpc`, `gbrick/api` (imported, not in the repository) | | |

### How they interact

One asyncio event loop runs everything.  The consensus is one task
(`Validator.progress`); it publishes messages on RabbitMQ fanout exchanges, and
the callbacks `process_event` of the managers put what arrives into storages the
task polls.  Queues are exclusive to the process and consumed without
acknowledgement.  A validator receives its own messages through the broker, too.

1. *Transaction wait*: `TransactionManager.exists`; then `make_candidate` builds
   a block of the pending transactions that are not yet in the chain.
2. *Candidate wait* (2 or 3 seconds): publish the candidate, wait for as many
   candidates as there are validators; `select_candidate` drops candidates by
   time, number of transactions, age and hash distance, until one is left.
3. *Vote wait*: publish a vote for it, wait for votes; `aggregate_vote` keeps the
   own choice or takes the block of three others.
4. *Confirm wait*: publish a confirm, wait for confirms; `ConfirmManager.get`
   returns a block that three validators confirmed, or raises `RoundError`.
5. *Finalize wait* (no time limit): the creator of the block executes it, pays
   the reward, signs and publishes the final block; everybody waits for it,
   validates and executes it and links it (`Chain.finalize`), and clears its
   storages up to that height (`event.clear`).

A wait ends *on time* when the storage holds as many entries as there are
validators.  When its time is over it ends all the same if enough entries are
there (`(n - 1) / 3` candidates or votes, three confirms) and with a
`RoundError` otherwise.  After a `RoundError` the node looks for a final block
and, if there is none, goes round the `while` loop of `_progress` again with the
same candidate.  If the list of final blocks holds one of another height instead, the
node leaves `_progress`: `get` raises `FinalizeError` and `progress` asks the syncer, or
several blocks raise `AttributeError` and `accumulated_processing` takes what fits.
When that brings nothing, `progress` goes round its own loop and makes a *new*
candidate at the same height, with a new timestamp.

### What is hard about it

* Validators read their storages at different times: they select from different
  sets of candidates and count different sets of votes.
* Storages are not emptied between rounds of the retry loop, so the messages of a
  round meet those of earlier rounds, and a validator that has confirmed a block
  may confirm another one in its next round.
* The loop of `progress` may make a second candidate at the same height in the running
  process, after final blocks of other heights have come; the first one is still in
  its own storage and in those of the others, which may have confirmed it.
* `exists` counts the entries of every height; `get` looks at one height.
* The confirm manager is not told the size of the validator set: it counts with
  4 and 3 whatever it is.
* `aggregate_vote_from_context` takes the first element of a Python set.
* The votes that earn the reward are read before the confirms that decide.
* A crash empties storages and queues, not the storages of the others.
* The wait for the final block has no time limit.
* `commit` of the chain database is a sequence of separate writes.
* One cache of accounts, one state trie and one list of receipts serve every
  execution of the process: proposals, links, refused blocks and queries.  After
  the proposer's `clear` the root of the trie cannot be read until the next
  `set_root`.
* The errors of an execution are part of it: what has been taken from the sender
  stays taken, and the fee is settled after the error.
* A trie reaches the same contents by many ways and must have one root for them.
* Transactions carry no nonce: only the filter of the proposer, which asks the
  chain, keeps a transaction that arrives twice from being executed twice.

`hazards` in `PROJECT.json` lists these and the others, each at its line, with
the properties that cover it.

### What makes the components correct

* Consensus: a final block was chosen and confirmed by quorums; validators do not
  link different blocks; a published final block gets linked; a validator does
  not wait for ever for a block nobody can publish.
* Managers: what is counted was sent by the validator it is attributed to.
* Chain and databases: the chain grows by one block that extends the last one;
  its state is readable after a restart; lookups lead to stored blocks; a
  transaction is executed once.
* Wagon and state: money changes by known amounts only; no account falls deep
  into debt; the cache agrees with the trie; all nodes compute the same header.
* Pool and selection: no transaction is executed twice, starved or dropped before
  it is in the chain; the selected block does not depend on the order of arrival.
* Trie: it behaves as a map, and its root depends on the contents only.

## 2. The modules

| Module | What it is |
|---|---|
| `Finality` | what one height of LLFC promises: votes, confirms, final blocks, links; no messages, rounds or time |
| `FinalizeManager` | the list of final blocks: what `get` and `clear` make of it; `LLFC` and `FinalizePipeline` extend it |
| `LLFC` | one height of the program: the waits, the managers, the exchanges, the loops of `_progress` and `progress`, the syncer, crashes and restarts; implements `Finality` |
| `LLFCTimely` | `LLFC` with a history variable: which validators have worked on an incomplete set of candidates or votes |
| `FinalizePipeline` | one node over several heights: the loops of validator and subscriber, the list of final blocks, catching up, the syncer |
| `ChainStore` | the databases of one node: the writes of a commit one by one, crashes between them, the start of the process |
| `Selection` | the steps of `select_candidate` as operators on a sequence of candidates, and what they amount to for a set of them |
| `Proposal` | the pools of all nodes, the candidates made of them, the blocks that win, over several rounds |
| `Ledger` | what the blocks of a chain do to the accounts; no cache, no trie, no errors halfway |
| `Wagon` | the execution of blocks by one node, transaction by transaction, in one `StateDB`; implements `Ledger` |
| `StateMap` | what `StateDB` expects of its trie: a map and its committed versions |
| `Trie` | the nodes of the trie, put, get, commit, clear; implements `StateMap` |
| `MCFinality`, `MCLLFC`, `MCLive`, `MCFinalizePipeline`, `MCChainStore`, `MCProposal`, `MCWagon`, `MCTrie` | instances for TLC: constants, bounds on what goes wrong, restrictions of the order of steps |
| `FinalityProof`, `LLFCProof`, `FinalizePipelineProof`, `ChainStoreProof`, `WagonProof`, `LedgerProof`, `ProposalProof`, `TrieProof` | theorems and their proofs |

The parts meet at the block.  `Proposal` says what a candidate contains and, with
`Selection`, which candidate is voted for; `LLFC` decides one height and ends with
`LinkBlock`; `FinalizePipeline` takes what `LLFC` may publish at each height (two
blocks, if it forks) and says which of them the loops link, in which order;
`Wagon` executes the blocks that are proposed and linked and says what they do to
the accounts; `ChainStore` takes the chain the nodes agree on and says what
linking leaves on disk.  Below them `Trie` is the map that `Wagon` works on.  Each
part stands for the others by what it needs of them: `Select` of `LLFC` is any
choice function of a set of candidates, and `Orderless` shows that
`select_candidate` is one; `Decide` of `Proposal` lets any sufficient set of
candidates win, as `LLFC` does; `Wagon` keeps the accounts in a map that loses
what was not committed, which is `StateMap`.

### `LLFC`: state

| Variable | Program |
|---|---|
| `phase[n]` | where the task of `n` stands: waiting for a transaction, candidates, votes, confirms, the final block; `sync` (the syncer runs); `linked`; `halted` (the division by zero ended the task), `stopped` (an exception of `get` did); `crashed` |
| `attempt[n]` | which of its candidates at this height `n` proposes: one more with every turn of the loop of `progress`, in this process or a new one |
| `storage[x][n][s]` | `Storage` of the manager for exchange `x` at node `n`: what sender `s` last sent, for this height |
| `stray[n][x]` | how many entries of other heights that storage holds |
| `fins[n]` | the list of `FinalizeManager`, with the final blocks of other heights in it |
| `sel[n]`, `ctx[n]` | `select_blk` and `vote_context`: whom each validator has voted for, as `n` has read it |
| `net[x][s][n]` | the messages of `s` in the queue of `n` on exchange `x` |
| `linked[n]` | the final block `n` linked |
| `finals`, `voted[n]`, `signed[n]` | history: the final blocks published; all candidates `n` voted for, and confirmed |
| `born[n]` | history: the attempt the running process of `n` began with |

A candidate is named by its `pre_hash`: its creator and the creator's `attempt`.  A
final block is a candidate with the voters of its `list_vote`; one of another height is
told apart by its height only.
What `select_candidate` returns is a function of the set of candidates read
(`Select`, a constant), because its result depends on nothing else.

### `LLFC`: actions

| Action | Code |
|---|---|
| `Propose` | `progress` 140-189: build and publish the candidate of this attempt |
| `SelectCandidate`, `SelectNothing` | `_progress` 190-201; nothing of this height: `ValidationError`, 223-225 |
| `AggregateVote` | `_progress` 203-207 with `aggregate_vote_from_context`; the choice among several foreign blocks is free because the order of a Python set is |
| `AggregateConfirm` | `_progress` 209-228 with `ConfirmManager.get`: `MakeFinalize`, `AwaitFinalize`, `RewardNobody`, or `RoundError` |
| `RoundError` | the handler of 210-222, by what `get` finds in the list: `LinkBlock`; `RepeatRound`, the loop with the same candidate; `AskSyncer`, where `FinalizeError` leaves `_progress` |
| `EventFinalize` | 233-234 with one block in the list: `LinkBlock`; `Stop`, where the second `pop` of `get` raises `IndexError`, which nobody handles; `AskSyncer` |
| `Accumulate` | 174-176 and 72-81, several blocks in the list: `LinkBlock`; `Renew`, where `IndexError` ends `accumulated_processing`; `Stop`, where `FinalizeError` does |
| `Renew` | the loop of `progress`, 134-156: the next attempt.  Storages, queues and what the others hold stay as they are |
| `SyncerBrings`, `SyncerBringsNothing` | `_syncer.run` after a `FinalizeError`: a peer has linked a block of this height, or none has, and the loop makes a new candidate |
| `Timely`, `Late` | the two ways a wait ends (`exists` of the managers) |
| `Process`, `ProcessFinalize`, `ProcessStray`, `ProcessOtherFinal` | `process_event`, of messages of this height and of others; several callbacks may run between two polls |
| `Crash`, `Restart`, `SyncerBrings` | the process ends; it starts again before or after the others have linked |
| `Lose` | consumers do not acknowledge |

`RewardNobody` is the division by `len(validators)` in
`Wagon.__computation_block_rewards` when the creator read no vote for its block.

Left out of `LLFC`: the wording of messages, signatures and hashes (every message
is one the program sends), the time itself (a wait may be over at any moment),
`execute_transactions` except for the reward, and what happens at other heights
except for the entries they leave in the storages and in the list of final blocks.  What
a later height needs before one of its blocks can be final is somebody that has linked
this one (`ProcessOtherFinal`).  The queue between two
validators keeps order and omits a message equal to the one before it, which the
storages cannot tell apart.

`Syncer.run` is not in the repository.  `SyncerBrings` and `SyncerBringsNothing` are what
its callers rely on: it links a block a peer has linked, or leaves the chain as it is.

### `LLFCTimely`

The program can fork (section 4), so what it does guarantee needs a condition, and
the condition is about waits.  `hasty["candidate"]` and `hasty["vote"]` collect the
validators that ended that wait, in any round so far, without an entry of everybody:
`exists` let them go on after 3 or 2 seconds, or counted an entry of another height.
`Record` adds them in every step; `TimelySpec` has the steps of `LLFC`, no more and no
fewer.  `FewAreHasty` says that fewer than `AgreeCount` and fewer than `ConfirmTerms`
validators (two of four, at most) have selected from some of the candidates, and that
none has proposed a second candidate.  It asks nothing of the waits for votes and
confirms, of the finalize wait, of lost messages, of final blocks of other heights or the number of rounds.
Under it `AgreementIfTimely` says that all link the same final block, and `RewardIfTimely`
that a validator that waited for all votes is not stopped by the reward and names, in
its final block, the votes of all that selected from all candidates.  The bound is
sharp: in `llfc_fork` three of four select from some of the candidates.

### `Finality`

`Vote`, `Sign`, `Certify`, `Link`: a validator votes for a block; confirms one it
voted for or `AgreeCount` validators voted for; a block `ConfirmTerms` validators
confirmed is published as a final block, with votes that were cast; each validator links
at most one final block.  It deliberately allows a validator to confirm several
blocks, because the retry loop does, and a creator to publish a candidate again with
other votes, because a creator whose loop of `progress` went round may find its first
candidate confirmed in the confirm wait of the second.  `RepublishedIsRenewed` of `LLFC`
says that only this makes it do so.  `LLFC!Implements` is `Finality!Spec` under the
identity mapping of `voted`, `signed`, `finals` and `linked`.

### `FinalizePipeline`

| Variable | Program |
|---|---|
| `role`, `pc`, `catchingUp` | validator or subscriber; where `progress` or `_worker` stands; whether inside `accumulated_processing` |
| `chain` | the linked blocks, from height 1 |
| `storage`, `pending` | the list of `FinalizeManager`; what `get` returned |
| `queue`, `bound`, `published`, `lost` | the exclusive queue of the node, whether it is bound, what the network has published, what was lost |
| `received`, `overtaken`, `unrewarded` | history: blocks received; whether the syncer has linked a block that reached the list, or was on its way to it, all the same; whether an exception of `make_finalize_from_confirm` got out |

`Get` and `Cleared` of `FinalizeManager` are `get` and `clear`; `Take` is `get` inside
`finalize`, with the two handlers of the caller as parameters.  `Link` is
`Chain.finalize` with `event.clear` behind it, one step because no callback runs
in between; `FinalizeFails` are its exceptions.  `TransactionExists`,
`RoundSucceeds`, `RoundFails`, `RoundRaises` (the division by zero of `LLFC!RewardNobody`,
which no handler of `progress` catches), `FinalizeExists`, `FinalizeManyExist` (the
`AttributeError` of several final blocks), `Accumulate` and `SyncerRun` are the
steps of the loops; `ProcessEvent`, `EventRun`, `Publish`, `Lose` those of the
broker and the network.  A block is a height and a branch: a height on which two
blocks became final has two branches from there on.  `Late` blocks do not pass
the comparison of timestamps in `validate_header`.  The syncer, which is not in
the repository, brings all that peers have linked and may or may not clear the
list.  In `Init` any part of the published chain is on disk, so that every start
of a process, the first or a later one, is a behaviour.

### `ChainStore`

| Variable | Program |
|---|---|
| `pc`, `work` | the next write, or where the process stands: `down`, `idle`, `await` (its own block is published, not linked), `halted` (an exception ended the task), `broken` (it cannot start); the block that is being committed |
| `root` | the root of the trie of `StateDB` |
| `states`, `tries` | the states and the tries of transactions, receipts and votes on disk |
| `top`, `headers`, `blocks`, `lookups` | what `ChainDB.commit` puts under `Lookup.top_header`, the height, the hash, `Lookup.transaction` |
| `network` | the chain the other nodes have linked |
| `torn`, `crashes` | history: blocks whose commit a crash interrupted; crashes so far |

A block and the state after it are named by the sets of transactions executed so
far: hashes are injective, and all nodes execute alike.  `After` is the order of
the writes of `Wagon._commit` and `ChainDB.commit`; `CommitState` and `SetTrie`
are batches, `PutTop`, `PutHeader`, `PutBlock` and `PutLookup` single puts.
`Finalize` is `Chain.finalize` up to the first write; `MakeFinalize` is the
proposer's filter (`validate_has_transactions`) with `make_finalize_from_confirm`,
which executes the block in the same `StateDB` and drops the writes;
`OthersFinalize` a block of another node.  `PrepareChain` is `prepare_chain` with
`block_from_genesis`.  `GetTransaction` and `GetReceipt` follow a lookup to a
header and read the trie below its root (`get_transaction_from_lookup`,
`get_receipt`).  `Crash` ends the process between any two writes; what was
written stays, in order (LevelDB without a crash of the machine).

Nothing in the repository promises that a commit survives a crash, so these
consequences are not findings, but a reader should know them:

* after a crash between the top height and the header, `prepare_chain` raises
  `KeyError`: the node does not start (`broken`);
* after a crash between the header and the block, the node starts, and the next
  `finalize` or `make_finalize_from_confirm` raises `KeyError` (`halted`);
* after a crash before the lookups, `has_transaction` denies transactions that
  were executed.  The node may propose them again, and since transactions carry
  no nonce, all nodes execute them again: `finalize` does not ask
  `has_transaction`.

### `Selection` and `Proposal`

A candidate is its creator, its transactions, its timestamp, its hash and the
distance of the hash from the one of the header before it.  `EstimatedTimeRange`,
`SelectMaximum`, `SelectOldest` and `HashDistance` are the functions of
`llfc_helpers.py`, each of which drops some of a sequence of candidates;
`SelectCandidate` is their composition.  `Timely`, `Before` and `Best` say of a
*set* of candidates what comes out; `Only` is the list comprehension each of them
ends with.  (The docstring of `estimated_time_range`
speaks of 1.2 seconds after the fastest block; the code allows half a second after
the middle between the first and the last.)

| Variable | Program |
|---|---|
| `running` | the validators that are up |
| `copies[n][tx]` | deliveries of `tx` to `n` still to come: a transaction may arrive twice, late or never |
| `pool[n]` | the storage of the transaction manager, in the order of first insertion |
| `proposed[n]` | the candidate of `n` on top of its chain |
| `chain`, `height[n]` | the transactions of the final blocks; how many of them `n` has linked |

| Action | Code |
|---|---|
| `Process`, `Miss` | `_process_event`: stored under its hash; too old, or lost |
| `MakeCandidate` | `make_candidate` of the first `Limit` (60) transactions that the chain does not have |
| `DeleteKnown` | its `ValidationError`: all of them are in the chain and are deleted |
| `Decide` | a round: `select_candidate` on any sufficient set of candidates, in any order |
| `Link` | `TransactionManager.clear` after a block was linked |

### `Wagon` and `Ledger`

| Variable | Program |
|---|---|
| `exec` | the `StateDB` and the wagon: accounts in the trie (`work`), `_cache`, `_receipts`, `_total_paid` |
| `ref` | the same for a node that starts the block with nothing cached |
| `committed` | the accounts below the state root of the top block |
| `height`, `pc`, `job`, `next`, `own` | the chain; where the execution stands, of which block; the final block this node has published |
| `trouble` | history: a refused block or a query in the wrong moment has left something behind |

`Read`, `SetAccount`, `ComputeBalance`, `IncreaseNonce` and `SetDelegated` are the
account operations of `StateDB`; `Validated`, `Prepared`, `Executed`, `Debited`,
`Applied` and `Refunded` are what `State.execute_transaction` and `Executor` do to
the accounts until they return or raise; `Settled` is `set_execute_result`, and
`Rewarded` the block reward.  `Status` names how far a transaction gets.

| Action | Code |
|---|---|
| `DeclareValidator`, `DeclareGenesis` | `_genesis_declare` |
| `StartPropose`, `StartLink` | `get_wagon` for `make_finalize_from_confirm` and for `finalize` |
| `ExecuteTransaction`, `PreFinalize` | the loop of `execute_transactions`; the rewards |
| `MakeFinalize` | the header is taken, `clear` drops the writes and the cache |
| `Refuse` | the hash differs: the exception leaves cache, trie and receipts as they are |
| `Commit`, `CommitFails` | `_commit`; its `CacheError` |
| `Query` | `Chain.get_balance` and the like between executions |
| `Restart` | a new process |

No coroutine in an execution waits for anything, so nothing interleaves with it;
the steps are there because the next transaction starts from what the last one
left.  `Ledger` has the same blocks and one step per block; `Implements` maps its
`ledger` to the committed accounts.  What the model shows, and the code may want to
treat differently: a transaction its sender cannot pay credits the sender with the
fee (`Refunded` after `rejected`); the value sent to a malformed recipient and the
remainder of a reward are gone; a limit below the fee takes the fee all the same,
beyond the balance if need be; and after `trouble` a valid block may be refused or
its commit may fail, until a `clear` ends it.

### `Trie` and `StateMap`

| Variable | Program |
|---|---|
| `root`, `cache`, `db` | the root of the trie, the nodes in its cache, the nodes in the database |
| `committed`, `open`, `puts` | the roots `commit` returned; whether the wagon that set the root is at work; bound |
| `work`, `saved` | derived: what `get` returns for every key, at the root and at the committed ones |

A node stands for its hash.  `AddNode`, `AddBranch`, `AddPair` and `AddNewBranch` are
`add`, `add_branch`, `add_encode_node` and `add_new_branch` with every case of
theirs, and `Add` ties the recursion: it is a function of what is left of the key,
and of the node, that `AddNode` computes from its values for shorter rests.
`DecodeNode` and `GetDecodeNode` are `get_decode_node` in the same way.  `AddPrefix`, `RemovePrefix` and `DecodeType` the encoding of the type of a
node in the first nibbles of its path.  `Put`, `Commit`, `Clear` and `SetRoot` are the operations `StateDB` uses.  Keys are
hashes: of one length, and no two differ in the last nibble only.  `Canonical` builds the
one trie of a map from the top down, without `Add`.  `Implements` maps the derived `work` and `saved` to the map of `StateMap`.

## 3. The runs

| Run | Instance | Checks |
|---|---|---|
| `finality` | 3 validators, 2 candidates, up to 2 final blocks, symmetry (35 000 states) | the quorum properties of the abstract specification |
| `llfc` | 4 validators, seven scenarios (502 000 states) | `TypeOK`, `FinalBackedByQuorum`, `RepublishedIsRenewed`, `NothingForged`, `AwaitsCertified`, `OwnCandidateIsOfThisProcess`, `AgreementIfTimely`, `RewardIfTimely`, `Implements` |
| `llfc_live` | 2 validators, any number of rounds, a late final block of the height before in one of the lists, weak fairness (80 000 states) | `PublishedIsLinked` |
| `pipeline` | one node in either role, three heights, a second branch from height 2, whose last block is late, one lost message, every start | `TypeOK`, `ChainIsBranch`, `ReceivedIsKept`, `EndsOnlyAfterTrouble`, and `ReceivedIsLinked` under fairness |
| `chain_store` | three transactions, three heights, two crashes, symmetry | `TypeOK`, `StoredIsChain`, `HeaderIsReadable`, `LookupIsFound`, `ReplayedOnlyIfTorn`, `IdleIsAtTop`, `HaltsOnlyIfTorn`, `LookupIsAnswered` |
| `trie` | four keys with common prefixes of every length, five puts, two commits | `NothingDangles`, `RootIsCanonical`, `Implements` |
| `wagon` | three accounts, two heights, five blocks whose transactions have every outcome (155 000 states) | `TypeOK`, `HonestIsLinkable`, `NoDeepDebt`, `MoneyIsAccountedFor`, `Implements` |
| `proposal` | three validators that select once; two that build a chain from their pools (63 000 states) | `TypeOK`, `NoReplay`, `Orderless`, `LosersAreIrrelevant`, `OnlyLinkedLeaves`, `PooledIsLinked` |
| `llfc_fork`, `llfc_votes`, `llfc_reward`, `pipeline_stale` | one scenario of `MCLLFC` each; `pipeline_stale` with one branch and nothing lost | each finds one violation, see 4 |

The scenarios of `MCLLFC` are budgets for what may go wrong (`Budget`).  `llfc` has
seven of them:

* `anyOrder`: every interleaving, any one late wait, one retry;
* `split`: lockstep, slow candidates and confirms, six late waits: the chain forks;
* `faults`: lockstep, a creator crashes before or after its final block and starts
  again, the others run out of time and retry: a second block becomes final;
* `restart`: lockstep, a validator crashes while its candidate may be in its own
  queue, and proposes again;
* `stray`: every interleaving, a validator loses a message or counts an entry of
  another height;
* `behind`: every interleaving, a validator misses two confirms and looks for the final
  block the others link, with a block of another height in its list, perhaps:
  `RoundError` leads to the block, to another round or to the syncer;
* `renew`: lockstep, a validator finds one or two final blocks of other heights while it
  waits for its own block.  It asks the syncer, or its task ends, or it proposes a second
  candidate while the first one is still its own entry, publishes the first one again, or
  finds no vote to reward.

`llfc_reward` has `anyLate`: lockstep, any two late waits.

Bounds, and why they are enough.  Four validators are what the thresholds in the
code (4, 3, 3) are made for: with four, three confirms are a quorum and two
blocks can both get one.  `MaxQueue = 2` lets two messages of one sender to one
receiver wait; `MaxRenewals = 1` gives a validator two different candidates at a
height; `OtherHeights = {1, 3}` has a stale and a later height around `Height = 2`;
`MaxStray = 2` lets entries of another height replace missing ones, which is what makes
a wait end too early, and two stale final blocks be in a list at once, which is what
makes a running validator propose again.  `MCLLFC` delivers a message to `n`
right before the step of `n` that reads it: a delivery to `n` commutes with every
step of other validators, and with deliveries to `n` nobody reads in between.
`Lockstep` also fixes the order in which validators go through the waits, so that
a scenario affords more late waits; what arrives in time stays open.  `slow` and
`waits` name the messages and waits that may be late.  For `split` and `faults`
they are the ones a fork, or a second final block after a crash, needs; `anyOrder`
and `anyLate` leave all of them open.  `fragile` says where mishaps and crashes
happen.  In `finality`, `MaxFinals` bounds the final blocks: two are enough for a fork
and for a candidate published twice.  Safety of the unrestricted
specification, for all bounds, is the subject of the proofs.

Three heights in `pipeline` are the fewest in which the list can hold a stale
block, the one expected and one of a later height at once, and in which a fork
has a successor.  In `chain_store` a transaction can be executed twice with
another block in between, and a crash can interrupt a commit and its repetition.

In `trie` the keys share none to three of their nibbles, so that leaves and
extensions of every length are split at every place, and five puts are one more
than there are keys: values are also replaced.  The two values are symmetric, since the
trie does nothing with a value but store and return it.  In `wagon` a second block finds
what the first, proposed, refused or linked, has left behind; the blocks contain
every `Status`, a transaction that depends on the one before it, and fees that do
not divide evenly among the voters; `MaxReceipts` cuts off repeated refusals.  In
`proposal`, `Limit = 2` makes a list shorter than the pool, the stamps contain
times inside and outside the allowed range and ties of every kind; `Allowed` splits
the instance in two, one that varies the candidates of one block and one that
varies the deliveries over a chain of blocks.

`CHECK_DEADLOCK FALSE`: a height ends when the validators have linked its block,
and a behaviour has used up its bounds.

Fairness (`MCLive`).  Weak fairness of the program of each validator: the polls
sleep 50 ms and every wait but the last has a time limit, so an enabled step of
the task is taken.  Weak fairness of each delivery: the broker hands over what it
holds and the event loop runs the callbacks.  No fairness of crashes or of being
late, or of the stale final block that `v1` may find in its list: alone it ends the task
(`IndexError`), next to the block of this height it is dropped.  In `FinalizePipeline` weak fairness of `Task` is the same assumption
together with two about its surroundings: rounds of the consensus end, and
clients keep sending transactions, because a validator whose pool is empty waits
for one before it looks at final blocks (`validator.py:154`).  The broker is not
assumed fair there: `ReceivedIsLinked` starts where a block is in the list.
In `Proposal` a validator that is up makes candidates and links blocks (weak
fairness per node), and a round that can decide does; deliveries are not fair, so
`PooledIsLinked` starts where a transaction is in the pools.
`PublishedIsLinked` says that after a final block is published every
validator that keeps running links a block; it is checked where no message is
lost, since there is no retransmission.

Every property of a passing run has a mutant of a modelled definition that
violates it (`mutants` in `PROJECT.json`; the mutants stand beside the
definitions they change).

## 4. What the runs found

* `llfc_fork` violates `Agreement`.  README.md:40-42 of the repository says that
  a block signed by more than 2/3 is applied and "already confirmed".  A
  validator that confirmed a block runs out of time, starts the round again and
  confirms another: with four validators two blocks of one height collect three
  confirms each and are linked by different validators.  `ForkAccountability` and
  `AgreementUnlessReconfirmed` say that this is the only way, and
  `AgreementIfTimely` that it takes three validators that selected from an incomplete
  set of candidates, or a validator that proposed a second candidate.
* `llfc_votes` violates `LinkedCarriesQuorum`.  README.md:46 says the nodes
  update their states with block data signed by more than 2/3.  The final block
  carries the votes its creator had read at the end of its vote wait; one vote
  out of four is possible, and `validate_block` counts none.
* `llfc_reward` violates `CreatorSurvives`.  If none of the votes the creator
  read is for its own block, which the others have confirmed, the reward is
  divided by zero and the task of the validator ends with the block unpublished.
  By `QuorumIfUndisturbed` this and the violation before it need a wait for candidates
  or votes that ended with something missing, or a second candidate.
* `pipeline_stale` violates `WaitIsSurvived`.  The last comment of
  `FinalizeManager.get` (`finalize_manager.py:85`) means to "sync" when no block of
  the expected height follows a stale one.  If the stale block was alone, the
  second `pop` raises `IndexError` first, which `Validator.progress` and
  `Subscriber._worker` do not catch: a final block that arrives after the syncer
  has brought it ends the task.  `EndsOnlyAfterTrouble` gives the five cases in which the
  task of a node ends: a fork, a late block, a block that has passed the node by (it was
  published before the queue was bound, or lost) and that the syncer has not brought yet,
  a block the syncer has brought that arrives all the same, and the exception of
  `llfc_reward`.

## 5. The proofs

The theorems about consensus hold for every finite non-empty set of validators,
every `AgreeCount`, `ConfirmTerms` >= 1, every `ConfirmCount`, every choice
function `Select` and all bounds; those about `FinalizePipeline` for any number of
heights, branches and lost blocks and any set of late blocks; those about
`ChainStore` for all sets of transactions, heights and numbers of crashes; those
about `Proposal` for every finite set of validators, all transactions and pools and
every `Enough` and `Limit` >= 1; those about `Wagon` for every finite set of
accounts and all blocks and fees; those about `Trie` for all nibbles, all keys of one
length of which no two differ in the last nibble only, and all values.  The assumptions are the named
`ASSUME`s of the modules; TLC evaluates them in the runs.

`FinalityProof`.  The quorum properties are not inductive.  `IInv` is `TypeOK`
with three facts: a confirmed block was voted for by its signer or by
`AgreeCount` validators, a final block is confirmed by `ConfirmTerms` validators,
a linked block is final.  `QuorumOverlap` (two subsets of the validators overlap
in at least the sum of their sizes minus N) gives `ForkOverlap`; with one
confirmed block per validator and `2 * ConfirmTerms > N` it gives
`NoForkUnlessReconfirmed`.

`LLFCProof`.  `IInv` of `LLFC` is the conjunction of

* `TypeOK`;
* `ReceivedIsSent`: queues, storages and lists hold what their sender published;
* `SelectedIsVoted`: what a validator selected it has voted for, and the votes it has
  read were cast;
* `OwnIsOfProcess`: a validator holds and receives, of its own candidates, only those its
  process has proposed.  An earlier one of the same process may be among them;
* `DeafIsEmpty`: a validator that does not listen holds nothing, which a restart
  relies on;
* `LinkedOnce`: only final blocks are linked, by validators that have not linked another;
* `FinalIsPast`: the creator of a final block has passed the confirm wait with it, or has
  proposed another candidate since;
* `RepublishedIsRenewed`: a candidate is final with one set of votes until then.

`Invariance` proves it step by step (one lemma per conjunct, one case per
action).  `Refinement` proves `Spec => Implements`: voting maps to `Vote`,
confirming to `Sign` (by the count of `Aggregated`), publishing to `Certify` (by
the count of `Confirmed`), linking to `Link`, the rest to stuttering.  The quorum theorems of `FinalityProof` then hold for `LLFC` by
instantiation (`BackedByQuorum`, `VotedByQuorum`, `ForkOverlap`,
`NoForkUnlessReconfirmed`).  `NoVainWait` says that a validator waits for a final
block only after a quorum confirmed some block; `NoOldCandidate`, `NoOtherVotes` and
`NoForgery` are consequences of `IInv`.  `Move` sums up the steps by what they do
(`Effects`, `PhaseStep`), so that the proof of a conjunct looks at those it can suffer
from; `KeptExists` and `GetFacts` say what `get` leaves of a list and returns.

The condition for agreement is proved from a second invariant, `TimelyInv` of
`LLFCTimely`.  Agreement is not inductive, and neither is it under `FewAreHasty`: what
has to be known is *which* block everybody ends with.  It is the `Favourite`, what
`select_candidate` makes of the first candidates of all validators.  `FirstIsOnly` says
that queues and storages hold no other candidate of a validator that has not proposed a
second one; so a validator that holds all candidates selects the favourite
(`PatientSelects`).  `PatientAgree` says that such validators have voted for and
confirmed nothing else: another block has the votes of hasty validators only, too few to
lead them away from it (`PatientAggregates`) or to be confirmed by anybody
(`ConfirmedIsFavourite`).  `PatientReward` follows the votes the creator of the
favourite reads into its final block.  `FewAreHasty` can only be lost
(`HastyGrows`), so nothing need be said of what happens after that.  `NoForkIfTimely`
then follows with `BackedByQuorum`, and `FairRewardIfTimely` and `QuorumIfUndisturbed`
with it.  The invariant
`RepublishedIsRenewed` makes the final block, with its votes, one and not only the
candidate.  TLC checked `IInv` and `TimelyInv` on the instance of `llfc` before they
were proved.

`ChainStoreProof`.  None of its properties is inductive.  `IInv` adds

* `WorkIsNext`: what is being committed is the next block of the chain, its
  predecessor is stored under both keys, and the top height stands where the
  write in progress says;
* `WrittenFirst`: its state and tries are on disk once the writes have passed them;
* `GenesisFirst`: the genesis block precedes all others, no header lies above the
  top height, and a node that is up has a header there;
* `CommittedOrTorn`: a block with a header is stored with all its lookups, unless
  it is being committed or a crash interrupted that.

The last one gives `ReplayedOnlyIfTorn` (a proposer at the top of the chain has
the lookup of every transaction executed, except those of torn blocks) and
`HaltsOnlyIfTorn`.  `Answered` follows from the order of the writes: a lookup leads
to a header, and a header has its tries.  `PrefixParts` and `PrefixOfAppend` are the facts about
sequences it rests on: the chain of the network is only appended to.

`FinalizePipelineProof`.  `IInv` adds to the three invariants that what is in the
list, the queue or about to be linked was published (`HeldIsPublished`), that the
block to be linked has the next height (`PendingIsNext`), and that blocks are
published on top of valid ones (`PublishedIsRooted`).  `GetFacts` says what
`FinalizeManager.get` returns and drops; it rests on `ClearedFacts`, which needs a
least counterexample (`Least`) because `Cleared` is recursive.  `LinkStep` shows
that a known predecessor of the next height can only be the top, `PathIsValid`
that what the syncer brings is a path through valid blocks.  `NothingIsDropped`
is the theorem about batches: no received block that can still be linked is lost
between `get`, `clear` and the handlers.

`OnlyTroubleEnds` says under which conditions alone the task of a node can end.
Its invariant `CalmInv` is about order.  As long as no height has two branches, no block is
late, the syncer has linked none that still comes and no reward has failed (`Foul`),
every block is in one place only (`Fresh`); and if none has passed the node by
(`Missed`), the list continues what is linked or about to be linked, the queue continues
the list, and the queue ends with the block published last (`InOrder`).  Then `get` finds
the next height at the head of the list, every `finalize` accepts it, and no handler is
reached.  What is foul stays so (`FoulStays`).  A missed block does not: a node that starts
with a part of the chain on disk has missed the rest, and the syncer brings it.
`SyncerLinksAll` says that the syncer, when nothing is foul, brings all that was
published, and `SyncerCalm` that the order is there again behind it.
So `Missed` excuses an end only while the missed block is not linked, and a restarted node
that has synchronised is as safe as any other.

`WagonProof`.  Two states are `Alike` if they have the same accounts in the trie,
the same receipts and fees, and caches that agree with their tries; every account
operation, transaction and reward maps states that are alike to states that are
alike.  `IInv` says of every point of the node's life what is left over: during
genesis the cache agrees with the trie, and the creator can still endow the
validators that are left; between executions without trouble there are no receipts,
and what is cached is what the chain says; during an execution the clean state
agrees and is solvent, and without trouble the state at work is alike to it.
`HonestLinks` follows because states that are alike have the same header and no
`CacheError`.  `DebtIsBounded` follows because only a limit below the fee takes
more than the balance, by at most a fee, and `validate_payable` refuses the sender
until it has been paid.

`LedgerProof` relates this execution, with its cache, its errors halfway and its
settlement of fees afterwards, to `Ledger`, which has accounts only.  A commit
demands that the root of the trie is the one a clean wagon computes, so it is
enough to follow `ref`.  `Holds(s, k)` says that the cache of `s` agrees with its
trie, whose accounts are `k`; every account operation takes `Holds(s, k)` to
`Holds(s', Moved(k, ...))`, moves of an account add up (`MovedTwice`) and those of
two accounts commute (`MovedCommute`), and so a transaction ends, along each of its
error paths, where `Ledger!Transact` says (`HoldsTransacted`), and a reward where
`Ledger!Reward` says.  `LedgerInv` says that the clean wagon is, between two
transactions, at the value of the recursive function `Run` for the transactions
executed, and the genesis wagon at the `Endowment` of the validators declared.
`Refinement` is `Spec => Implements`.

`MoneyAccounted` needs sums over accounts.  `SumShift`, proved with a least
counterexample over the size of the set, says that a map which differs in one place
sums to the difference; everything else about money is a `Moved`.  `MoneyInv` says
of an execution that its accounts hold what the chain holds, plus what its receipts
have issued (`TotalIssued`: refunds that no debit precedes, less what malformed
recipients swallow), less the fees it has collected and not yet paid out.

`ProposalProof`.  Every step of `select_candidate` keeps the candidates that are
best by one measure; `OnlyFacts` says what such a filter leaves, and the lemmas on
minima and maxima that there is always something left.  Composed, they leave
exactly one block, the one that comes before all others in time
(`OneIsBest`, `SelectedIsBest`), which depends on the set of candidates and not on
their order: `OrderIsIrrelevant`, and `LosersDecideNothing` for two sets with the
same first and last times.  Both rest on `HashesDiffer`, that no two candidates of
a height have the same hash.  `NoTransactionTwice` is `NoReplay`; it is not
inductive without `ProposedIsNew`, that what a node proposes its chain does not
have.  `PoolsKeepTheRest` is the action property: what leaves a pool has been
linked.

`TrieProof`.  What a node holds depends on where it stands: `NodeAt(P, map, node, p)`
says that `node`, below the nibbles `p`, is the leaf, the extension or the branch that
`map` needs there, with its children at the places the set `P` gives them, and
`Trees(store, map)` is the greatest set of nodes and places that is consistent with
itself.  A greatest set needs no recursion: `Plant` adds a node above nodes already
there, `TreesGrow` and `TreesRestrict` move it between stores, `TreesFrame` between
maps that agree below `p`.  `Add` and `GetDecodeNode` are recursive functions; that they
exist (`AddFacts`, `GetFacts`) and all that is said of what they return follows with a
least counterexample over the length of what is left of the key: `GetReads`, that `get`
returns what the map has, and `AddGrows`, that `put` returns the root of a tree for the
map with the new value.  The latter has one lemma for each case of the code: nothing
there, a leaf, an extension, a branch, and paths that part (`AddNewBranchGrows`).
`TreeIsCanonical` goes from the leaves up: a node that holds a map at `p` is the node
`Canonical` puts there, so that there is one root for each map.

`TrieInv` is inductive: all stored nodes stand in some tree (`Closed`), in the database
alone as well as with the cache; the root holds `work`; every committed root holds a map
in the database, and these maps are `saved`.  `WholeTries` and `CanonicalRoots`
are consequences.  `TrieIsMap` is `Spec => Implements`; its hard step is `Clear`, where
the map may be lost with the cache but not if it is a version, and that is so because
the version's root, which is in the database, is the root of the same contents.

Only model-checked: liveness (`PublishedIsLinked`, `ReceivedIsLinked`,
`PooledIsLinked`), which is out of the prover's reach.  Every invariant and action
property and every refinement of a passing run is proved.

## 6. What is not modelled

`components` in `PROJECT.json` gives the status of each part.  Signatures, hashes
and addresses are pure functions over byte strings (hashes are taken to be
injective); encodings, logging, paths and start-up wiring are not about the
properties.  The syncer, the API and the RPC service are not in the repository.
The set-up of connections and the `asyncio.Event` objects of the facade carry no
state between two actions of `LLFC`.  `search_all` of the trie, `set_code`, the
list of validators and the list of delegations are left out: nothing calls the
first, nothing reaches the second (no transaction installs code), and only the
genesis block writes the others; a genesis block that is declared again after a
crash adds to the delegations it wrote the first time, because they are outside the
batch of the commit.  `deserialize_account` drops the field `code`, which no account
has.  Left out of `ChainStore`: the lookups of votes, which nothing reads; a machine
crash that loses writes the operating system had not synced.  What refused blocks
leave in the cache is the subject of `Wagon`, not of `ChainStore`.

## 7. What could come next

Every part of the program's own logic in this repository has its module, in the
order: `Finality`, `LLFC`, `FinalizePipeline`, `ChainStore`, `Trie`, `Wagon`,
`Selection`, `Proposal`, and its theorems.  What is left is liveness, for which the
prover has no rules, and the syncer, once its source is there to be modelled.

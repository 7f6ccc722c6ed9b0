----------------------------- MODULE ChainStore -----------------------------
(***************************************************************************)
(* The databases of one node: how Chain.finalize writes a block, write by  *)
(* write, and what prepare_chain finds when the process starts again.      *)
(*                                                                         *)
(* The state and every trie are written as one batch each; the top height, *)
(* the header, the block and the lookups of its transactions one after the *)
(* other (ChainDB.commit).  The process may end between any two writes;    *)
(* what was written stays, in order.                                       *)
(***************************************************************************)
EXTENDS Integers, Sequences, SequencesExt

CONSTANTS
    Tx,         \* transactions
    MaxHeight,  \* bound: heights of the chain
    NoBlock,    \* "nothing stored"
    MaxCrashes  \* bound: crashes of the node

\* A block is named by its hash, that is by its transactions and its
\* predecessor's hash: by the sets of transactions executed from height 1 up
\* to it.  The same sequence names the state after it, whose root is a hash too.
Txs == SUBSET Tx \ {{}}
Block == {b \in Seq(Txs) : Len(b) <= MaxHeight}
Genesis == <<>>

ASSUME BoundsAssumption == MaxHeight \in Nat /\ MaxCrashes \in Nat
ASSUME NoBlockAssumption == NoBlock \notin Block

VARIABLES
    pc,         \* "down", "idle", "await", "halted", "broken", or the next write
    work,       \* the block that is being committed
    root,       \* the root of the trie of StateDB, NoBlock before the first set_root
    states,     \* disk: the states whose tries are stored
    tries,      \* disk: <<list, block>> for the tries of transactions, receipts, votes
    top,        \* disk: the height under Lookup.top_header, -1 before
    headers,    \* disk: the header by height
    blocks,     \* disk: the blocks stored by their hash
    lookups,    \* disk: the height of a transaction, 0 if there is no lookup
    network,    \* the chain the other nodes have linked
    torn,       \* history: the blocks whose commit a crash has interrupted
    crashes     \* crashes so far

memory == <<pc, work, root>>
disk == <<states, tries, top, headers, blocks, lookups>>
history == <<torn, crashes>>
vars == <<memory, disk, network, history>>

Lists == {"transactions", "receipts", "votes"}
Heights == 0..MaxHeight

\* Mutants of the order of the writes: the chain before the state, the lookups
\* before the block, the block first.
AfterStateLast ==
    [executed |-> "transactions", transactions |-> "receipts", receipts |-> "votes",
     votes |-> "top", top |-> "header", header |-> "block", block |-> "lookup",
     lookup |-> "state", state |-> "idle"]
AfterLookupsFirst ==
    [executed |-> "state", state |-> "transactions", transactions |-> "receipts",
     receipts |-> "votes", votes |-> "lookup", lookup |-> "top", top |-> "header",
     header |-> "block", block |-> "idle"]

\* The order of the writes in Wagon._commit and ChainDB.commit.
After ==
    [executed |-> "state", state |-> "transactions", transactions |-> "receipts",
     receipts |-> "votes", votes |-> "top", top |-> "header", header |-> "block",
     block |-> "lookup", lookup |-> "idle"]
Writes == DOMAIN After \ {"executed"}

\* Genesis has neither lists nor lookups: _from_genesis only calls commit.
Proceed(w) ==
    IF work # Genesis THEN After[w]
    ELSE CASE w = "state" -> "top" [] w = "block" -> "idle" [] OTHER -> After[w]

\* has_transaction denies it.
Unknown(t) == lookups[t] = 0

\* get_transaction_from_lookup and get_receipt follow the lookup of t to a header and
\* read the trie below its root: of which block, NoBlock where they raise KeyError.
GetTransaction(t) ==
    LET header == headers[lookups[t]]
    IN  IF <<"transactions", header>> \in tries THEN header ELSE NoBlock
GetReceipt(t) ==
    LET header == headers[lookups[t]]
    IN  IF <<"receipts", header>> \in tries THEN header ELSE NoBlock

-----------------------------------------------------------------------------
\* The writes of a commit.

CommitState ==
    /\ pc = "state"
    /\ states' = states \cup {work}
    /\ pc' = Proceed(pc)
    /\ UNCHANGED <<work, root, tries, top, headers, blocks, lookups, network, history>>

SetTrie(x) ==
    /\ pc = x
    /\ tries' = tries \cup {<<x, work>>}
    /\ pc' = Proceed(pc)
    /\ UNCHANGED <<work, root, states, top, headers, blocks, lookups, network, history>>

PutTop ==
    /\ pc = "top"
    /\ top' = Len(work)
    /\ pc' = Proceed(pc)
    /\ UNCHANGED <<work, root, states, tries, headers, blocks, lookups, network, history>>

PutHeader ==
    /\ pc = "header"
    /\ headers' = [headers EXCEPT ![Len(work)] = work]
    /\ pc' = Proceed(pc)
    /\ UNCHANGED <<work, root, states, tries, top, blocks, lookups, network, history>>

PutBlock ==
    /\ pc = "block"
    /\ blocks' = blocks \cup {work}
    /\ pc' = Proceed(pc)
    /\ UNCHANGED <<work, root, states, tries, top, headers, lookups, network, history>>

\* One lookup after the other; those of the votes, which nothing reads, follow.
PutLookup(t) ==
    /\ pc = "lookup"
    /\ t \in Last(work)
    /\ lookups[t] # Len(work)
    /\ lookups' = [lookups EXCEPT ![t] = Len(work)]
    /\ pc' = IF \A u \in Last(work) : lookups'[u] = Len(work) THEN Proceed(pc) ELSE pc
    /\ UNCHANGED <<work, root, states, tries, top, headers, blocks, network, history>>

Write ==
    \/ CommitState
    \/ \E x \in Lists : SetTrie(x)
    \/ PutTop \/ PutHeader \/ PutBlock
    \/ \E t \in Tx : PutLookup(t)

-----------------------------------------------------------------------------
\* Chain.

\* Wagon.state: set_root of the header the wagon starts from, then the
\* transactions and the reward.
Executed(header, T) == Append(header, T)

Halt == pc' = "halted" /\ UNCHANGED <<work, root>>

\* Mutant: the state goes on from where the trie of StateDB is.
FinalizeFromTrie ==
    /\ pc \in {"idle", "await"}
    /\ top < Len(network)
    /\ LET b == SubSeq(network, 1, top + 1) IN
        IF Front(b) \in blocks /\ Executed(root, Last(b)) = b
        THEN pc' = After["executed"] /\ work' = b /\ root' = b
        ELSE Halt
    /\ UNCHANGED <<disk, network, history>>

\* Mutant: the predecessor is not looked up.
FinalizeUnknown ==
    /\ pc \in {"idle", "await"}
    /\ top < Len(network)
    /\ LET b == SubSeq(network, 1, top + 1) IN
        IF Executed(headers[top], Last(b)) = b
        THEN pc' = After["executed"] /\ work' = b /\ root' = b
        ELSE Halt
    /\ UNCHANGED <<disk, network, history>>

\* finalize: the next block of the network's chain is validated and executed;
\* KeyError if its predecessor is not stored, ValidationError if the roots differ.
Finalize ==
    /\ pc \in {"idle", "await"}
    /\ top < Len(network)
    /\ LET b == SubSeq(network, 1, top + 1) IN
        IF Front(b) \in blocks /\ Executed(headers[top], Last(b)) = b
        THEN pc' = After["executed"] /\ work' = b /\ root' = b
        ELSE Halt
    /\ UNCHANGED <<disk, network, history>>

\* Mutant: the proposer does not ask has_transaction.
MakeFinalizeUnfiltered(T) ==
    /\ pc = "idle"
    /\ headers[top] = network
    /\ top < MaxHeight
    /\ IF headers[top] \in blocks
       THEN /\ pc' = "await"
            /\ root' = Executed(headers[top], T)
            /\ network' = Append(network, T)
            /\ UNCHANGED work
       ELSE Halt /\ UNCHANGED network
    /\ UNCHANGED <<disk, history>>

\* The candidate of this node is confirmed: make_finalize_from_confirm executes
\* it, drops the writes (wagon.clear) but not the root, and publishes the block.
MakeFinalize(T) ==
    /\ pc = "idle"
    /\ headers[top] = network
    /\ top < MaxHeight
    /\ \A t \in T : Unknown(t)
    /\ IF headers[top] \in blocks
       THEN /\ pc' = "await"
            /\ root' = Executed(headers[top], T)
            /\ network' = Append(network, T)
            /\ UNCHANGED work
       ELSE Halt /\ UNCHANGED network
    /\ UNCHANGED <<disk, history>>

\* Another node's candidate becomes the next block; nobody else has crashed.
OthersFinalize(T) ==
    /\ Len(network) < MaxHeight
    /\ \A i \in 1..Len(network) : network[i] \cap T = {}
    /\ network' = Append(network, T)
    /\ UNCHANGED <<memory, disk, history>>

-----------------------------------------------------------------------------
\* The process.

\* Mutant: the root is not set when the chain is already there.
PrepareChainNoRoot ==
    /\ pc = "down"
    /\ IF Genesis \notin blocks
       THEN pc' = "state" /\ root' = Genesis
       ELSE pc' = (IF headers[top] = NoBlock THEN "broken" ELSE "idle") /\ UNCHANGED root
    /\ work' = Genesis
    /\ UNCHANGED <<disk, network, history>>

\* prepare_chain: declare the genesis block if it is not stored; otherwise read
\* the header of the top height, KeyError if there is none, and set the root.
PrepareChain ==
    /\ pc = "down"
    /\ \/ /\ Genesis \notin blocks
          /\ pc' = "state"
          /\ work' = Genesis
          /\ root' = Genesis
       \/ /\ Genesis \in blocks
          /\ headers[top] = NoBlock
          /\ pc' = "broken"
          /\ UNCHANGED <<work, root>>
       \/ /\ Genesis \in blocks
          /\ headers[top] # NoBlock
          /\ pc' = "idle"
          /\ root' = headers[top]
          /\ UNCHANGED work
    /\ UNCHANGED <<disk, network, history>>

Crash ==
    /\ pc \notin {"down", "broken"}
    /\ crashes < MaxCrashes
    /\ pc' = "down"
    /\ work' = Genesis
    /\ root' = NoBlock
    /\ torn' = IF pc \in Writes THEN torn \cup {work} ELSE torn
    /\ crashes' = crashes + 1
    /\ UNCHANGED <<disk, network>>

-----------------------------------------------------------------------------

Init ==
    /\ pc = "down"
    /\ work = Genesis
    /\ root = NoBlock
    /\ states = {}
    /\ tries = {}
    /\ top = -1
    /\ headers = [h \in Heights |-> NoBlock]
    /\ blocks = {}
    /\ lookups = [t \in Tx |-> 0]
    /\ network = Genesis
    /\ torn = {}
    /\ crashes = 0

Next ==
    \/ Write
    \/ Finalize
    \/ \E T \in Txs : MakeFinalize(T) \/ OthersFinalize(T)
    \/ PrepareChain
    \/ Crash

Spec == Init /\ [][Next]_vars

-----------------------------------------------------------------------------
\* Properties.

\* Types of the variables; a node that is up has a state.
TypeOK ==
    /\ pc \in Writes \cup {"down", "idle", "await", "halted", "broken"}
    /\ work \in Block
    /\ root \in Block \cup {NoBlock}
    /\ pc \notin {"down", "broken"} => root \in Block
    /\ states \subseteq Block
    /\ tries \subseteq Lists \X Block
    /\ top \in {-1} \cup Heights
    /\ headers \in [Heights -> Block \cup {NoBlock}]
    /\ blocks \subseteq Block
    /\ lookups \in [Tx -> Heights]
    /\ network \in Block
    /\ torn \subseteq Block
    /\ crashes \in 0..MaxCrashes

\* The stored headers are the chain of the network without a gap, and every
\* block below the top is stored: whatever write a crash has cut off, nothing is
\* linked on top of a block that is not there.
StoredIsChain ==
    \A h \in Heights : headers[h] # NoBlock =>
        /\ h <= Len(network) /\ headers[h] = SubSeq(network, 1, h)
        /\ h < top => headers[h] \in blocks
        /\ \A g \in 0..h : headers[g] # NoBlock

\* Whoever finds a header can read its state, its transactions, its receipts
\* and its votes: Wagon._commit writes them before ChainDB.commit.
HeaderIsReadable ==
    \A h \in Heights : headers[h] # NoBlock =>
        /\ headers[h] \in states
        /\ h > 0 => \A x \in Lists : <<x, headers[h]>> \in tries

\* A lookup leads to a stored block that contains the transaction.
LookupIsFound ==
    \A t \in Tx : lookups[t] # 0 =>
        /\ headers[lookups[t]] \in blocks
        /\ t \in Last(headers[lookups[t]])

\* After any crash get_transaction and get_receipt deny that there is a transaction,
\* or answer with what the network has executed at that height: the tries they read
\* are there before a lookup can lead to them.
LookupIsAnswered ==
    \A t \in Tx : ~Unknown(t) =>
        \A b \in {GetTransaction(t), GetReceipt(t)} :
            /\ b # NoBlock
            /\ b = SubSeq(network, 1, lookups[t]) /\ t \in Last(b)

\* A transaction is executed twice only if a crash cut off the lookups of the
\* block that executed it first: the proposer's has_transaction is the only
\* thing that keeps a transaction from being executed again.
ReplayedOnlyIfTorn ==
    \A i, j \in 1..Len(network) : i < j =>
        \A t \in network[i] \cap network[j] : SubSeq(network, 1, i) \in torn

\* A node that is up continues from the state of its top block, which is stored,
\* although its own candidates are executed in the same trie and dropped.
IdleIsAtTop == pc = "idle" => root = headers[top] /\ root \in states

\* The task only ends where a crash has left the header of the top block without
\* the block: no valid block of the network fails to execute or to link,
\* whatever the node has executed for its own candidate before.
HaltsOnlyIfTorn == pc = "halted" => headers[top] \in torn /\ headers[top] \notin blocks

-----------------------------------------------------------------------------
\* The inductive invariant of ChainStoreProof.

\* What is being committed is the next block of the chain: everything below it is
\* stored, and the top height has moved on to it once it is written.
WorkIsNext ==
    pc \in Writes =>
        /\ root = work
        /\ Len(work) <= Len(network) /\ work = SubSeq(network, 1, Len(work))
        /\ work = Genesis =>
               /\ Genesis \notin blocks
               /\ pc \in {"state", "top", "header", "block"}
               /\ pc \in {"header", "block"} => top = 0
        /\ work # Genesis =>
               /\ Genesis \in blocks
               /\ Front(work) \in blocks /\ headers[Len(work) - 1] = Front(work)
               /\ top = IF pc \in {"header", "block", "lookup"} THEN Len(work) ELSE Len(work) - 1
        /\ pc \in {"block", "lookup"} => headers[Len(work)] = work
        /\ pc = "lookup" => work \in blocks

\* The state and the tries of the block that is being committed come first.
WrittenFirst ==
    /\ pc \in Writes \ {"state"} => work \in states
    /\ pc \in Writes /\ work # Genesis =>
        /\ pc \notin {"state", "transactions"} => <<"transactions", work>> \in tries
        /\ pc \notin {"state", "transactions", "receipts"} => <<"receipts", work>> \in tries
        /\ pc \notin {"state", "transactions", "receipts", "votes"} => <<"votes", work>> \in tries

\* The genesis block comes before all others, and the top height before a header.
GenesisFirst ==
    /\ Genesis \notin blocks => top <= 0 /\ \A h \in 1..MaxHeight : headers[h] = NoBlock
    /\ Genesis \in blocks => top >= 0
    /\ pc \in {"idle", "await"} => Genesis \in blocks /\ headers[top] # NoBlock
    /\ \A h \in Heights : headers[h] # NoBlock => h <= top

\* A block with a header is stored with all its lookups, unless it is being
\* committed or a crash has interrupted that.
CommittedOrTorn ==
    \A h \in Heights :
        headers[h] # NoBlock /\ ~(pc \in Writes /\ work = headers[h]) =>
            \/ headers[h] \in torn
            \/ /\ headers[h] \in blocks
               /\ h > 0 => \A t \in Last(headers[h]) : lookups[t] # 0

IInv ==
    /\ TypeOK
    /\ StoredIsChain /\ HeaderIsReadable /\ LookupIsFound
    /\ ReplayedOnlyIfTorn /\ IdleIsAtTop /\ HaltsOnlyIfTorn
    /\ WorkIsNext /\ WrittenFirst /\ GenesisFirst /\ CommittedOrTorn

=============================================================================

-------------------------- MODULE FinalizePipeline --------------------------
(***************************************************************************)
(* One node over several heights: the loops of Validator.progress and      *)
(* Subscriber._worker, the list of FinalizeManager they take final blocks  *)
(* from, accumulated_processing, and the syncer they call for help.        *)
(*                                                                         *)
(* The validators of the network publish final blocks; the broker puts     *)
(* them into the queue of the node in the order they were published, and   *)
(* process_event appends them to the list whenever the event loop gets to  *)
(* it.  What consensus decides is the subject of LLFC: here it may publish *)
(* a second block of a height, and a block that is not valid.              *)
(***************************************************************************)
EXTENDS FinalizeManager

CONSTANTS
    MaxHeight,  \* bound: heights of the chain
    Branches,   \* bound: what tells blocks of one height apart
    Main,       \* the branch every height has a block of
    ForkAt,     \* the height at which the other branches leave Main
    Late,       \* the blocks whose timestamp is not later than that of their predecessor
    MaxLost     \* bound: lost final blocks

Block ==
    {b \in [height : 1..MaxHeight, branch : Branches] : b.branch # Main => b.height >= ForkAt}
Genesis == [height |-> 0, branch |-> Main]

ASSUME HeightsAssumption == MaxHeight \in Nat /\ ForkAt \in Nat \ {0}
ASSUME MainAssumption == Main \in Branches
ASSUME LateAssumption == Late \subseteq Block
ASSUME NoBlockAssumption == NoBlock \notin Block
ASSUME BoundAssumption == MaxLost \in Nat

VARIABLES
    role,       \* "validator" or "subscriber"
    pc,         \* where the task of the node stands
    catchingUp, \* whether it is in accumulated_processing
    chain,      \* the blocks linked, from height 1
    pending,    \* the block get_finalize has returned
    storage,    \* the list of FinalizeManager
    queue,      \* the node's queue at the broker
    bound,      \* whether that queue is bound to the exchange
    published,  \* the final blocks published so far
    received,   \* history: the blocks this process has received
    overtaken,  \* history: whether the syncer has linked a block that was still to come
    unrewarded, \* history: whether an exception of make_finalize_from_confirm got out
    lost        \* lost final blocks so far

task == <<pc, catchingUp, pending>>
broker == <<queue, bound, published, lost>>
history == <<received, overtaken, unrewarded>>
vars == <<role, task, chain, storage, broker, history>>

PC == {"sync", "transaction", "consensus", "finalize", "accumulate", "link", "halted"}

\* The block whose hash is in hash_prev_block.
Previous(b) ==
    IF b.height = 1 THEN Genesis
    ELSE [height |-> b.height - 1,
          branch |-> IF b.height <= ForkAt THEN Main ELSE b.branch]

Linked == {chain[i] : i \in 1..Len(chain)}
Stored(q) == {q[i] : i \in 1..Len(q)}

\* Where the loop of progress or _worker starts again.
Loop == IF role = "validator" THEN "transaction" ELSE "finalize"

-----------------------------------------------------------------------------
\* FinalizeManager.

\* process_event.
ProcessEvent ==
    /\ queue # <<>>
    /\ storage' = Append(storage, Head(queue))
    /\ queue' = Tail(queue)
    /\ received' = received \cup {Head(queue)}
    /\ UNCHANGED <<role, task, chain, bound, published, overtaken, unrewarded, lost>>

\* event_run: the queue is declared and bound by a task of its own.
EventRun ==
    /\ ~bound
    /\ bound' = TRUE
    /\ UNCHANGED <<role, task, chain, storage, queue, published, lost, history>>

-----------------------------------------------------------------------------
\* The network.

\* A validator that has linked the predecessor publishes a final block.
Publish(b) ==
    /\ b \notin published
    /\ Previous(b) \in published \cup {Genesis}
    /\ Previous(b) \notin Late
    /\ published' = published \cup {b}
    /\ queue' = IF bound THEN Append(queue, b) ELSE queue
    /\ UNCHANGED <<role, task, chain, storage, bound, lost, history>>

Lose ==
    /\ queue # <<>>
    /\ lost < MaxLost
    /\ queue' = Tail(queue)
    /\ lost' = lost + 1
    /\ UNCHANGED <<role, task, chain, storage, bound, published, history>>

-----------------------------------------------------------------------------
\* Chain.finalize.

\* The node continues with the list as get left it: link what get returned, or
\* go where the handlers of the caller go.
Take(indexError, finalizeError) ==
    LET got == Get(storage, Len(chain) + 1) IN
    /\ storage' = got.rest
    /\ pending' = IF got.raised = "nothing" THEN got.blk ELSE NoBlock
    /\ pc' = IF got.raised = "nothing" THEN "link"
             ELSE IF got.raised = "IndexError" THEN indexError ELSE finalizeError
    /\ UNCHANGED <<role, chain, broker, history>>

\* get_block_from_hash(block.previous) finds the predecessor.
Known(b) == Previous(b) \in Linked \cup {Genesis}

\* Mutant: the predecessor is not looked up.
LinkUnknown ==
    /\ pc = "link"
    /\ pending \notin Late
    /\ chain' = Append(chain, pending)
    /\ storage' = Cleared(storage, pending.height)
    /\ pending' = NoBlock
    /\ pc' = IF catchingUp THEN "accumulate" ELSE Loop
    /\ UNCHANGED <<role, catchingUp, broker, history>>

\* Mutant: the block is still the one to link.
LinkAndKeep ==
    /\ pc = "link"
    /\ Known(pending)
    /\ pending \notin Late
    /\ chain' = Append(chain, pending)
    /\ storage' = Cleared(storage, pending.height)
    /\ pc' = IF catchingUp THEN "accumulate" ELSE Loop
    /\ UNCHANGED <<role, catchingUp, pending, broker, history>>

\* Mutant: event.clear empties the list.
LinkAndForget ==
    /\ pc = "link"
    /\ Known(pending)
    /\ pending \notin Late
    /\ chain' = Append(chain, pending)
    /\ storage' = <<>>
    /\ pending' = NoBlock
    /\ pc' = IF catchingUp THEN "accumulate" ELSE Loop
    /\ UNCHANGED <<role, catchingUp, broker, history>>

\* finalize and event.clear: no callback runs between the two.
Link ==
    /\ pc = "link"
    /\ Known(pending)
    /\ pending \notin Late
    /\ chain' = Append(chain, pending)
    /\ storage' = Cleared(storage, pending.height)
    /\ pending' = NoBlock
    /\ pc' = IF catchingUp THEN "accumulate" ELSE Loop
    /\ UNCHANGED <<role, catchingUp, broker, history>>

\* finalize raises: KeyError if the predecessor is not known, ValidationError
\* if the block is late.  Only the accumulated_processing of a subscriber goes
\* on, with the next block.
FinalizeFails ==
    /\ pc = "link"
    /\ ~Known(pending) \/ pending \in Late
    /\ pending' = NoBlock
    /\ pc' = IF Known(pending) /\ catchingUp /\ role = "subscriber"
             THEN "accumulate" ELSE "halted"
    /\ UNCHANGED <<role, catchingUp, chain, storage, broker, history>>

-----------------------------------------------------------------------------
\* Validator.progress and Subscriber._worker.

\* A client has sent a transaction: make a candidate and enter _progress.
TransactionExists ==
    /\ pc = "transaction"
    /\ pc' = "consensus"
    /\ UNCHANGED <<role, catchingUp, chain, pending, storage, broker, history>>

\* A round of _progress got as far as a confirmed block.
RoundSucceeds ==
    /\ pc = "consensus"
    /\ pc' = "finalize"
    /\ UNCHANGED <<role, catchingUp, chain, pending, storage, broker, history>>

\* A round got as far as a confirmed block of this node, and executing it raises:
\* the reward is divided by the number of votes the node has read for it, and no
\* handler of progress expects that to be zero (RewardNobody in LLFC).
RoundRaises ==
    /\ pc = "consensus"
    /\ pc' = "halted"
    /\ unrewarded' = TRUE
    /\ UNCHANGED <<role, catchingUp, chain, pending, storage, broker, received, overtaken>>

\* A round of _progress ended with a RoundError.
RoundFails ==
    /\ pc = "consensus"
    /\ Take("consensus", "sync")
    /\ UNCHANGED catchingUp

\* The wait for a final block ends with one.
FinalizeExists ==
    /\ pc = "finalize"
    /\ Len(storage) = 1
    /\ Take("halted", "sync")
    /\ UNCHANGED catchingUp

\* The wait ends with several: AttributeError.
FinalizeManyExist ==
    /\ pc = "finalize"
    /\ Len(storage) > 1
    /\ pc' = "accumulate"
    /\ catchingUp' = TRUE
    /\ UNCHANGED <<role, chain, pending, storage, broker, history>>

\* Mutant: an empty list is not expected.
AccumulateUncaught ==
    /\ pc = "accumulate"
    /\ Take("halted", "halted")
    /\ catchingUp' = TRUE

\* accumulated_processing takes the next block; IndexError ends it.
Accumulate ==
    /\ pc = "accumulate"
    /\ Take(Loop, "halted")
    /\ catchingUp' = (pc' # Loop)

\* What the syncer may bring: all that its peers have linked beyond chain c.
Extends(c, d) == Len(d) >= Len(c) /\ SubSeq(d, 1, Len(c)) = c
Valid == published \ Late
PathTo(b) ==
    [h \in 1..b.height |->
        [height |-> h, branch |-> IF h < ForkAt THEN Main ELSE b.branch]]
Ahead(c) == {d \in {PathTo(b) : b \in Valid} \cup {c} : Extends(c, d)}
Furthest(c) == {d \in Ahead(c) : \A e \in Ahead(c) : Len(e) <= Len(d)}

\* Syncer.run: it may clear the list of what it has linked, or leave it.  What it
\* links may be on its way to the list, too.
SyncerRun ==
    /\ pc = "sync"
    /\ chain' \in Furthest(chain)
    /\ storage' \in {storage, Cleared(storage, Len(chain'))}
    /\ pc' = Loop
    /\ overtaken' = (overtaken \/ (Linked' \ Linked) \cap (Stored(storage') \cup Stored(queue)) # {})
    /\ UNCHANGED <<role, catchingUp, pending, broker, received, unrewarded>>

-----------------------------------------------------------------------------

\* The process starts, for the first time or again: some blocks have been
\* published, some of them are in the chain on disk, and the queue is bound
\* before or after the syncer has asked the peers.
Init ==
    /\ role \in {"validator", "subscriber"}
    /\ pc = "sync"
    /\ catchingUp = FALSE
    /\ published \in {P \in SUBSET Block : \A b \in P : Previous(b) \in (P \ Late) \cup {Genesis}}
    /\ chain \in {<<>>} \cup {PathTo(b) : b \in Valid}
    /\ pending = NoBlock
    /\ storage = <<>>
    /\ queue = <<>>
    /\ bound = FALSE
    /\ received = {}
    /\ overtaken = FALSE
    /\ unrewarded = FALSE
    /\ lost = 0

Task ==
    \/ TransactionExists \/ RoundSucceeds \/ RoundFails \/ RoundRaises
    \/ FinalizeExists \/ FinalizeManyExist \/ Accumulate
    \/ Link \/ FinalizeFails
    \/ SyncerRun

Next ==
    \/ Task
    \/ ProcessEvent
    \/ EventRun
    \/ \E b \in Block : Publish(b)
    \/ Lose

\* The polls of the task are 50 ms apart, the rounds of a validator end, and
\* clients keep sending transactions.
Spec == Init /\ [][Next]_vars /\ WF_vars(Task)

-----------------------------------------------------------------------------
\* Properties.

\* Types of the variables.
TypeOK ==
    /\ role \in {"validator", "subscriber"}
    /\ pc \in PC
    /\ catchingUp \in BOOLEAN
    /\ chain \in Seq(Block)
    /\ pending \in Block \cup {NoBlock}
    /\ pc = "link" <=> pending # NoBlock
    /\ storage \in Seq(Block)
    /\ queue \in Seq(Block)
    /\ bound \in BOOLEAN
    /\ published \subseteq Block
    /\ received \subseteq published
    /\ overtaken \in BOOLEAN
    /\ unrewarded \in BOOLEAN
    /\ lost \in 0..MaxLost

\* The chain is one branch of valid published blocks without a gap, whatever
\* order blocks are taken in, by the loops, by accumulated_processing and by the
\* syncer: get and finalize between them only compare the height with that of
\* the top and look the predecessor up anywhere in the chain.
ChainIsBranch ==
    \A i \in 1..Len(chain) :
        /\ chain[i] \in published \ Late
        /\ chain[i].height = i
        /\ Previous(chain[i]) = IF i = 1 THEN Genesis ELSE chain[i - 1]

\* A block that was received and fits on top of the chain, or above what is
\* missing in between, is not dropped by get, clear or a handler: it stays in
\* the list until it is linked, or the syncer is asked for it.
ReceivedIsKept ==
    \A b \in received \ Late :
        Extends(chain, PathTo(b)) =>
            \/ b.height <= Len(chain)
            \/ b \in Stored(storage) \cup {pending}
            \/ pc \in {"sync", "halted"}

Forked == \E b, c \in published : b # c /\ b.height = c.height

\* A block has passed the node by: published, but neither linked nor received nor
\* on its way.  The syncer makes up for it.
Missed == \E b \in published \ Linked : b \notin received \cup Stored(queue)

\* The task ends with an exception nobody handles in five cases only: a height has two
\* final blocks; a block is late; a block has passed the node by and the syncer has not
\* brought it yet; the syncer has linked a block that reached the list, or was on its way
\* to it, all the same; or make_finalize_from_confirm raised for want of a vote to reward.
\* Batches of any size, AttributeError, what the syncer brings from before the queue
\* was bound, and a round that failed just before or after a block arrived do not end it.
EndsOnlyAfterTrouble ==
    pc = "halted" =>
        Forked \/ published \cap Late # {} \/ Missed \/ overtaken \/ unrewarded

\* A block in the list is linked some time, unless the task ends or the chain has
\* followed another branch.
ReceivedIsLinked ==
    \A b \in Block \ Late :
        b \in Stored(storage)
            ~> \/ b.height <= Len(chain)
               \/ pc \in {"halted"}
               \/ ~Extends(chain, PathTo(b))

\* The wait for a final block does not end the task: where FinalizeManager.get
\* finds no block of the expected height it means to "sync" (its last comment).
WaitIsSurvived == [][pc = "finalize" => pc' # "halted"]_vars

=============================================================================

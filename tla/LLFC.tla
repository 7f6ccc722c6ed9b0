-------------------------------- MODULE LLFC --------------------------------
(***************************************************************************)
(* LLFC consensus at one height: Validator._progress of every validator,   *)
(* the candidate, vote, confirm and finalize managers it polls, and the    *)
(* fanout exchanges between them.                                          *)
(*                                                                         *)
(* A validator publishes its candidate and then waits three times: for     *)
(* candidates, for votes and for confirms.  A wait ends on time when as    *)
(* many entries are stored as there are validators; otherwise it ends late *)
(* (2 or 3 s), with enough entries or with a RoundError, after which the   *)
(* loop starts again with the same candidate.  Storages are not emptied    *)
(* between rounds, and the waits count entries of every height.            *)
(*                                                                         *)
(* The list of final blocks may hold blocks of other heights, too.  What   *)
(* get makes of them may send a validator to the syncer or round the loop  *)
(* of Validator.progress: it proposes a new candidate, at the same height, *)
(* while the storages and queues keep the old one.                         *)
(***************************************************************************)
EXTENDS FinalizeManager, FiniteSets

CONSTANTS
    Height,         \* this height
    Validators,     \* the validator set of this height
    Select(_),      \* the choice of select_candidate among a set of candidates
    ConfirmCount,   \* ConfirmManager._rep_count, 4 in the code
    ConfirmTerms,   \* ConfirmManager._terms_consent, 3 in the code
    AgreeCount,     \* "f" of aggregate_vote_from_context, 3 in the code
    OtherHeights,   \* bound: heights of other final blocks that may arrive
    MaxRenewals,    \* bound: candidates of one validator after its first one
    MaxStray,       \* bound: entries of other heights in one storage
    MaxQueue        \* bound: undelivered messages of one sender to one receiver

\* A candidate is named by its pre_hash.  The retry loop of _progress publishes the
\* same candidate again; the loop of progress builds a new one.
Block == [creator : Validators, attempt : 0..MaxRenewals]

\* A final block is a candidate with the voters of its list_vote.  Those of other
\* heights are told apart by their height only.
Final == [height : {Height}, block : Block, voters : SUBSET Validators]
OtherFinal == [height : OtherHeights]

ASSUME ValidatorsAssumption == IsFiniteSet(Validators) /\ Validators # {}
ASSUME HeightsAssumption == Height \in Int /\ OtherHeights \subseteq Int \ {Height}
ASSUME NoBlockAssumption == NoBlock \notin Block \cup Final
ASSUME SelectAssumption == \A S \in SUBSET Block : S # {} => Select(S) \in S
ASSUME CountsAssumption ==
    /\ AgreeCount \in Nat \ {0}
    /\ ConfirmTerms \in Nat \ {0}
    /\ ConfirmCount \in Nat
ASSUME BoundsAssumption ==
    MaxRenewals \in Nat /\ MaxStray \in Nat /\ MaxQueue \in Nat \ {0}

VARIABLES
    phase,      \* phase[n]: where the program of n stands
    attempt,    \* attempt[n]: which of its candidates n proposes
    storage,    \* storage[x][n][s]: what manager x of n holds from s
    stray,      \* stray[n][x]: entries of other heights in manager x of n
    fins,       \* fins[n]: the list of FinalizeManager
    sel,        \* sel[n]: select_blk
    ctx,        \* ctx[n]: vote_context, whom s has voted for
    net,        \* net[x][s][n]: messages of s to n in the queue of exchange x
    linked,     \* linked[n]: the final block n has linked at this height
    finals,     \* history: the final blocks published so far
    voted,      \* voted[n]: history, every block n ever voted for
    signed,     \* signed[n]: history, every block n ever confirmed
    born        \* born[n]: history, the attempt the process of n began with

vars ==
    <<phase, attempt, storage, stray, fins, sel, ctx, net, linked, finals, voted, signed, born>>
program == <<attempt, sel, ctx>>
history == <<linked, finals, voted, signed, born>>

\* The managers whose entries are keyed by (height, sender); a validator waits
\* for them in the phase of the same name.
Keyed == {"candidate", "vote", "confirm"}
Exchange == Keyed \cup {"finalize"}
Phase == Exchange \cup {"transaction", "sync", "linked", "halted", "stopped", "crashed"}

\* What the queues carry.
Message == Block \cup Final

Nothing == [s \in Validators |-> NoBlock]
Clean == [x \in Keyed |-> 0]
Own(n) == [creator |-> n, attempt |-> attempt[n]]

Senders(store, b) == {s \in Validators : store[s] = b}
Count(store, b) == Cardinality(Senders(store, b))
Held(n, x) == {storage[x][n][s] : s \in Validators} \ {NoBlock}

\* Messages of this height reach a validator that still works on it.
Listening(n) == phase[n] \notin {"linked", "halted", "stopped", "crashed"}

-----------------------------------------------------------------------------
\* The network.

\* What receiver r will hold from sender s once the queue between them is empty.
LastSent(x, s, r) ==
    LET q == net[x][s][r] IN
    IF q # <<>> THEN q[Len(q)] ELSE storage[x][r][s]

\* The keyed managers store by sender: a message equal to the one before it adds
\* nothing.  The list of final blocks takes every one.
Enqueue(x, s, r, b) ==
    IF x \in Keyed /\ LastSent(x, s, r) = b
    THEN net[x][s][r] ELSE Append(net[x][s][r], b)

\* basic_publish to a fanout exchange: one copy to each listening validator,
\* the sender among them.
Published(n, x, b) ==
    [net EXCEPT ![x][n] = [r \in Validators |->
        IF Listening(r) THEN Enqueue(x, n, r, b) ELSE @[r]]]

CanPublish(n, x, b) ==
    \A r \in Validators : Listening(r) => Len(Enqueue(x, n, r, b)) <= MaxQueue

\* The network once nothing of this height is delivered to n any more.
DeafNet(n) ==
    [x \in Exchange |-> [s \in Validators |-> [net[x][s] EXCEPT ![n] = <<>>]]]

\* The storages of n once nothing reads them at this height any more.
EmptyStorage(n) == [x \in Keyed |-> [storage[x] EXCEPT ![n] = Nothing]]

\* process_event of the candidate, vote or confirm manager of r, for the oldest
\* message of each sender in S: the event loop handles one or several messages
\* between two polls of r, and the latest one of a sender replaces the one before.
Process(x, r, S) ==
    /\ Listening(r)
    /\ \A s \in S : net[x][s][r] # <<>>
    /\ storage' = [storage EXCEPT ![x][r] = [s \in Validators |->
            IF s \in S THEN Head(net[x][s][r]) ELSE @[s]]]
    /\ net' = [net EXCEPT ![x] = [s \in Validators |->
            IF s \in S THEN [net[x][s] EXCEPT ![r] = Tail(@)] ELSE net[x][s]]]
    /\ UNCHANGED <<phase, stray, fins, program, history>>

\* process_event of the finalize manager of r.
ProcessFinalize(r, s) ==
    /\ Listening(r)
    /\ net["finalize"][s][r] # <<>>
    /\ fins' = [fins EXCEPT ![r] = Append(@, Head(net["finalize"][s][r]))]
    /\ net' = [net EXCEPT !["finalize"][s][r] = Tail(@)]
    /\ UNCHANGED <<phase, storage, stray, program, history>>

\* A final block of another height enters the list: a late one, or one of a later
\* height, once somebody has linked this one.
ProcessOtherFinal(r, h) ==
    /\ Listening(r)
    /\ Len(fins[r]) < MaxStray
    /\ h > Height => \E m \in Validators : linked[m] # NoBlock
    /\ fins' = [fins EXCEPT ![r] = Append(@, [height |-> h])]
    /\ UNCHANGED <<phase, storage, stray, net, program, history>>

\* An entry of another height (a late one of the height before, an early one of
\* the next) enters a storage: no process_event looks at the height.
ProcessStray(x, r) ==
    /\ Listening(r)
    /\ stray[r][x] < MaxStray
    /\ stray' = [stray EXCEPT ![r][x] = @ + 1]
    /\ UNCHANGED <<phase, storage, fins, net, program, history>>

\* The senders with a message to r in the queue of exchange x.
Pending(x, r) == {s \in Validators : net[x][s][r] # <<>>}

Receive(r) ==
    \/ \E x \in Keyed : \E S \in SUBSET Pending(x, r) : S # {} /\ Process(x, r, S)
    \/ \E s \in Validators : ProcessFinalize(r, s)

-----------------------------------------------------------------------------
\* How a wait ends: exists() of the managers.

\* Validator.progress passes (n, (n - 1) / 3) to the candidate and vote
\* managers; the confirm manager keeps its class attributes.
RepCount(x) == IF x = "confirm" THEN ConfirmCount ELSE Cardinality(Validators)
Terms(x) == IF x = "confirm" THEN ConfirmTerms ELSE (Cardinality(Validators) - 1) \div 3

Size(n, x) == Cardinality({s \in Validators : storage[x][n][s] # NoBlock}) + stray[n][x]

Complete(n, x) == Size(n, x) = RepCount(x)
Enough(n, x) == Size(n, x) >= Terms(x)

-----------------------------------------------------------------------------
\* Validator.progress and Validator._progress.

\* A transaction is there: build the candidate of this attempt and enter _progress.
Propose(n) ==
    /\ phase[n] = "transaction"
    /\ CanPublish(n, "candidate", Own(n))
    /\ net' = Published(n, "candidate", Own(n))
    /\ phase' = [phase EXCEPT ![n] = "candidate"]
    /\ UNCHANGED <<storage, stray, fins, program, history>>

\* Nothing reads what n holds of this height any more, and nothing of it is delivered.
StopListening(n, p) ==
    /\ phase' = [phase EXCEPT ![n] = p]
    /\ storage' = EmptyStorage(n)
    /\ stray' = [stray EXCEPT ![n] = Clean]
    /\ fins' = [fins EXCEPT ![n] = <<>>]
    /\ net' = DeafNet(n)

\* chain.finalize and event.clear: n has linked the final block f; what it receives
\* from now on is of another height.
LinkBlock(n, f) ==
    /\ StopListening(n, "linked")
    /\ linked' = [linked EXCEPT ![n] = f]
    /\ sel' = [sel EXCEPT ![n] = NoBlock]
    /\ ctx' = [ctx EXCEPT ![n] = Nothing]
    /\ UNCHANGED <<attempt, finals, voted, signed, born>>

\* An exception nobody handles: the task of n ends.
Stop(n) ==
    /\ StopListening(n, "stopped")
    /\ UNCHANGED <<program, history>>

\* The FinalizeError handler of progress: ask the syncer.
AskSyncer(n) ==
    /\ phase' = [phase EXCEPT ![n] = "sync"]
    /\ fins' = [fins EXCEPT ![n] = Get(@, Height).rest]
    /\ UNCHANGED <<storage, stray, net, program, history>>

\* Mutant: the candidate that was made before is proposed again.
RenewKeeps(n) ==
    /\ phase' = [phase EXCEPT ![n] = "transaction"]
    /\ sel' = [sel EXCEPT ![n] = NoBlock]
    /\ ctx' = [ctx EXCEPT ![n] = Nothing]
    /\ UNCHANGED <<attempt, storage, stray, net, linked, finals, voted, signed>>

\* The loop of progress goes round at the same height: make_candidate will build a
\* new candidate.  Storages and queues stay as they are, the old candidate in them.
Renew(n) ==
    /\ attempt[n] < MaxRenewals
    /\ attempt' = [attempt EXCEPT ![n] = @ + 1]
    /\ phase' = [phase EXCEPT ![n] = "transaction"]
    /\ sel' = [sel EXCEPT ![n] = NoBlock]
    /\ ctx' = [ctx EXCEPT ![n] = Nothing]
    /\ UNCHANGED <<storage, stray, net, linked, finals, voted, signed>>

\* The while loop of _progress goes round: the same candidate again, the storages
\* as they are, the list of final blocks empty.
RepeatRound(n) ==
    /\ CanPublish(n, "candidate", Own(n))
    /\ net' = Published(n, "candidate", Own(n))
    /\ phase' = [phase EXCEPT ![n] = "candidate"]
    /\ fins' = [fins EXCEPT ![n] = <<>>]
    /\ sel' = [sel EXCEPT ![n] = NoBlock]
    /\ ctx' = [ctx EXCEPT ![n] = Nothing]
    /\ UNCHANGED <<attempt, storage, stray, history>>

\* The RoundError handler: link the final block of this height if get finds it,
\* repeat the round if it finds none, leave _progress if it finds another one.
RoundError(n) ==
    LET got == Get(fins[n], Height) IN
    \/ got.raised = "nothing" /\ LinkBlock(n, got.blk)
    \/ got.raised = "IndexError" /\ RepeatRound(n)
    \/ got.raised = "FinalizeError" /\ AskSyncer(n)

\* The candidate wait is over: select a block and vote for it.
SelectCandidate(n) ==
    LET b == Select(Held(n, "candidate")) IN
    /\ Held(n, "candidate") # {}
    /\ CanPublish(n, "vote", b)
    /\ net' = Published(n, "vote", b)
    /\ sel' = [sel EXCEPT ![n] = b]
    /\ voted' = [voted EXCEPT ![n] = @ \cup {b}]
    /\ phase' = [phase EXCEPT ![n] = "vote"]
    /\ UNCHANGED <<attempt, storage, stray, fins, ctx, linked, finals, signed, born>>

\* Only entries of other heights were counted: ValidationError, and the loop
\* publishes the candidate again.
SelectNothing(n) ==
    /\ Held(n, "candidate") = {}
    /\ CanPublish(n, "candidate", Own(n))
    /\ net' = Published(n, "candidate", Own(n))
    /\ UNCHANGED <<phase, storage, stray, fins, program, history>>

\* Mutants: a vote that was not cast counts as one for another block; any vote for
\* another block is enough.
AggregatedUncast(votes, own) ==
    LET others == {votes[s] : s \in Validators} \ {own} IN
    IF others = {} THEN {own}
    ELSE {IF Count(votes, k) >= AgreeCount THEN k ELSE own : k \in others}
AggregatedByAny(votes, own) ==
    LET others == {votes[s] : s \in Validators} \ {NoBlock, own} IN
    IF others = {} THEN {own} ELSE others

\* What aggregate_vote_from_context may return: the first block k other than
\* the own choice, in the order of a Python set, decides.
Aggregated(votes, own) ==
    LET others == {votes[s] : s \in Validators} \ {NoBlock, own} IN
    IF others = {} THEN {own}
    ELSE {IF Count(votes, k) >= AgreeCount THEN k ELSE own : k \in others}

\* The vote wait is over: confirm the own choice or the block of the others.
AggregateVote(n) ==
    \E b \in Aggregated(storage["vote"][n], sel[n]) :
        /\ CanPublish(n, "confirm", b)
        /\ net' = Published(n, "confirm", b)
        /\ ctx' = [ctx EXCEPT ![n] = storage["vote"][n]]
        /\ signed' = [signed EXCEPT ![n] = @ \cup {b}]
        /\ phase' = [phase EXCEPT ![n] = "confirm"]
        /\ UNCHANGED <<attempt, storage, stray, fins, sel, linked, finals, voted, born>>

\* Mutant: a block nobody contradicts is returned without counting its senders.
ConfirmedUncounted(n) ==
    IF Cardinality(Held(n, "confirm")) = 1 THEN Held(n, "confirm")
    ELSE {b \in Held(n, "confirm") : Count(storage["confirm"][n], b) >= ConfirmTerms}

\* What ConfirmManager.get may return; a RoundError if it is empty.
Confirmed(n) == {b \in Held(n, "confirm") : Count(storage["confirm"][n], b) >= ConfirmTerms}

\* Mutant: the votes for other blocks are rewarded, too.
RewardedAll(n, b) == {s \in Validators : ctx[n][s] # NoBlock}

\* Those whose votes for b n has read.
Rewarded(n, b) == Senders(ctx[n], b)

FinalOf(n, b) == [height |-> Height, block |-> b, voters |-> Rewarded(n, b)]

\* Mutant: the creator does not receive what it publishes.
MakeFinalizeForOthers(n, b) ==
    /\ b.creator = n
    /\ Rewarded(n, b) # {}
    /\ CanPublish(n, "finalize", FinalOf(n, b))
    /\ net' = [Published(n, "finalize", FinalOf(n, b)) EXCEPT !["finalize"][n][n] = <<>>]
    /\ finals' = finals \cup {FinalOf(n, b)}
    /\ phase' = [phase EXCEPT ![n] = "finalize"]
    /\ UNCHANGED <<storage, stray, fins, program, linked, voted, signed, born>>

\* n created b: execute it, pay the validators that voted for it, publish it.
MakeFinalize(n, b) ==
    /\ b.creator = n
    /\ Rewarded(n, b) # {}
    /\ CanPublish(n, "finalize", FinalOf(n, b))
    /\ net' = Published(n, "finalize", FinalOf(n, b))
    /\ finals' = finals \cup {FinalOf(n, b)}
    /\ phase' = [phase EXCEPT ![n] = "finalize"]
    /\ UNCHANGED <<storage, stray, fins, program, linked, voted, signed, born>>

\* n created b and read no vote for it: the reward is divided by zero and the
\* exception ends the task of the validator.
RewardNobody(n, b) ==
    /\ b.creator = n
    /\ Rewarded(n, b) = {}
    /\ StopListening(n, "halted")
    /\ UNCHANGED <<program, history>>

\* n did not create b: wait for its final block, without a time limit.
AwaitFinalize(n, b) ==
    /\ b.creator # n
    /\ phase' = [phase EXCEPT ![n] = "finalize"]
    /\ UNCHANGED <<storage, stray, fins, net, program, history>>

\* The confirm wait is over.
AggregateConfirm(n) ==
    \/ /\ Confirmed(n) = {}
       /\ RoundError(n)
    \/ \E b \in Confirmed(n) :
        \/ /\ b \in Held(n, "candidate")
           /\ MakeFinalize(n, b) \/ RewardNobody(n, b) \/ AwaitFinalize(n, b)
        \/ /\ b \notin Held(n, "candidate")
           /\ RoundError(n)

\* What n does when the wait of phase x is over with entries to work on.
Continue(n, x) ==
    CASE x = "candidate" -> SelectCandidate(n) \/ SelectNothing(n)
      [] x = "vote"      -> AggregateVote(n)
      [] x = "confirm"   -> AggregateConfirm(n)

\* Mutant: the block n selected is linked, not the one that arrived.
EventFinalizeSelected(n) ==
    LET got == Get(fins[n], Height) IN
    /\ phase[n] = "finalize"
    /\ Len(fins[n]) = 1
    /\ \/ got.raised = "nothing" /\ LinkBlock(n, [got.blk EXCEPT !.block = sel[n]])
       \/ got.raised = "IndexError" /\ Stop(n)
       \/ got.raised = "FinalizeError" /\ AskSyncer(n)

\* One final block has arrived: link it.  If it is stale, pop raises IndexError once
\* more, which progress does not handle.
EventFinalize(n) ==
    LET got == Get(fins[n], Height) IN
    /\ phase[n] = "finalize"
    /\ Len(fins[n]) = 1
    /\ \/ got.raised = "nothing" /\ LinkBlock(n, got.blk)
       \/ got.raised = "IndexError" /\ Stop(n)
       \/ got.raised = "FinalizeError" /\ AskSyncer(n)

\* Several have arrived, which exists reports as AttributeError: accumulated_processing
\* links the one of this height.  If it finds none, IndexError ends it and progress goes
\* on with a new candidate; it does not handle FinalizeError.
Accumulate(n) ==
    LET got == Get(fins[n], Height) IN
    /\ phase[n] = "finalize"
    /\ Len(fins[n]) > 1
    /\ \/ got.raised = "nothing" /\ LinkBlock(n, got.blk)
       \/ got.raised = "IndexError" /\ Renew(n)
             /\ fins' = [fins EXCEPT ![n] = <<>>] /\ UNCHANGED born
       \/ got.raised = "FinalizeError" /\ Stop(n)

\* A step of n for which it did not run out of time.
Timely(n) ==
    \/ Propose(n)
    \/ \E x \in Keyed : phase[n] = x /\ Complete(n, x) /\ Continue(n, x)
    \/ EventFinalize(n)
    \/ Accumulate(n)

\* The 2 or 3 seconds of a wait are over.
Late(n) ==
    \E x \in Keyed :
        /\ phase[n] = x
        /\ ~Complete(n, x)
        /\ \/ Enough(n, x) /\ Continue(n, x)
           \/ ~Enough(n, x) /\ RoundError(n)

-----------------------------------------------------------------------------
\* The syncer, for a validator in trouble and for one that has just started.

\* It brings the block a peer has linked.
SyncerBrings(n) ==
    /\ phase[n] \in {"sync", "crashed"}
    /\ \E m \in Validators : linked[m] # NoBlock /\ LinkBlock(n, linked[m])

\* It finds its peers at the same height: n proposes.
SyncerBringsNothing(n) ==
    /\ phase[n] = "sync"
    /\ Renew(n)
    /\ UNCHANGED <<fins, born>>

Restart(n) ==
    /\ phase[n] = "crashed"
    /\ Renew(n)
    /\ born' = [born EXCEPT ![n] = attempt'[n]]
    /\ UNCHANGED fins

SyncerRun(n) == SyncerBrings(n) \/ SyncerBringsNothing(n) \/ Restart(n)

-----------------------------------------------------------------------------
\* Failures.

\* Mutant: the broker keeps the queues of a process that has ended.
CrashKeepsQueues(n) ==
    /\ phase[n] \notin {"linked", "crashed"}
    /\ phase' = [phase EXCEPT ![n] = "crashed"]
    /\ storage' = EmptyStorage(n)
    /\ stray' = [stray EXCEPT ![n] = Clean]
    /\ fins' = [fins EXCEPT ![n] = <<>>]
    /\ sel' = [sel EXCEPT ![n] = NoBlock]
    /\ ctx' = [ctx EXCEPT ![n] = Nothing]
    /\ UNCHANGED <<attempt, net, history>>

\* The process of n ends; storages and exclusive queues are in memory.
Crash(n) ==
    /\ phase[n] \notin {"linked", "crashed"}
    /\ StopListening(n, "crashed")
    /\ sel' = [sel EXCEPT ![n] = NoBlock]
    /\ ctx' = [ctx EXCEPT ![n] = Nothing]
    /\ UNCHANGED <<attempt, history>>

\* A message is lost: consumers do not acknowledge.
Lose(x, s, r) ==
    /\ net[x][s][r] # <<>>
    /\ net' = [net EXCEPT ![x][s][r] = Tail(@)]
    /\ UNCHANGED <<phase, storage, stray, fins, program, history>>

\* What n is sent is lost, or what it holds is of another height.
Mishap(n) ==
    \/ \E x \in Exchange, s \in Validators : Lose(x, s, n)
    \/ \E x \in Keyed : ProcessStray(x, n)
    \/ \E h \in OtherHeights : ProcessOtherFinal(n, h)

-----------------------------------------------------------------------------

Init ==
    /\ phase = [n \in Validators |-> "transaction"]
    /\ attempt = [n \in Validators |-> 0]
    /\ storage = [x \in Keyed |-> [n \in Validators |-> Nothing]]
    /\ stray = [n \in Validators |-> Clean]
    /\ fins = [n \in Validators |-> <<>>]
    /\ sel = [n \in Validators |-> NoBlock]
    /\ ctx = [n \in Validators |-> Nothing]
    /\ net = [x \in Exchange |-> [s \in Validators |-> [r \in Validators |-> <<>>]]]
    /\ linked = [n \in Validators |-> NoBlock]
    /\ finals = {}
    /\ voted = [n \in Validators |-> {}]
    /\ signed = [n \in Validators |-> {}]
    /\ born = [n \in Validators |-> 0]

Step(n) == Timely(n) \/ Late(n) \/ Receive(n) \/ SyncerRun(n)

Next == \E n \in Validators : Step(n) \/ Mishap(n) \/ Crash(n)

Spec == Init /\ [][Next]_vars

-----------------------------------------------------------------------------
\* Properties.

\* Types of the variables: in particular a validator only ever votes for,
\* confirms and links blocks that somebody proposed, and those it rewards are validators.
TypeOK ==
    /\ phase \in [Validators -> Phase]
    /\ attempt \in [Validators -> 0..MaxRenewals]
    /\ storage \in [Keyed -> [Validators -> [Validators -> Block \cup {NoBlock}]]]
    /\ stray \in [Validators -> [Keyed -> 0..MaxStray]]
    /\ fins \in [Validators -> Seq(Final \cup OtherFinal)]
    /\ sel \in [Validators -> Block \cup {NoBlock}]
    /\ ctx \in [Validators -> [Validators -> Block \cup {NoBlock}]]
    /\ net \in [Exchange -> [Validators -> [Validators -> Seq(Message)]]]
    /\ linked \in [Validators -> Final \cup {NoBlock}]
    /\ finals \subseteq Final
    /\ voted \in [Validators -> SUBSET Block]
    /\ signed \in [Validators -> SUBSET Block]
    /\ born \in [Validators -> 0..MaxRenewals]

F == INSTANCE Finality

\* What s has published on x, as far as storages and queues may tell.
Sent(x, s) ==
    CASE x = "candidate" -> {b \in Block : b.creator = s}
      [] x = "vote"      -> voted[s]
      [] x = "confirm"   -> signed[s]
      [] x = "finalize"  -> finals

\* Everything a validator has received or will receive was sent.
ReceivedIsSent ==
    \A r, s \in Validators :
        /\ \A x \in Exchange : net[x][s][r] \in Seq(Sent(x, s))
        /\ \A x \in Keyed : storage[x][r][s] \in Sent(x, s) \cup {NoBlock}
        /\ fins[r] \in Seq(finals \cup OtherFinal)

\* A validator has voted for what it selected, and has read votes that were cast.
SelectedIsVoted ==
    \A n \in Validators :
        /\ phase[n] = "vote" => sel[n] \in voted[n]
        /\ \A s \in Validators : ctx[n][s] \in voted[s] \cup {NoBlock}

\* The candidates the process of n has proposed or is about to propose.
OfProcess(n) == {b \in Block : b.creator = n /\ b.attempt \in born[n]..attempt[n]}

\* A validator holds and receives no candidate of its own but those of this process.
OwnIsOfProcess ==
    \A n \in Validators :
        /\ born[n] <= attempt[n]
        /\ storage["candidate"][n][n] \in OfProcess(n) \cup {NoBlock}
        /\ net["candidate"][n][n] \in Seq(OfProcess(n))

\* A validator that does not listen holds nothing of this height.
DeafIsEmpty ==
    \A n \in Validators : ~Listening(n) =>
        /\ \A x \in Exchange, s \in Validators : net[x][s][n] = <<>>
        /\ \A x \in Keyed, s \in Validators : storage[x][n][s] = NoBlock
        /\ fins[n] = <<>>

\* Only a final block is linked, by one that has not linked another.
LinkedOnce ==
    \A n \in Validators :
        /\ phase[n] # "linked" => linked[n] = NoBlock
        /\ linked[n] # NoBlock => linked[n] \in finals

\* The creator of a final block has passed the confirm wait with it, or has proposed
\* another candidate since.
Past(b) ==
    \/ b.attempt < attempt[b.creator]
    \/ /\ b.attempt = attempt[b.creator]
       /\ phase[b.creator] \in {"finalize", "sync", "linked", "stopped", "crashed"}
FinalIsPast == \A f \in finals : f.block \in Block /\ Past(f.block)

\* A candidate is final with different votes only after its creator, in the loop of
\* progress, has proposed another one at the same height.  A RoundError, repeated
\* votes and confirms, a crash or what the syncer does are not enough for that.
RepublishedIsRenewed ==
    \A f, g \in finals :
        f.block = g.block /\ f # g => f.block.attempt < attempt[f.block.creator]

\* The inductive invariant behind the refinement of Finality.
IInv ==
    /\ TypeOK
    /\ ReceivedIsSent
    /\ SelectedIsVoted
    /\ OwnIsOfProcess
    /\ DeafIsEmpty
    /\ LinkedOnce
    /\ FinalIsPast
    /\ RepublishedIsRenewed

\* LLFC keeps the promises of Finality: every confirm follows an own vote or
\* AgreeCount votes, every final block is published with votes that were cast, after
\* ConfirmTerms validators confirmed its candidate, and only final blocks are linked,
\* one per validator.
Implements == F!Spec

\* A final block has been confirmed by ConfirmTerms different validators, over
\* all rounds, new candidates, restarts, lost messages and stale entries: ConfirmManager.get
\* counts senders, not messages.
FinalBackedByQuorum == F!FinalBackedByQuorum

\* A final block has been voted for by a quorum, although a validator also
\* confirms what only others voted for (aggregate_vote_from_context).
FinalVotedByQuorum == F!FinalVotedByQuorum

\* Two final candidates at one height need a quorum overlap of validators that
\* confirmed both, in different rounds of the loops of progress and _progress.
ForkAccountability == F!ForkAccountability

\* A validator waits for a final block, which it does without a time limit
\* (Validator._progress, FinalizeManager.exists), only when some block has been
\* confirmed by ConfirmTerms validators: entries of other heights, stale ones
\* and lost ones never make it wait for a block nobody can make final.
AwaitsCertified ==
    \A n \in Validators : phase[n] = "finalize" =>
        \E b \in Block : Cardinality(F!Signers(b)) >= ConfirmTerms

\* Neither a storage nor a final block names a validator for something it never
\* published: process_event and the filter of the reward computation attribute every
\* vote and confirm to its sender, over all rounds that share the storages.
NothingForged ==
    /\ \A n, s \in Validators :
        /\ storage["vote"][n][s] \in voted[s] \cup {NoBlock}
        /\ storage["confirm"][n][s] \in signed[s] \cup {NoBlock}
    /\ \A f \in finals : \A s \in f.voters : f.block \in voted[s]

\* The candidate a validator holds as its own is one that its process has proposed:
\* what it proposed before a crash cannot come back from an exclusive queue, although
\* the storages of the others may still hold it.  It need not be the current one.
OwnCandidateIsOfThisProcess ==
    \A n \in Validators :
        LET b == storage["candidate"][n][n] IN
        b # NoBlock => b.creator = n /\ b.attempt \in born[n]..attempt[n]

\* All validators link the same block: aggregate_vote moves a minority to the
\* block of the majority before it confirms.
Agreement ==
    \A m, n \in Validators :
        linked[m] # NoBlock /\ linked[n] # NoBlock => linked[m] = linked[n]

\* The block a validator links carries the votes of more than two thirds of the
\* validators: what README.md says of the final block.
LinkedCarriesQuorum ==
    \A n \in Validators : linked[n] # NoBlock =>
        3 * Cardinality(linked[n].voters) > 2 * Cardinality(Validators)

\* The creator of a confirmed block survives its execution and applies it:
\* Wagon rewards the validators that voted for the block, whoever they are.
CreatorSurvives == \A n \in Validators : phase[n] # "halted"

\* Once a final block is published, every validator that keeps running links a
\* block of this height: no retry, late wait or full queue starves the poll of
\* FinalizeManager or the check of the RoundError handler.
PublishedIsLinked ==
    \A n \in Validators :
        finals # {} ~> ~Listening(n)

=============================================================================

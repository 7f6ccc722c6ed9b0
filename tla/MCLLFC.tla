------------------------------- MODULE MCLLFC -------------------------------
(***************************************************************************)
(* Instances of LLFC for TLC: four validators with the constants of the    *)
(* code, budgets for what may go wrong, and two restrictions of the order  *)
(* of steps.                                                               *)
(*                                                                         *)
(* turn       A message is delivered to n right before the step of n that  *)
(*            reads it: deliveries to n commute with the steps of others.  *)
(* lockstep   If TRUE, validators go through the waits together, in a      *)
(*            fixed order; which messages arrive in time stays open.  Such *)
(*            scenarios afford many late waits, the others all             *)
(*            interleavings.                                               *)
(***************************************************************************)
EXTENDS LLFCTimely, TLC

CONSTANTS
    v1, v2, v3, v4,
    Nobody,     \* no validator has the turn
    Scenarios   \* the scenarios of this instance, names of the budgets below

VARIABLES scenario, turn, late, retries, crashes, mishaps
budgets == <<scenario, late, retries, crashes, mishaps>>
mcvars == <<timelyvars, turn, budgets>>

AnyMessage == Keyed \X Validators \X Validators
AnyWait == Validators \X Keyed

\* The budgets of a scenario bound what may go wrong in one behaviour:
\* slow      the <<exchange, sender, receiver>> that may be slow
\* waits     the <<validator, wait>> that may run out of time, once each
\* late      how many of them do
\* retries   rounds a validator starts again
\* fragile   the <<validator, phase>> in which crashes and mishaps happen
\* crashes   crashes
\* mishaps   lost messages, stray entries and final blocks of other heights
Budget == [
    \* Every interleaving, any one late wait.
    anyOrder |-> [
        lockstep |-> FALSE, slow |-> AnyMessage, waits |-> AnyWait, late |-> 1, retries |-> 1,
        fragile |-> {}, crashes |-> 0, mishaps |-> 0],
    \* Any two late waits, in lockstep.
    anyLate |-> [
        lockstep |-> TRUE, slow |-> AnyMessage, waits |-> AnyWait, late |-> 2, retries |-> 0,
        fragile |-> {}, crashes |-> 0, mishaps |-> 0],
    \* The candidate of v4 is slow to reach the others, and so are confirms of v3.
    split |-> [
        lockstep |-> TRUE,
        slow |-> ({"candidate"} \X {v4} \X {v1, v2, v3})
            \cup ({"confirm"} \X {v3, v4} \X {v1, v2}) \cup ({"confirm"} \X {v3} \X {v4}),
        waits |-> ({v1, v2, v3} \X {"candidate"}) \cup ({v1, v2, v4} \X {"confirm"}),
        late |-> 6, retries |-> 1, fragile |-> {}, crashes |-> 0, mishaps |-> 0],
    \* Two of the others may miss two confirms and start again; v4 crashes, before or
    \* after its final block, and goes on alone with what arrives after that.
    faults |-> [
        lockstep |-> TRUE, slow |-> {"confirm"} \X {v3, v4} \X {v1, v2},
        waits |-> ({v1, v2} \X {"confirm"}) \cup ({v4} \X Keyed), late |-> 5, retries |-> 1,
        fragile |-> {v4} \X {"confirm", "finalize"}, crashes |-> 1, mishaps |-> 0],
    \* v4 may miss any messages, lose one for good or count a stray one.
    stray |-> [
        lockstep |-> FALSE, slow |-> {"candidate", "confirm"} \X Validators \X {v4},
        waits |-> {v4} \X {"confirm"}, late |-> 1, retries |-> 1,
        fragile |-> {v4} \X Keyed, crashes |-> 0, mishaps |-> 1],
    \* v1 misses two confirms and looks for the final block that the others link.
    behind |-> [
        lockstep |-> FALSE, slow |-> {"confirm"} \X {v3, v4} \X {v1},
        waits |-> {<<v1, "confirm">>}, late |-> 1, retries |-> 1,
        fragile |-> {<<v1, "confirm">>}, crashes |-> 0, mishaps |-> 1],
    \* v4 crashes while its candidate may be in its own queue, and starts again.
    restart |-> [
        lockstep |-> TRUE, slow |-> {},
        waits |-> {v4} \X Keyed, late |-> 3, retries |-> 1,
        fragile |-> {<<v4, "candidate">>}, crashes |-> 1, mishaps |-> 0],
    \* v4 finds final blocks of other heights in its list, asks the syncer or proposes
    \* once more, while its second candidate is slow to come back to it.
    renew |-> [
        lockstep |-> TRUE,
        slow |-> ({"candidate"} \X {v4} \X {v4}) \cup ({"vote"} \X {v1, v2, v3} \X {v4}),
        waits |-> {v4} \X {"candidate", "vote"}, late |-> 2, retries |-> 1,
        fragile |-> {<<v4, "finalize">>}, crashes |-> 0, mishaps |-> 2]]

\* select_candidate depends on the set of candidates only; this one prefers
\* later attempts and then a fixed order of creators.
Rank == (v1 :> 1) @@ (v2 :> 2) @@ (v3 :> 3) @@ (v4 :> 4)
MCSelect(S) ==
    CHOOSE b \in S : \A c \in S :
        10 * b.attempt + Rank[b.creator] >= 10 * c.attempt + Rank[c.creator]

FirstOf(S) == CHOOSE n \in S : \A m \in S : Rank[n] <= Rank[m]

-----------------------------------------------------------------------------

CanBeLate(n) ==
    /\ <<n, phase[n]>> \in Budget[scenario].waits \ late
    /\ Cardinality(late) < Budget[scenario].late

\* The next step of n is fixed and commutes with the steps of the others.
Urgent(n) ==
    \/ phase[n] = "transaction"
    \/ phase[n] = "finalize" /\ fins[n] # <<>>
Pressing ==
    IF \E n \in Validators : phase[n] \in {"crashed", "sync"} THEN {}
    ELSE {n \in Validators :
        /\ Urgent(n)
        /\ <<n, phase[n]>> \in Budget[scenario].fragile =>
            /\ crashes = Budget[scenario].crashes
            /\ mishaps = Budget[scenario].mishaps}

\* In lockstep: the validators that are behind.
Position(n) ==
    3 * retries[n] + (CASE phase[n] = "transaction" -> 0 [] phase[n] = "candidate" -> 1
                        [] phase[n] = "vote" -> 2 [] OTHER -> 3)
Waiting == {n \in Validators : phase[n] \in Keyed \cup {"transaction"}}
Behind == {n \in Waiting : \A m \in Waiting : Position(n) <= Position(m)}

Free(n) ==
    IF turn # Nobody THEN turn = n
    ELSE IF Pressing # {} THEN n = FirstOf(Pressing)
    ELSE IF Budget[scenario].lockstep /\ n \in Waiting THEN n = FirstOf(Behind)
    ELSE TRUE

\* The wait of n can end: a delivery that leaves it waiting is postponed.
WaitEnds(n) ==
    \/ CanBeLate(n)
    \/ phase[n] = "finalize"
    \/ Complete(n, phase[n])

\* What n reads before its next step.
Reads(n) ==
    CASE phase[n] = "confirm" -> {"candidate", "confirm"}
      [] phase[n] \in {"candidate", "vote"} -> {phase[n]}
      [] OTHER -> {}
ReadsFinal(n) == phase[n] \in {"confirm", "finalize"} \/ CanBeLate(n)

\* The messages that arrive before n reads: all that are not slow, any of the others.
Batches(x, n) ==
    {S \in SUBSET Pending(x, n) :
        S # {} /\ \A s \in Pending(x, n) \ S : <<x, s, n>> \in Budget[scenario].slow}

CountRetry(n) ==
    IF phase[n] \in Keyed /\ phase'[n] = "candidate"
    THEN retries[n] < Budget[scenario].retries /\ retries' = [retries EXCEPT ![n] = @ + 1]
    ELSE UNCHANGED retries

-----------------------------------------------------------------------------

MCInit ==
    /\ TimelyInit
    /\ scenario \in Scenarios
    /\ turn = Nobody
    /\ late = {}
    /\ retries = [n \in Validators |-> 0]
    /\ crashes = 0
    /\ mishaps = 0

OnTime(n) ==
    /\ Free(n)
    /\ Timely(n)
    /\ turn' = Nobody
    /\ CountRetry(n)
    /\ UNCHANGED <<scenario, late, crashes, mishaps>>

OutOfTime(n) ==
    /\ Free(n)
    /\ CanBeLate(n)
    /\ Late(n)
    /\ turn' = Nobody
    /\ late' = late \cup {<<n, phase[n]>>}
    /\ CountRetry(n)
    /\ UNCHANGED <<scenario, crashes, mishaps>>

Deliver(n) ==
    /\ Free(n)
    /\ phase[n] # "transaction"
    /\ \/ ReadsFinal(n) /\ \E s \in Validators : ProcessFinalize(n, s)
       \/ \E x \in Reads(n) : \E S \in Batches(x, n) : Process(x, n, S)
    /\ turn' = n
    /\ UNCHANGED budgets
    /\ WaitEnds(n)'

Fail(n) ==
    /\ turn = Nobody
    /\ <<n, phase[n]>> \in Budget[scenario].fragile
    /\ crashes < Budget[scenario].crashes
    /\ Crash(n)
    /\ crashes' = crashes + 1
    /\ UNCHANGED <<scenario, turn, late, retries, mishaps>>

Suffer(n) ==
    /\ turn = Nobody
    /\ <<n, phase[n]>> \in Budget[scenario].fragile
    /\ mishaps < Budget[scenario].mishaps
    /\ Mishap(n)
    /\ mishaps' = mishaps + 1
    /\ UNCHANGED <<scenario, turn, late, retries, crashes>>

\* A validator that the syncer has been asked for joins the round of the others.
StartAgain(n) ==
    /\ turn = Nobody
    /\ SyncerRun(n)
    /\ \E m \in Validators \ {n} :
        /\ \A k \in Validators \ {n} : retries[k] <= retries[m]
        /\ retries' = [retries EXCEPT ![n] = retries[m]]
    /\ UNCHANGED <<scenario, turn, late, crashes, mishaps>>

MCNext ==
    /\ \E n \in Validators :
        \/ OnTime(n)
        \/ OutOfTime(n)
        \/ Deliver(n)
        \/ Suffer(n)
        \/ Fail(n)
        \/ StartAgain(n)
    /\ Record

MCSpec == MCInit /\ [][MCNext]_mcvars

=============================================================================

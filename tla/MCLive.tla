------------------------------- MODULE MCLive -------------------------------
(***************************************************************************)
(* LLFC with fairness: two validators, any number of rounds and late final *)
(* blocks of the height before.                                            *)
(***************************************************************************)
EXTENDS LLFC, TLC

CONSTANTS
    v1, v2,
    MayBeLate,  \* bound: the <<validator, wait>> that may run out of time, any number of times
    MayBeStale  \* bound: the validators that may find a final block of another height

\* v1 may be late everywhere; v2 has received all candidates before it selects.
LiveWaits == ({v1} \X Keyed) \cup ({v2} \X {"vote", "confirm"})

\* The candidate of v2 is preferred where it has arrived.
Rank == (v1 :> 1) @@ (v2 :> 2)
MCSelect(S) == CHOOSE b \in S : \A c \in S : Rank[b.creator] >= Rank[c.creator]

Program(n) ==
    \/ Timely(n)
    \/ <<n, phase[n]>> \in MayBeLate /\ Late(n)

\* One message at a time: handling several before the next poll adds no behaviour.
LiveStep ==
    \E n \in Validators :
        \/ Program(n)
        \/ \E s \in Validators :
            ProcessFinalize(n, s) \/ \E x \in Keyed : Process(x, n, {s})
        \/ n \in MayBeStale /\ \E h \in OtherHeights : ProcessOtherFinal(n, h)

\* The event loop keeps polling (a wait ends, on time or late) and the broker
\* delivers what it holds.
LiveFairness ==
    \A n \in Validators :
        /\ WF_vars(Program(n))
        /\ \A s \in Validators :
            /\ WF_vars(ProcessFinalize(n, s))
            /\ \A x \in Keyed : WF_vars(Process(x, n, {s}))

LiveSpec == Init /\ [][LiveStep]_vars /\ LiveFairness
=============================================================================

----------------------------- MODULE LLFCTimely -----------------------------
(***************************************************************************)
(* LLFC with a record of who went on without the others: hasty[x] contains *)
(* the validators that ended wait x, at any time so far, while an entry of *)
(* some validator was missing: it was late or lost, or an entry of another *)
(* height was counted in its place.                                        *)
(*                                                                         *)
(* The record is a history variable.  It restricts no step of LLFC and     *)
(* serves to say how little punctuality agreement and rewards depend on.   *)
(***************************************************************************)
EXTENDS LLFC

VARIABLE hasty  \* hasty[x]: history, the validators that did not wait for everyone

timelyvars == <<vars, hasty>>

\* The wait for candidates and the wait for votes, and the phases they lead to.
Successor == [candidate |-> "vote", vote |-> "confirm"]

\* n works on what it holds from wait x, and does not hold an entry of everyone.
GoesOn(n, x) ==
    /\ phase[n] = x
    /\ phase'[n] = Successor[x]
    /\ \E s \in Validators : storage[x][n][s] = NoBlock

Record ==
    hasty' = [x \in {"candidate", "vote"} |-> hasty[x] \cup {n \in Validators : GoesOn(n, x)}]

TimelyInit == Init /\ hasty = [x \in {"candidate", "vote"} |-> {}]

TimelyNext == Next /\ Record

TimelySpec == TimelyInit /\ [][TimelyNext]_timelyvars

\* The validators that have always ended wait x with an entry of everyone.
Patient(x) == Validators \ hasty[x]

\* Too few selected from some of the candidates to outvote the others or to confirm a
\* block of their own, and no validator has proposed a second candidate.
FewAreHasty ==
    /\ Cardinality(hasty["candidate"]) < AgreeCount
    /\ Cardinality(hasty["candidate"]) < ConfirmTerms
    /\ \A n \in Validators : attempt[n] = 0

-----------------------------------------------------------------------------
\* Properties.

\* As long as two of four validators select from all candidates, all that link a block
\* link the same one, whatever is late, lost or counted twice at the other two and in
\* the waits for votes and confirms, and however often rounds are repeated:
\* select_candidate takes the two to one block, and aggregate_vote_from_context
\* neither leads them away from it nor lets the others confirm another one.
AgreementIfTimely == FewAreHasty => Agreement

\* Then a validator that has waited for all votes survives the execution of its block,
\* and the reward is divided among all that selected from all candidates, at least.
RewardIfTimely ==
    FewAreHasty => \A n \in Patient("vote") :
        /\ phase[n] # "halted"
        /\ \A f \in finals : f.block.creator = n => Patient("candidate") \subseteq f.voters

-----------------------------------------------------------------------------
\* The inductive invariant behind them.

\* The first candidate of n, and what select_candidate
\* makes of all of them.
First(n) == [creator |-> n, attempt |-> 0]
Favourite == Select({First(n) : n \in Validators})

\* Nobody holds or receives another candidate of a validator than its first one.
FirstIsOnly ==
    \A r, s \in Validators : attempt[s] = 0 =>
        /\ storage["candidate"][r][s] \in {First(s), NoBlock}
        /\ net["candidate"][s][r] \in Seq({First(s)})

\* Who selects from all candidates votes for the favourite and confirms it.
PatientAgree ==
    \A n \in Patient("candidate") : voted[n] \subseteq {Favourite} /\ signed[n] \subseteq {Favourite}

\* Its creator finds their votes, if it waits for all, and puts them in the final block.
PatientReward ==
    \A n \in Patient("vote") :
        /\ phase[n] # "halted"
        /\ n = Favourite.creator =>
            /\ phase[n] = "confirm" => \A s \in Patient("candidate") : ctx[n][s] = Favourite
            /\ \A f \in finals : f.block = Favourite => Patient("candidate") \subseteq f.voters

TimelyInv ==
    /\ hasty \in [{"candidate", "vote"} -> SUBSET Validators]
    /\ FirstIsOnly
    /\ FewAreHasty => PatientAgree /\ PatientReward

=============================================================================

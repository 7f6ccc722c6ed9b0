------------------------------ MODULE Finality ------------------------------
(***************************************************************************)
(* What one height of LLFC promises, without messages, rounds or timeouts. *)
(*                                                                         *)
(* A validator votes for candidate blocks, confirms ("signs") blocks, the  *)
(* creator of a block that enough validators confirmed publishes it as the *)
(* final block together with votes it collected, and validators link a     *)
(* final block to their chain.  Nothing stops a validator from confirming  *)
(* several blocks: the retry loop of Validator._progress does it.  Nothing *)
(* stops a creator from publishing a candidate as a final block again with *)
(* other votes: the loop of Validator.progress does it.  LLFC implements   *)
(* this specification.                                                     *)
(***************************************************************************)
EXTENDS Integers, FiniteSets

CONSTANTS
    Height,         \* the height
    Validators,     \* the validator set of the height
    Block,          \* the candidate blocks of the height, named by their pre_hash
    NoBlock,        \* nothing linked at this height yet
    AgreeCount,     \* votes that move a validator to another block than its own choice
    ConfirmTerms    \* confirms that make a block final

\* A final block: a candidate and the voters named in its list_vote.
Final == [height : {Height}, block : Block, voters : SUBSET Validators]

ASSUME ValidatorsAssumption == IsFiniteSet(Validators) /\ Validators # {}
ASSUME NoBlockAssumption == NoBlock \notin Block \cup Final
ASSUME CountsAssumption == AgreeCount \in Nat \ {0} /\ ConfirmTerms \in Nat \ {0}

VARIABLES
    voted,      \* voted[n]: every block n has voted for
    signed,     \* signed[n]: every block n has confirmed
    finals,     \* the final blocks published so far
    linked      \* linked[n]: the final block n has linked at this height

vars == <<voted, signed, finals, linked>>

Voters(b) == {n \in Validators : b \in voted[n]}
Signers(b) == {n \in Validators : b \in signed[n]}
IsFinal(b) == \E f \in finals : f.block = b

Init ==
    /\ voted = [n \in Validators |-> {}]
    /\ signed = [n \in Validators |-> {}]
    /\ finals = {}
    /\ linked = [n \in Validators |-> NoBlock]

\* n publishes a vote for b.
Vote(n, b) ==
    /\ voted' = [voted EXCEPT ![n] = @ \cup {b}]
    /\ UNCHANGED <<signed, finals, linked>>

\* Mutant: a validator confirms what it likes.
SignFreely(n, b) ==
    /\ signed' = [signed EXCEPT ![n] = @ \cup {b}]
    /\ UNCHANGED <<voted, finals, linked>>

\* n publishes a confirm for b: its own vote, or one enough others voted for.
Sign(n, b) ==
    /\ b \in voted[n] \/ Cardinality(Voters(b)) >= AgreeCount
    /\ signed' = [signed EXCEPT ![n] = @ \cup {b}]
    /\ UNCHANGED <<voted, finals, linked>>

\* Mutant: one confirm too few is enough.
CertifyEarly(b, W) ==
    /\ Cardinality(Signers(b)) >= ConfirmTerms - 1
    /\ finals' = finals \cup {[height |-> Height, block |-> b, voters |-> W]}
    /\ UNCHANGED <<voted, signed, linked>>

\* The creator of b publishes a final block with voters W in it.
Certify(b, W) ==
    /\ Cardinality(Signers(b)) >= ConfirmTerms
    /\ finals' = finals \cup {[height |-> Height, block |-> b, voters |-> W]}
    /\ UNCHANGED <<voted, signed, linked>>

\* n links a final block, at most one per height.
Link(n, f) ==
    /\ linked[n] = NoBlock
    /\ linked' = [linked EXCEPT ![n] = f]
    /\ UNCHANGED <<voted, signed, finals>>

Next ==
    \/ \E n \in Validators, b \in Block : Vote(n, b) \/ Sign(n, b)
    \/ \E n \in Validators, f \in finals : Link(n, f)
    \/ \E b \in Block : \E W \in SUBSET Voters(b) : W # {} /\ Certify(b, W)

Spec == Init /\ [][Next]_vars

-----------------------------------------------------------------------------

\* Types: votes, confirms, final blocks and links are about candidate blocks.
TypeOK ==
    /\ voted \in [Validators -> SUBSET Block]
    /\ signed \in [Validators -> SUBSET Block]
    /\ finals \subseteq Final
    /\ linked \in [Validators -> Final \cup {NoBlock}]

\* A candidate that is final has been confirmed by ConfirmTerms different validators:
\* the count of ConfirmManager.get, whatever happens after it.
FinalBackedByQuorum ==
    \A b \in Block : IsFinal(b) => Cardinality(Signers(b)) >= ConfirmTerms

\* A confirmed block was voted for by the validator that confirmed it, or by
\* AgreeCount validators (aggregate_vote_from_context).
SignedIsVoted ==
    \A n \in Validators : \A b \in signed[n] :
        b \in voted[n] \/ Cardinality(Voters(b)) >= AgreeCount

\* A final block has been voted for by AgreeCount or by ConfirmTerms different
\* validators, whichever is smaller: following the votes of others in
\* aggregate_vote never makes a block final that only a few chose.
FinalVotedByQuorum ==
    \A b \in Block : IsFinal(b) =>
        \/ Cardinality(Voters(b)) >= AgreeCount
        \/ Cardinality(Voters(b)) >= ConfirmTerms

\* Two different candidates final at one height (a fork, Chain.finalize does not
\* prevent it) need a quorum overlap of validators that confirmed both.
ForkAccountability ==
    \A b, c \in Block : IsFinal(b) /\ IsFinal(c) /\ b # c =>
        Cardinality(Signers(b) \cap Signers(c))
            >= 2 * ConfirmTerms - Cardinality(Validators)

\* What a validator links is a final block (Validator.progress finalizes what
\* FinalizeManager.get returns).
LinkedIsFinal ==
    \A n \in Validators : linked[n] # NoBlock => linked[n] \in finals

\* Where every validator confirms at most one block and ConfirmTerms is more than
\* half of them, all validators link the same candidate: only validators that confirm
\* again, in the loops of _progress and progress, make them link different ones.
AgreementUnlessReconfirmed ==
    (/\ 2 * ConfirmTerms > Cardinality(Validators)
     /\ \A n \in Validators : \A b, c \in signed[n] : b = c)
    => \A m, n \in Validators :
        linked[m] # NoBlock /\ linked[n] # NoBlock => linked[m].block = linked[n].block

=============================================================================

---------------------------- MODULE FinalityProof ----------------------------
(***************************************************************************)
(* Proofs about Finality, for every set of validators and every choice of  *)
(* AgreeCount and ConfirmTerms.                                            *)
(*                                                                         *)
(* FinalVotedByQuorum, ForkAccountability and AgreementUnlessReconfirmed   *)
(* are not inductive.  They follow from IInv, which says why a block may   *)
(* be confirmed (SignedIsVoted), why it may be final (FinalBackedByQuorum) *)
(* and why it may be linked (LinkedIsFinal).                               *)
(***************************************************************************)
EXTENDS Finality, FiniteSetTheorems, TLAPS

IInv == TypeOK /\ SignedIsVoted /\ FinalBackedByQuorum /\ LinkedIsFinal

-----------------------------------------------------------------------------
\* Sets of validators.

LEMMA ValidatorSets ==
  ASSUME NEW S \in SUBSET Validators
  PROVE  IsFiniteSet(S) /\ Cardinality(S) \in Nat
BY ValidatorsAssumption, FS_Subset, FS_CardinalityType

LEMMA ValidatorSubsets ==
  ASSUME NEW T \in SUBSET Validators, NEW S \in SUBSET T
  PROVE  Cardinality(S) <= Cardinality(T)
BY ValidatorSets, FS_Subset

LEMMA QuorumOverlap ==
  ASSUME NEW S \in SUBSET Validators, NEW T \in SUBSET Validators
  PROVE  Cardinality(S \cap T) >= Cardinality(S) + Cardinality(T) - Cardinality(Validators)
<1>1. Cardinality(S \cup T) = Cardinality(S) + Cardinality(T) - Cardinality(S \cap T)
  BY ValidatorSets, FS_Union
<1>2. Cardinality(S \cup T) <= Cardinality(Validators)
  <2>1. S \cup T \in SUBSET Validators /\ Validators \in SUBSET Validators
    OBVIOUS
  <2> QED
    BY <2>1, ValidatorSubsets
<1>3. /\ Cardinality(S) \in Nat
      /\ Cardinality(T) \in Nat
      /\ Cardinality(S \cap T) \in Nat
      /\ Cardinality(Validators) \in Nat
  <2>1. S \cap T \in SUBSET Validators /\ Validators \in SUBSET Validators
    OBVIOUS
  <2> QED
    BY <2>1, ValidatorSets
<1> QED
  BY <1>1, <1>2, <1>3

\* Votes and confirms are never taken back, so the quorums behind a block grow.
LEMMA QuorumsGrow ==
  ASSUME TypeOK, [Next]_vars, NEW b \in Block
  PROVE  /\ Voters(b) \in SUBSET Voters(b)' /\ Voters(b)' \in SUBSET Validators
         /\ Signers(b) \in SUBSET Signers(b)' /\ Signers(b)' \in SUBSET Validators
<1>1. \A n \in Validators : voted[n] \subseteq voted'[n] /\ signed[n] \subseteq signed'[n]
  <2>1. CASE \E n \in Validators, c \in Block : Vote(n, c) \/ Sign(n, c)
    BY <2>1 DEF TypeOK, Vote, Sign
  <2>2. CASE \E c \in Block : \E W \in SUBSET Voters(c) : W # {} /\ Certify(c, W)
    BY <2>2 DEF Certify
  <2>3. CASE \E n \in Validators, f \in finals : Link(n, f)
    BY <2>3 DEF Link
  <2>4. CASE UNCHANGED vars
    BY <2>4 DEF vars
  <2> QED
    BY <2>1, <2>2, <2>3, <2>4 DEF Next
<1> QED
  BY <1>1 DEF Voters, Signers

LEMMA QuorumsStay ==
  ASSUME TypeOK, [Next]_vars, NEW b \in Block, NEW k \in Nat
  PROVE  /\ Cardinality(Voters(b)) >= k => Cardinality(Voters(b)') >= k
         /\ Cardinality(Signers(b)) >= k => Cardinality(Signers(b)') >= k
<1>1. /\ Cardinality(Voters(b)) <= Cardinality(Voters(b)')
      /\ Cardinality(Signers(b)) <= Cardinality(Signers(b)')
  BY QuorumsGrow, ValidatorSubsets
<1>2. /\ Cardinality(Voters(b)) \in Nat /\ Cardinality(Voters(b)') \in Nat
      /\ Cardinality(Signers(b)) \in Nat /\ Cardinality(Signers(b)') \in Nat
  <2>1. Voters(b) \in SUBSET Validators /\ Signers(b) \in SUBSET Validators
    BY DEF Voters, Signers
  <2> QED
    BY <2>1, QuorumsGrow, ValidatorSets
<1> QED
  BY <1>1, <1>2

-----------------------------------------------------------------------------
\* The inductive invariant.

LEMMA Initially == Init => IInv
BY DEF Init, IInv, TypeOK, SignedIsVoted, FinalBackedByQuorum, LinkedIsFinal, IsFinal

LEMMA TypeStep ==
  ASSUME TypeOK, [Next]_vars
  PROVE  TypeOK'
<1>1. ASSUME NEW n \in Validators, NEW b \in Block, Vote(n, b) PROVE TypeOK'
  BY <1>1 DEF TypeOK, Vote
<1>2. ASSUME NEW n \in Validators, NEW b \in Block, Sign(n, b) PROVE TypeOK'
  BY <1>2 DEF TypeOK, Sign
<1>3. ASSUME NEW n \in Validators, NEW f \in finals, Link(n, f) PROVE TypeOK'
  BY <1>3 DEF TypeOK, Link
<1>4. ASSUME NEW b \in Block, NEW W \in SUBSET Voters(b), Certify(b, W) PROVE TypeOK'
  <2>1. [height |-> Height, block |-> b, voters |-> W] \in Final
    BY DEF Final, Voters
  <2> QED
    BY <1>4, <2>1 DEF TypeOK, Certify
<1>5. CASE UNCHANGED vars
  BY <1>5 DEF TypeOK, vars
<1> QED
  BY <1>1, <1>2, <1>3, <1>4, <1>5 DEF Next

LEMMA SignedIsVotedStep ==
  ASSUME IInv, [Next]_vars
  PROVE  SignedIsVoted'
<1> SUFFICES ASSUME NEW n \in Validators, NEW b \in signed'[n]
             PROVE  b \in voted'[n] \/ Cardinality(Voters(b)') >= AgreeCount
  BY DEF SignedIsVoted, Voters
<1> TypeOK /\ TypeOK' /\ SignedIsVoted
  BY TypeStep DEF IInv
<1>1. b \in Block
  BY DEF TypeOK
<1>2. CASE b \in signed[n]
  <2>1. CASE b \in voted[n]
    BY <1>1, <2>1, QuorumsGrow DEF Voters
  <2>2. CASE Cardinality(Voters(b)) >= AgreeCount
    BY <1>1, <2>2, QuorumsStay, CountsAssumption
  <2> QED
    BY <1>2, <2>1, <2>2 DEF SignedIsVoted
<1>3. CASE b \notin signed[n]
  <2>1. Sign(n, b)
    BY <1>3 DEF Next, vars, TypeOK, Vote, Sign, Certify, Link
  <2> QED
    BY <2>1 DEF Sign, Voters
<1> QED
  BY <1>2, <1>3

LEMMA FinalBackedByQuorumStep ==
  ASSUME IInv, [Next]_vars
  PROVE  FinalBackedByQuorum'
<1> SUFFICES ASSUME NEW b \in Block, IsFinal(b)'
             PROVE  Cardinality(Signers(b)') >= ConfirmTerms
  BY DEF FinalBackedByQuorum, Signers
<1> TypeOK /\ FinalBackedByQuorum
  BY DEF IInv
<1>1. Cardinality(Signers(b)) >= ConfirmTerms
  <2>1. CASE IsFinal(b)
    BY <2>1 DEF FinalBackedByQuorum
  <2>2. CASE ~IsFinal(b)
    <3>1. \E W \in SUBSET Voters(b) : Certify(b, W)
      BY <2>2 DEF Next, vars, TypeOK, Vote, Sign, Certify, Link, IsFinal
    <3> QED
      BY <3>1 DEF Certify
  <2> QED
    BY <2>1, <2>2
<1> QED
  BY <1>1, QuorumsStay, CountsAssumption

LEMMA LinkedIsFinalStep ==
  ASSUME IInv, [Next]_vars
  PROVE  LinkedIsFinal'
<1> TypeOK /\ LinkedIsFinal
  BY DEF IInv
<1>1. ASSUME NEW n \in Validators, NEW b \in Block, Vote(n, b) \/ Sign(n, b)
      PROVE  LinkedIsFinal'
  BY <1>1 DEF LinkedIsFinal, Vote, Sign
<1>2. ASSUME NEW n \in Validators, NEW f \in finals, Link(n, f)
      PROVE  LinkedIsFinal'
  BY <1>2 DEF LinkedIsFinal, Link, TypeOK
<1>3. ASSUME NEW b \in Block, NEW W \in SUBSET Voters(b), W # {}, Certify(b, W)
      PROVE  LinkedIsFinal'
  BY <1>3 DEF LinkedIsFinal, Certify, TypeOK
<1>4. CASE UNCHANGED vars
  BY <1>4 DEF LinkedIsFinal, vars
<1> QED
  BY <1>1, <1>2, <1>3, <1>4 DEF Next

\* The invariant holds in every state of every behaviour.
THEOREM Invariance == Spec => []IInv
<1>1. Init => IInv
  BY Initially
<1>2. IInv /\ [Next]_vars => IInv'
  BY TypeStep, SignedIsVotedStep, FinalBackedByQuorumStep, LinkedIsFinalStep DEF IInv
<1> QED
  BY <1>1, <1>2, PTL DEF Spec

-----------------------------------------------------------------------------
\* What it gives.

\* Type correctness of the abstract specification.
THEOREM TypeCorrect == Spec => []TypeOK
<1>1. IInv => TypeOK
  BY DEF IInv
<1> QED
  BY <1>1, Invariance, PTL

LEMMA SignersVoted ==
  ASSUME IInv
  PROVE  FinalVotedByQuorum
<1> SUFFICES ASSUME NEW b \in Block, IsFinal(b), ~(Cardinality(Voters(b)) >= AgreeCount)
             PROVE  Cardinality(Voters(b)) >= ConfirmTerms
  BY DEF FinalVotedByQuorum
<1>1. Signers(b) \in SUBSET Voters(b) /\ Voters(b) \in SUBSET Validators
  BY DEF IInv, SignedIsVoted, Signers, Voters
<1>2. Cardinality(Signers(b)) <= Cardinality(Voters(b))
  BY <1>1, ValidatorSubsets
<1>3. Cardinality(Signers(b)) >= ConfirmTerms
  BY DEF IInv, FinalBackedByQuorum
<1>4. Cardinality(Signers(b)) \in Nat /\ Cardinality(Voters(b)) \in Nat
  BY <1>1, ValidatorSets
<1> QED
  BY <1>2, <1>3, <1>4, CountsAssumption

\* A final block has the votes of AgreeCount or of ConfirmTerms validators.
THEOREM VotedByQuorum == Spec => []FinalVotedByQuorum
<1>1. IInv => FinalVotedByQuorum
  BY SignersVoted
<1> QED
  BY <1>1, Invariance, PTL

LEMMA ForksOverlap ==
  ASSUME IInv
  PROVE  ForkAccountability
<1> SUFFICES ASSUME NEW b \in Block, NEW c \in Block, IsFinal(b), IsFinal(c)
             PROVE  Cardinality(Signers(b) \cap Signers(c))
                        >= 2 * ConfirmTerms - Cardinality(Validators)
  BY DEF ForkAccountability
<1>1. Signers(b) \in SUBSET Validators /\ Signers(c) \in SUBSET Validators
  BY DEF Signers
<1>2. Cardinality(Signers(b)) >= ConfirmTerms /\ Cardinality(Signers(c)) >= ConfirmTerms
  BY DEF IInv, FinalBackedByQuorum
<1>3. Cardinality(Signers(b) \cap Signers(c))
        >= Cardinality(Signers(b)) + Cardinality(Signers(c)) - Cardinality(Validators)
  BY <1>1, QuorumOverlap
<1>4. /\ Cardinality(Signers(b)) \in Nat /\ Cardinality(Signers(c)) \in Nat
      /\ Cardinality(Signers(b) \cap Signers(c)) \in Nat
      /\ Cardinality(Validators) \in Nat
  <2>1. Signers(b) \cap Signers(c) \in SUBSET Validators /\ Validators \in SUBSET Validators
    BY <1>1
  <2> QED
    BY <1>1, <2>1, ValidatorSets
<1> QED
  BY <1>2, <1>3, <1>4, CountsAssumption

\* A fork needs 2 * ConfirmTerms - N validators that confirmed both blocks.
THEOREM ForkOverlap == Spec => []ForkAccountability
<1>1. IInv => ForkAccountability
  BY ForksOverlap
<1> QED
  BY <1>1, Invariance, PTL

LEMMA OneBlock ==
  ASSUME IInv
  PROVE  AgreementUnlessReconfirmed
<1> SUFFICES ASSUME 2 * ConfirmTerms > Cardinality(Validators),
                    \A n \in Validators : \A b, c \in signed[n] : b = c,
                    NEW m \in Validators, NEW n \in Validators,
                    linked[m] # NoBlock, linked[n] # NoBlock, linked[m].block # linked[n].block
             PROVE  FALSE
  BY DEF AgreementUnlessReconfirmed
<1> DEFINE b == linked[m].block
           c == linked[n].block
<1>1. b \in Block /\ c \in Block /\ IsFinal(b) /\ IsFinal(c)
  <2>1. linked[m] \in finals /\ linked[n] \in finals /\ finals \subseteq Final
    BY DEF IInv, TypeOK, LinkedIsFinal
  <2> QED
    BY <2>1 DEF Final, IsFinal
<1>2. Cardinality(Signers(b) \cap Signers(c)) >= 2 * ConfirmTerms - Cardinality(Validators)
  BY <1>1, ForksOverlap DEF ForkAccountability
<1>3. Signers(b) \cap Signers(c) = {}
  BY DEF Signers
<1>4. Cardinality(Validators) \in Nat
  BY ValidatorSets
<1>5. Cardinality(Signers(b) \cap Signers(c)) = 0
  BY <1>3, FS_EmptySet
<1> HIDE DEF b, c
<1> QED
  BY <1>2, <1>4, <1>5, CountsAssumption

\* Without a second confirm of the same validator there is no fork.
THEOREM NoForkUnlessReconfirmed == Spec => []AgreementUnlessReconfirmed
<1>1. IInv => AgreementUnlessReconfirmed
  BY OneBlock
<1> QED
  BY <1>1, Invariance, PTL

=============================================================================

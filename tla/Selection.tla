------------------------------ MODULE Selection ------------------------------
(***************************************************************************)
(* select_candidate: which of the candidates it has read a validator votes *)
(* for.  A context is the sequence of these candidates, in the order in    *)
(* which they were stored; every step drops some of them.                  *)
(*                                                                         *)
(* A candidate has its creator, the list of its transactions, its          *)
(* timestamp, its hash and the distance of its hash from the one of the    *)
(* header before it, the absolute difference of the sums of their bytes.   *)
(***************************************************************************)
EXTENDS Integers, Sequences, FiniteSets, SequencesExt, FiniteSetsExt

CONSTANTS
    TxTime,     \* the timestamp of every transaction
    Second      \* timestamps per second

ASSUME SelectionAssumption ==
    /\ Second \in Nat
    /\ \A tx \in DOMAIN TxTime : TxTime[tx] \in Nat

\* What is left of a list, or of a context, when the entries outside S are removed.
Only(list, S) ==
    LET only[i \in 0..Len(list)] ==
            IF i = 0 THEN <<>>
            ELSE IF list[i] \in S THEN Append(only[i - 1], list[i])
            ELSE only[i - 1]
    IN  only[Len(list)]

\* Mutant: half a second after the mean.
EstimatedTimeRangeMean(context) ==
    LET sum == FoldLeft(LAMBDA total, blk : total + blk.time, 0, context)
        many == Len(context)
    IN  Only(context, {blk \in ToSet(context) : 2 * many * blk.time <= 2 * sum + many * Second})

\* estimated_time_range: from the first timestamp to half a second after the middle
\* between the first and the last.
EstimatedTimeRange(context) ==
    LET times == {blk.time : blk \in ToSet(context)}
    IN  Only(context, {blk \in ToSet(context) : 2 * blk.time <= Min(times) + Max(times) + Second})

SelectMaximum(context) ==
    LET most == Max({Len(blk.txs) : blk \in ToSet(context)})
    IN  Only(context, {blk \in ToSet(context) : Len(blk.txs) = most})

OldTransaction(txs) == Min({TxTime[tx] : tx \in ToSet(txs)})

SelectOldest(context) ==
    LET old == Min({OldTransaction(blk.txs) : blk \in ToSet(context)})
    IN  Only(context, {blk \in ToSet(context) : OldTransaction(blk.txs) = old})

\* select_maximum calls select_oldest unless it has found one block.
FilterOutCandidate(context) ==
    LET most == SelectMaximum(EstimatedTimeRange(context))
    IN  IF Len(most) = 1 THEN most ELSE SelectOldest(most)

\* The blocks at the greatest distance.
Furthest(context) ==
    LET most == Max({blk.distance : blk \in ToSet(context)})
    IN  Only(context, {blk \in ToSet(context) : blk.distance = most})

\* Mutant: the list of the furthest blocks is not sorted.
HashDistanceUnsorted(context) == <<Head(Furthest(context))>>

\* computation_hash_distance: the least hash among the furthest.
HashDistance(context) ==
    LET least == Min({blk.hash : blk \in ToSet(Furthest(context))})
    IN  Only(context, {blk \in ToSet(context) : blk.hash = least})

SelectCandidate(context) ==
    LET left == FilterOutCandidate(context)
    IN  Head(IF Len(left) > 1 THEN HashDistance(left) ELSE left)

-----------------------------------------------------------------------------
\* What the steps amount to, for a set of candidates.

Timely(S) ==
    LET times == {blk.time : blk \in S}
    IN  {blk \in S : blk.time - Min(times) <= Max(times) - blk.time + Second}

Before(b, c) ==
    \/ Len(b.txs) > Len(c.txs)
    \/ /\ Len(b.txs) = Len(c.txs)
       /\ \/ OldTransaction(b.txs) < OldTransaction(c.txs)
          \/ /\ OldTransaction(b.txs) = OldTransaction(c.txs)
             /\ \/ b.distance > c.distance
                \/ b.distance = c.distance /\ b.hash < c.hash

Best(S) == CHOOSE b \in Timely(S) : \A c \in Timely(S) \ {b} : Before(b, c)

=============================================================================

---------------------------- MODULE ProposalProof ----------------------------
(***************************************************************************)
(* Theorems about Selection and Proposal, for any number of validators and *)
(* transactions, any lengths of pools and lists, any times and hashes.     *)
(*                                                                         *)
(* Every step of select_candidate keeps the candidates that are best by    *)
(* one measure, so what is left depends on the set of candidates only; and *)
(* since their hashes differ, one is left.                                 *)
(***************************************************************************)
EXTENDS Proposal, FiniteSetTheorems, SequenceTheorems, WellFoundedInduction, TLAPS

\* The candidates of a height have different hashes.
HashesDiffer == \A b, c \in Candidates : b.hash = c.hash => b = c

\* What a node proposes its chain does not have.
ProposedIsNew ==
    \A n \in Validators : proposed[n] # None =>
        /\ IsInjective(proposed[n].txs)
        /\ ToSet(proposed[n].txs) \cap Known(n) = {}

IInv == TypeOK /\ HashesDiffer /\ ProposedIsNew /\ NoReplay

-----------------------------------------------------------------------------
(***************************************************************************)
(* Numbers.                                                                *)
(***************************************************************************)

\* A non-empty set of natural numbers has a least element.
LEMMA Least ==
  ASSUME NEW T \in SUBSET Nat, T # {}
  PROVE  \E x \in T : \A y \in T : x <= y
<1>1. PICK x \in T : \A y \in T : ~(<<y, x>> \in OpToRel(<, Nat))
  BY WFMin, NatLessThanWellFounded
<1>2. \A y \in T : ~(y < x)
  BY <1>1 DEF OpToRel
<1> QED BY <1>2

LEMMA MinFacts ==
  ASSUME NEW T \in SUBSET Nat, T # {}
  PROVE  Min(T) \in T /\ \A y \in T : Min(T) <= y
  BY Least DEF Min

\* A non-empty list of natural numbers has a greatest one.
LEMMA Greatest ==
  ASSUME NEW n \in Nat \ {0}, NEW f \in [1..n -> Nat]
  PROVE  \E i \in 1..n : \A j \in 1..n : f[j] <= f[i]
<1> DEFINE Has(m) == \E i \in 1..m : \A j \in 1..m : f[j] <= f[i]
           T == {m \in Nat : m \in 1..n /\ ~Has(m)}
<1>1. SUFFICES ASSUME T # {} PROVE FALSE
  <2>1. n \in 1..n
    OBVIOUS
  <2> QED BY <2>1
<1>2. PICK m \in T : \A k \in T : m <= k
  BY <1>1, Least
<1>3. m \in 1..n /\ m \in Nat
  OBVIOUS
<1>4. CASE m = 1
  <2>1. Has(1)
    BY <1>3, <1>4
  <2> QED BY <1>4, <2>1
<1>5. CASE m # 1
  <2>1. m - 1 \in Nat /\ m - 1 \in 1..n /\ ~(m <= m - 1)
    BY <1>3, <1>5
  <2>2. m - 1 \notin T
    BY <1>2, <2>1
  <2>3. PICK i \in 1..(m - 1) : \A j \in 1..(m - 1) : f[j] <= f[i]
    BY <2>1, <2>2
  <2>4. f[i] \in Nat /\ f[m] \in Nat /\ i \in 1..m /\ m \in 1..m
    BY <1>3
  <2>5. CASE f[m] <= f[i]
    <3>1. \A j \in 1..m : f[j] <= f[i]
      BY <1>3, <2>3, <2>4, <2>5
    <3> QED BY <2>4, <3>1
  <2>6. CASE f[i] <= f[m]
    <3>1. \A j \in 1..m : f[j] <= f[m]
      BY <1>3, <2>3, <2>4, <2>6
    <3> QED BY <2>4, <3>1
  <2> QED BY <2>4, <2>5, <2>6
<1> QED BY <1>4, <1>5

LEMMA MaxFacts ==
  ASSUME NEW n \in Nat \ {0}, NEW f \in [1..n -> Nat], NEW T, T = {f[i] : i \in 1..n}
  PROVE  Max(T) \in T /\ \A y \in T : y <= Max(T)
<1>1. \E x \in T : \A y \in T : x >= y
  <2>1. PICK i \in 1..n : \A j \in 1..n : f[j] <= f[i]
    BY Greatest
  <2> QED BY <2>1
<1> QED BY <1>1 DEF Max

-----------------------------------------------------------------------------
(***************************************************************************)
(* Lists.                                                                  *)
(***************************************************************************)

LEMMA ToSetAppend ==
  ASSUME NEW U, NEW q \in Seq(U), NEW x \in U
  PROVE  /\ Append(q, x) \in Seq(U) /\ ToSet(Append(q, x)) = ToSet(q) \cup {x}
         /\ IsInjective(q) /\ x \notin ToSet(q) => IsInjective(Append(q, x))
<1>1. Append(q, x) \in Seq(U) /\ DOMAIN Append(q, x) = 1..(Len(q) + 1) /\ DOMAIN q = 1..Len(q)
  OBVIOUS
<1>2. \A i \in 1..(Len(q) + 1) : Append(q, x)[i] = IF i = Len(q) + 1 THEN x ELSE q[i]
  OBVIOUS
<1>3. ToSet(Append(q, x)) = ToSet(q) \cup {x}
  <2>1. \A i \in 1..Len(q) : i \in 1..(Len(q) + 1) /\ i # Len(q) + 1
    OBVIOUS
  <2>2. \A i \in 1..(Len(q) + 1) : i = Len(q) + 1 \/ i \in 1..Len(q)
    OBVIOUS
  <2>3. Len(q) + 1 \in 1..(Len(q) + 1)
    OBVIOUS
  <2> QED BY <1>1, <1>2, <2>1, <2>2, <2>3 DEF ToSet
<1>4. ASSUME IsInjective(q), x \notin ToSet(q) PROVE IsInjective(Append(q, x))
  <2> SUFFICES ASSUME NEW i \in 1..(Len(q) + 1), NEW j \in 1..(Len(q) + 1),
                      Append(q, x)[i] = Append(q, x)[j]
               PROVE  i = j
    BY <1>1 DEF IsInjective
  <2>1. \A k \in 1..Len(q) : q[k] # x
    BY <1>1, <1>4 DEF ToSet
  <2>2. \A k, l \in 1..Len(q) : q[k] = q[l] => k = l
    BY <1>1, <1>4 DEF IsInjective
  <2> QED BY <1>2, <2>1, <2>2
<1> QED BY <1>1, <1>3, <1>4

\* The recursion of Only: what is left of the first i entries.
Step(list, S, only, i) ==
    IF i = 0 THEN <<>>
    ELSE IF list[i] \in S THEN Append(only[i - 1], list[i])
    ELSE only[i - 1]

LEMMA OnlyExists ==
  ASSUME NEW list, NEW S, NEW n \in Nat
  PROVE  \E f : f = [i \in 0..n |-> Step(list, S, f, i)]
<1> DEFINE Has(m) == \E f : f = [i \in 0..m |-> Step(list, S, f, i)]
           T == {m \in Nat : ~Has(m)}
<1> SUFFICES ASSUME T # {} PROVE FALSE
  OBVIOUS
<1>1. PICK m \in T : \A k \in T : m <= k
  BY Least
<1>2. m # 0
  <2> SUFFICES ASSUME m = 0 PROVE FALSE
    OBVIOUS
  <2> DEFINE f == [i \in 0..0 |-> <<>>]
  <2>1. \A i \in 0..0 : Step(list, S, f, i) = <<>>
    BY DEF Step
  <2>2. f = [i \in 0..0 |-> Step(list, S, f, i)]
    BY <2>1
  <2> QED BY <2>2
<1>3. m - 1 \in Nat /\ m - 1 \notin T
  BY <1>1, <1>2
<1>4. PICK f : f = [i \in 0..(m - 1) |-> Step(list, S, f, i)]
  BY <1>3
<1> DEFINE g == [i \in 0..m |-> IF i < m THEN f[i] ELSE Step(list, S, f, m)]
<1>5. ASSUME NEW i \in 0..m PROVE g[i] = Step(list, S, g, i)
  <2>1. i > 0 => i - 1 \in 0..m /\ i - 1 < m /\ g[i - 1] = f[i - 1]
    OBVIOUS
  <2>2. Step(list, S, g, i) = Step(list, S, f, i)
    BY <2>1 DEF Step
  <2>3. CASE i < m
    <3>1. i \in 0..(m - 1)
      BY <2>3
    <3>2. f[i] = Step(list, S, f, i)
      BY <1>4, <3>1
    <3> QED BY <2>2, <2>3, <3>2
  <2>4. CASE i = m
    BY <2>2, <2>4
  <2> QED BY <2>3, <2>4
<1>6. g = [i \in 0..m |-> Step(list, S, g, i)]
  BY <1>5
<1>7. Has(m)
  BY <1>6
<1> QED BY <1>1, <1>7

\* Only keeps the entries in S, each as often as it was there, and no others.
LEMMA OnlyFacts ==
  ASSUME NEW U, NEW list \in Seq(U), NEW S
  PROVE  /\ Only(list, S) \in Seq(U) /\ Len(Only(list, S)) <= Len(list)
         /\ ToSet(Only(list, S)) = ToSet(list) \cap S
         /\ IsInjective(list) => IsInjective(Only(list, S))
<1> DEFINE f == CHOOSE only : only = [i \in 0..Len(list) |-> Step(list, S, only, i)]
<1>1. Only(list, S) = f[Len(list)]
  BY DEF Only, Step
<1>2. f = [i \in 0..Len(list) |-> Step(list, S, f, i)]
  <2>1. Len(list) \in Nat
    OBVIOUS
  <2>2. \E g : g = [i \in 0..Len(list) |-> Step(list, S, g, i)]
    BY <2>1, OnlyExists
  <2> QED BY <2>2
<1> HIDE DEF f
<1>3. \A i \in 0..Len(list) : f[i] = Step(list, S, f, i)
  BY <1>2
<1> DEFINE First(n) == {list[j] : j \in 1..n}
           Fine(n) == /\ f[n] \in Seq(U) /\ Len(f[n]) <= n
                      /\ ToSet(f[n]) = First(n) \cap S
                      /\ IsInjective(list) => IsInjective(f[n])
           T == {n \in Nat : n <= Len(list) /\ ~Fine(n)}
<1>4. T = {}
  <2> SUFFICES ASSUME T # {} PROVE FALSE
    OBVIOUS
  <2>1. PICK m \in T : \A k \in T : m <= k
    BY Least
  <2>2. m # 0
    <3>1. f[0] = <<>>
      BY <1>3 DEF Step
    <3>2. First(0) = {} /\ ToSet(<<>>) = {} /\ IsInjective(<<>>) /\ Len(<<>>) = 0 /\ <<>> \in Seq(U)
      BY DEF ToSet, IsInjective
    <3>3. Fine(0)
      BY <3>1, <3>2
    <3> QED BY <2>1, <3>3
  <2>3. m \in Nat /\ m <= Len(list) /\ Len(list) \in Nat
    BY <2>1
  <2>4. m - 1 \in Nat /\ m - 1 <= Len(list) /\ m \in 1..Len(list) /\ ~(m <= m - 1)
    BY <2>2, <2>3
  <2>5. m - 1 \notin T
    BY <2>1, <2>4
  <2>6. Fine(m - 1)
    BY <2>4, <2>5
  <2>7. f[m] = IF list[m] \in S THEN Append(f[m - 1], list[m]) ELSE f[m - 1]
    BY <1>3, <2>4 DEF Step
  <2>8. list[m] \in U
    BY <2>4
  <2>9. First(m) = First(m - 1) \cup {list[m]}
    <3>1. 1..m = 1..(m - 1) \cup {m}
      BY <2>4
    <3> QED BY <3>1
  <2>10. Len(f[m]) <= m
    BY <2>4, <2>6, <2>7, <2>8
  <2>11. CASE list[m] \in S
    <3>1. ASSUME IsInjective(list) PROVE list[m] \notin First(m - 1)
      <4>1. \A i, j \in 1..Len(list) : list[i] = list[j] => i = j
        BY <3>1 DEF IsInjective
      <4>2. \A j \in 1..(m - 1) : j \in 1..Len(list) /\ j # m
        BY <2>4
      <4> QED BY <2>4, <4>1, <4>2
    <3>2. /\ f[m] \in Seq(U)
          /\ ToSet(f[m]) = ToSet(f[m - 1]) \cup {list[m]}
          /\ IsInjective(f[m - 1]) /\ list[m] \notin ToSet(f[m - 1]) => IsInjective(f[m])
      BY <2>6, <2>7, <2>8, <2>11, ToSetAppend
    <3>3. ToSet(f[m]) = First(m) \cap S
      BY <2>6, <2>9, <2>11, <3>2
    <3>4. IsInjective(list) => IsInjective(f[m])
      BY <2>6, <3>1, <3>2
    <3> QED BY <2>1, <2>10, <3>2, <3>3, <3>4
  <2>12. CASE list[m] \notin S
    <3>1. First(m) \cap S = First(m - 1) \cap S
      BY <2>9, <2>12
    <3> QED BY <2>1, <2>6, <2>7, <2>10, <2>12, <3>1
  <2> QED BY <2>11, <2>12
<1>5. Fine(Len(list))
  <2>1. Len(list) \in Nat /\ Len(list) <= Len(list)
    OBVIOUS
  <2> HIDE DEF Fine
  <2> QED BY <1>4, <2>1
<1>6. First(Len(list)) = ToSet(list)
  BY DEF ToSet
<1> QED BY <1>1, <1>5, <1>6

LEMMA ToSetFacts ==
  ASSUME NEW U, NEW list \in Seq(U)
  PROVE  /\ ToSet(list) \subseteq U /\ ToSet(list) = {list[i] : i \in 1..Len(list)}
         /\ list # <<>> <=> ToSet(list) # {}
         /\ list # <<>> => Len(list) \in Nat \ {0} /\ Head(list) \in ToSet(list)
<1>1. DOMAIN list = 1..Len(list) /\ Len(list) \in Nat
  OBVIOUS
<1>2. ToSet(list) \subseteq U /\ ToSet(list) = {list[i] : i \in 1..Len(list)}
  BY <1>1 DEF ToSet
<1>3. CASE list = <<>>
  BY <1>2, <1>3
<1>4. CASE list # <<>>
  <2>1. Len(list) \in Nat \ {0} /\ 1 \in 1..Len(list) /\ Head(list) = list[1]
    BY <1>4
  <2> QED BY <1>2, <1>4, <2>1
<1> QED BY <1>2, <1>3, <1>4

-----------------------------------------------------------------------------
(***************************************************************************)
(* The steps of select_candidate.                                          *)
(***************************************************************************)

LEMMA OldTransactionType ==
  ASSUME NEW blk \in Candidate
  PROVE  OldTransaction(blk.txs) \in Nat
<1>1. blk.txs \in Seq(Tx) /\ blk.txs # <<>>
  BY DEF Candidate
<1> DEFINE times == {TxTime[tx] : tx \in ToSet(blk.txs)}
<1>2. ToSet(blk.txs) # {} /\ ToSet(blk.txs) \subseteq Tx
  BY <1>1, ToSetFacts
<1>3. times \in SUBSET Nat /\ times # {}
  BY <1>2, SelectionAssumption DEF Tx
<1> QED BY <1>3, MinFacts DEF OldTransaction

LEMMA CandidateFacts ==
  ASSUME NEW blk \in Candidate
  PROVE  /\ Len(blk.txs) \in Nat /\ blk.time \in Nat /\ blk.distance \in Nat /\ blk.hash \in Nat
         /\ OldTransaction(blk.txs) \in Nat
  BY OldTransactionType DEF Candidate

\* The greatest of the times and distances of a context, and the least.
LEMMA Extremes ==
  ASSUME NEW context \in Seq(Candidate), context # <<>>
  PROVE  LET S == ToSet(context)
             times == {blk.time : blk \in S}
             lengths == {Len(blk.txs) : blk \in S}
             distances == {blk.distance : blk \in S}
         IN  /\ Min(times) \in times /\ \A t \in times : Min(times) <= t
             /\ Max(times) \in times /\ \A t \in times : t <= Max(times)
             /\ Max(lengths) \in lengths /\ \A t \in lengths : t <= Max(lengths)
             /\ Max(distances) \in distances /\ \A t \in distances : t <= Max(distances)
<1> DEFINE n == Len(context)
           S == ToSet(context)
           times == {blk.time : blk \in S}
           lengths == {Len(blk.txs) : blk \in S}
           distances == {blk.distance : blk \in S}
<1>1. n \in Nat \ {0} /\ S = {context[i] : i \in 1..n} /\ S # {} /\ S \subseteq Candidate
  BY ToSetFacts
<1>2. \A i \in 1..n : context[i] \in Candidate
  OBVIOUS
<1> HIDE DEF n, S
<1>3. Min(times) \in times /\ \A t \in times : Min(times) <= t
  <2>1. times \in SUBSET Nat /\ times # {}
    BY <1>1, CandidateFacts
  <2> QED BY <2>1, MinFacts
<1>4. Max(times) \in times /\ \A t \in times : t <= Max(times)
  <2> DEFINE f == [i \in 1..n |-> context[i].time]
  <2>1. f \in [1..n -> Nat]
    BY <1>2, CandidateFacts
  <2>2. times = {f[i] : i \in 1..n}
    BY <1>1
  <2> HIDE DEF f, times
  <2> QED BY <1>1, <2>1, <2>2, MaxFacts
<1>5. Max(lengths) \in lengths /\ \A t \in lengths : t <= Max(lengths)
  <2> DEFINE f == [i \in 1..n |-> Len(context[i].txs)]
  <2>1. f \in [1..n -> Nat]
    BY <1>2, CandidateFacts
  <2>2. lengths = {f[i] : i \in 1..n}
    BY <1>1
  <2> HIDE DEF f, lengths
  <2> QED BY <1>1, <2>1, <2>2, MaxFacts
<1>6. Max(distances) \in distances /\ \A t \in distances : t <= Max(distances)
  <2> DEFINE f == [i \in 1..n |-> context[i].distance]
  <2>1. f \in [1..n -> Nat]
    BY <1>2, CandidateFacts
  <2>2. distances = {f[i] : i \in 1..n}
    BY <1>1
  <2> HIDE DEF f, distances
  <2> QED BY <1>1, <2>1, <2>2, MaxFacts
<1> QED BY <1>3, <1>4, <1>5, <1>6 DEF S

\* A step that keeps the members of S, some of which there are.
LEMMA StepFacts ==
  ASSUME NEW context \in Seq(Candidate), IsInjective(context),
         NEW S \in SUBSET ToSet(context), S # {}
  PROVE  LET left == Only(context, S) IN
         /\ left \in Seq(Candidate) /\ IsInjective(left) /\ left # <<>>
         /\ ToSet(left) = S
<1>1. Only(context, S) \in Seq(Candidate) /\ IsInjective(Only(context, S))
      /\ ToSet(Only(context, S)) = S
  <2>1. /\ Only(context, S) \in Seq(Candidate)
        /\ ToSet(Only(context, S)) = ToSet(context) \cap S
        /\ IsInjective(context) => IsInjective(Only(context, S))
    BY OnlyFacts
  <2> QED BY <2>1
<1>2. Only(context, S) # <<>>
  <2> DEFINE left == Only(context, S)
  <2>1. left \in Seq(Candidate) /\ ToSet(left) # {}
    BY <1>1
  <2> HIDE DEF left
  <2>2. left # <<>>
    BY <2>1, ToSetFacts
  <2> QED BY <2>2 DEF left
<1> QED BY <1>1, <1>2

LEMMA EstimatedTimeRangeFacts ==
  ASSUME NEW context \in Seq(Candidate), IsInjective(context), context # <<>>
  PROVE  LET left == EstimatedTimeRange(context) IN
         /\ left \in Seq(Candidate) /\ IsInjective(left) /\ left # <<>>
         /\ ToSet(left) = Timely(ToSet(context))
<1> DEFINE S == ToSet(context)
           times == {blk.time : blk \in S}
           range == {blk \in S : 2 * blk.time <= Min(times) + Max(times) + Second}
<1>1. S \subseteq Candidate
  BY ToSetFacts
<1>2. Min(times) \in times /\ Max(times) \in times /\ Min(times) <= Max(times)
  BY Extremes
<1>3. Min(times) \in Nat /\ Max(times) \in Nat /\ Second \in Nat
  BY <1>1, <1>2, CandidateFacts, SelectionAssumption
<1> HIDE DEF S
<1>4. range # {}
  <2>1. PICK blk \in S : blk.time = Min(times)
    BY <1>2
  <2> HIDE DEF times
  <2>2. 2 * blk.time <= Min(times) + Max(times) + Second
    BY <1>2, <1>3, <2>1
  <2> QED BY <2>1, <2>2
<1>5. range = Timely(S)
  <2> DEFINE least == Min(times)
             most == Max(times)
  <2>1. ASSUME NEW blk \in S
        PROVE  2 * blk.time <= least + most + Second
                 <=> blk.time - least <= most - blk.time + Second
    <3>1. blk.time \in Nat /\ least \in Nat /\ most \in Nat /\ Second \in Nat
      BY <1>1, <1>3, CandidateFacts
    <3> HIDE DEF least, most
    <3> QED BY <3>1
  <2> QED BY <2>1 DEF Timely
<1>6. EstimatedTimeRange(context) = Only(context, range)
  BY DEF EstimatedTimeRange, S
<1>7. range \in SUBSET ToSet(context)
  BY DEF S
<1> HIDE DEF range
<1> QED BY <1>4, <1>5, <1>6, <1>7, StepFacts DEF S

LEMMA SelectMaximumFacts ==
  ASSUME NEW context \in Seq(Candidate), IsInjective(context), context # <<>>
  PROVE  LET left == SelectMaximum(context) IN
         /\ left \in Seq(Candidate) /\ IsInjective(left) /\ left # <<>>
         /\ ToSet(left) = {b \in ToSet(context) :
                             \A c \in ToSet(context) : Len(c.txs) <= Len(b.txs)}
<1> DEFINE S == ToSet(context)
           lengths == {Len(blk.txs) : blk \in S}
           kept == {blk \in S : Len(blk.txs) = Max(lengths)}
<1>1. S \subseteq Candidate
  BY ToSetFacts
<1>2. Max(lengths) \in lengths /\ \A t \in lengths : t <= Max(lengths)
  BY Extremes
<1>3. SelectMaximum(context) = Only(context, kept)
  BY DEF SelectMaximum
<1>4. kept \in SUBSET ToSet(context) /\ kept # {}
  BY <1>2
<1>5. kept = {b \in S : \A c \in S : Len(c.txs) <= Len(b.txs)}
  <2>1. \A b \in S : Len(b.txs) \in Nat
    BY <1>1, CandidateFacts
  <2>2. PICK top \in S : Len(top.txs) = Max(lengths)
    BY <1>2
  <2>3. \A b \in S : Len(b.txs) <= Len(top.txs)
    BY <1>2, <2>2
  <2>4. kept = {blk \in S : Len(blk.txs) = Len(top.txs)}
    BY <2>2
  <2> HIDE DEF kept, S
  <2> QED BY <2>1, <2>3, <2>4
<1> HIDE DEF kept
<1> QED BY <1>3, <1>4, <1>5, StepFacts

LEMMA SelectOldestFacts ==
  ASSUME NEW context \in Seq(Candidate), IsInjective(context), context # <<>>
  PROVE  LET left == SelectOldest(context) IN
         /\ left \in Seq(Candidate) /\ IsInjective(left) /\ left # <<>>
         /\ ToSet(left) = {b \in ToSet(context) :
              \A c \in ToSet(context) : OldTransaction(b.txs) <= OldTransaction(c.txs)}
<1> DEFINE S == ToSet(context)
           ages == {OldTransaction(blk.txs) : blk \in S}
           kept == {blk \in S : OldTransaction(blk.txs) = Min(ages)}
<1>1. S \subseteq Candidate /\ S # {}
  BY ToSetFacts
<1>2. \A b \in S : OldTransaction(b.txs) \in Nat
  BY <1>1, CandidateFacts
<1>3. Min(ages) \in ages /\ \A t \in ages : Min(ages) <= t
  <2>1. ages \in SUBSET Nat /\ ages # {}
    BY <1>1, <1>2
  <2> HIDE DEF ages
  <2> QED BY <2>1, MinFacts
<1>4. SelectOldest(context) = Only(context, kept)
  BY DEF SelectOldest
<1>5. kept \in SUBSET ToSet(context) /\ kept # {}
  BY <1>3
<1>6. kept = {b \in S : \A c \in S : OldTransaction(b.txs) <= OldTransaction(c.txs)}
  <2>1. PICK top \in S : OldTransaction(top.txs) = Min(ages)
    BY <1>3
  <2>2. \A b \in S : OldTransaction(top.txs) <= OldTransaction(b.txs)
    BY <1>3, <2>1
  <2>3. kept = {blk \in S : OldTransaction(blk.txs) = OldTransaction(top.txs)}
    BY <2>1
  <2> HIDE DEF kept, S
  <2> QED BY <1>2, <2>2, <2>3
<1> HIDE DEF kept
<1> QED BY <1>4, <1>5, <1>6, StepFacts

LEMMA FurthestFacts ==
  ASSUME NEW context \in Seq(Candidate), IsInjective(context), context # <<>>
  PROVE  LET left == Furthest(context) IN
         /\ left \in Seq(Candidate) /\ IsInjective(left) /\ left # <<>>
         /\ ToSet(left) = {b \in ToSet(context) :
                             \A c \in ToSet(context) : c.distance <= b.distance}
<1> DEFINE S == ToSet(context)
           distances == {blk.distance : blk \in S}
           kept == {blk \in S : blk.distance = Max(distances)}
<1>1. S \subseteq Candidate
  BY ToSetFacts
<1>2. Max(distances) \in distances /\ \A t \in distances : t <= Max(distances)
  BY Extremes
<1>3. Furthest(context) = Only(context, kept)
  BY DEF Furthest
<1>4. kept \in SUBSET ToSet(context) /\ kept # {}
  BY <1>2
<1>5. kept = {b \in S : \A c \in S : c.distance <= b.distance}
  <2>1. \A b \in S : b.distance \in Nat
    BY <1>1, CandidateFacts
  <2>2. PICK top \in S : top.distance = Max(distances)
    BY <1>2
  <2>3. \A b \in S : b.distance <= top.distance
    BY <1>2, <2>2
  <2>4. kept = {blk \in S : blk.distance = top.distance}
    BY <2>2
  <2> HIDE DEF kept, S
  <2> QED BY <2>1, <2>3, <2>4
<1> HIDE DEF kept
<1> QED BY <1>3, <1>4, <1>5, StepFacts

-----------------------------------------------------------------------------
(***************************************************************************)
(* What select_candidate selects.                                          *)
(***************************************************************************)

\* blk is better than all other candidates of S.
IsBest(blk, S) == blk \in Timely(S) /\ \A c \in Timely(S) \ {blk} : Before(blk, c)

\* There is at most one such candidate: Before is asymmetric.
LEMMA OneIsBest ==
  ASSUME NEW S \in SUBSET Candidate, NEW blk, IsBest(blk, S)
  PROVE  Best(S) = blk
<1>1. Timely(S) \subseteq Candidate
  BY DEF Timely
<1>2. ASSUME NEW b \in Timely(S), NEW c \in Timely(S), Before(b, c), Before(c, b)
      PROVE  FALSE
  <2>1. b \in Candidate /\ c \in Candidate
    BY <1>1
  <2>2. /\ Len(b.txs) \in Nat /\ b.distance \in Nat /\ b.hash \in Nat
        /\ OldTransaction(b.txs) \in Nat
        /\ Len(c.txs) \in Nat /\ c.distance \in Nat /\ c.hash \in Nat
        /\ OldTransaction(c.txs) \in Nat
    BY <2>1, CandidateFacts
  <2> QED BY <1>2, <2>2 DEF Before
<1>3. IsBest(Best(S), S)
  BY DEF IsBest, Best
<1> QED BY <1>2, <1>3 DEF IsBest

\* What filter_out_candidate leaves, whether it has called select_oldest or not.
LEMMA FilterOutCandidateFacts ==
  ASSUME NEW context \in Seq(Candidate), IsInjective(context), context # <<>>
  PROVE  LET left == FilterOutCandidate(context)
             S == Timely(ToSet(context))
         IN  /\ left \in Seq(Candidate) /\ IsInjective(left) /\ left # <<>>
             /\ ToSet(left) \subseteq S
             /\ \A b \in ToSet(left) : \A c \in S :
                  \/ Len(b.txs) > Len(c.txs)
                  \/ /\ Len(b.txs) = Len(c.txs)
                     /\ OldTransaction(b.txs) < OldTransaction(c.txs)
                  \/ /\ Len(b.txs) = Len(c.txs)
                     /\ OldTransaction(b.txs) = OldTransaction(c.txs) /\ c \in ToSet(left)
<1> DEFINE timely == EstimatedTimeRange(context)
           most == SelectMaximum(timely)
           left == FilterOutCandidate(context)
           S == Timely(ToSet(context))
<1>1. /\ timely \in Seq(Candidate) /\ IsInjective(timely) /\ timely # <<>>
      /\ ToSet(timely) = S
  BY EstimatedTimeRangeFacts
<1> HIDE DEF timely, S
<1>2. /\ most \in Seq(Candidate) /\ IsInjective(most) /\ most # <<>>
      /\ ToSet(most) = {b \in S : \A c \in S : Len(c.txs) <= Len(b.txs)}
  BY <1>1, SelectMaximumFacts
<1>3. S \subseteq Candidate
  BY <1>1, ToSetFacts
<1>4. \A b \in S : Len(b.txs) \in Nat /\ OldTransaction(b.txs) \in Nat
  BY <1>3, CandidateFacts
<1>5. left = IF Len(most) = 1 THEN most ELSE SelectOldest(most)
  BY DEF FilterOutCandidate, timely
<1> HIDE DEF most, left
<1>6. /\ left \in Seq(Candidate) /\ IsInjective(left) /\ left # <<>>
      /\ ToSet(left) = {b \in ToSet(most) :
           \A c \in ToSet(most) : OldTransaction(b.txs) <= OldTransaction(c.txs)}
  <2>1. CASE Len(most) = 1
    <3>1. ToSet(most) = {most[1]} /\ most[1] \in S
      BY <1>2, <2>1, ToSetFacts
    <3>2. OldTransaction(most[1].txs) <= OldTransaction(most[1].txs)
      BY <1>4, <3>1
    <3> QED BY <1>2, <1>5, <2>1, <3>1, <3>2
  <2>2. CASE Len(most) # 1
    BY <1>2, <1>5, <2>2, SelectOldestFacts
  <2> QED BY <2>1, <2>2
<1>7. ASSUME NEW b \in ToSet(left), NEW c \in S
      PROVE  \/ Len(b.txs) > Len(c.txs)
             \/ /\ Len(b.txs) = Len(c.txs)
                /\ OldTransaction(b.txs) < OldTransaction(c.txs)
             \/ /\ Len(b.txs) = Len(c.txs)
                /\ OldTransaction(b.txs) = OldTransaction(c.txs) /\ c \in ToSet(left)
  <2>1. /\ b \in S /\ \A d \in S : Len(d.txs) <= Len(b.txs)
        /\ \A d \in ToSet(most) : OldTransaction(b.txs) <= OldTransaction(d.txs)
    BY <1>2, <1>6
  <2>2. CASE Len(b.txs) = Len(c.txs)
    <3>1. c \in ToSet(most)
      BY <1>2, <2>1, <2>2
    <3>2. OldTransaction(b.txs) = OldTransaction(c.txs) => c \in ToSet(left)
      BY <1>6, <2>1, <3>1
    <3> QED BY <1>4, <2>1, <2>2, <3>1, <3>2
  <2>3. CASE Len(b.txs) # Len(c.txs)
    BY <1>4, <2>1, <2>3
  <2> QED BY <2>2, <2>3
<1>8. ToSet(left) \subseteq S
  BY <1>2, <1>6
<1> QED BY <1>6, <1>7, <1>8 DEF left, S

\* computation_hash_distance leaves one candidate, because their hashes differ.
LEMMA HashDistanceFacts ==
  ASSUME NEW context \in Seq(Candidate), IsInjective(context), context # <<>>,
         \A b, c \in ToSet(context) : b.hash = c.hash => b = c
  PROVE  LET blk == Head(HashDistance(context)) IN
         /\ blk \in ToSet(context)
         /\ \A c \in ToSet(context) \ {blk} :
              \/ blk.distance > c.distance
              \/ blk.distance = c.distance /\ blk.hash < c.hash
<1> DEFINE S == ToSet(context)
           far == ToSet(Furthest(context))
           hashes == {blk.hash : blk \in far}
           kept == {blk \in S : blk.hash = Min(hashes)}
           left == HashDistance(context)
<1>1. /\ far = {b \in S : \A c \in S : c.distance <= b.distance} /\ far # {}
      /\ S \subseteq Candidate
  BY FurthestFacts, ToSetFacts
<1>2. \A b \in S : b.distance \in Nat /\ b.hash \in Nat
  BY <1>1, CandidateFacts
<1>3. Min(hashes) \in hashes /\ \A h \in hashes : Min(hashes) <= h
  <2>1. hashes \in SUBSET Nat /\ hashes # {}
    BY <1>1, <1>2
  <2> HIDE DEF hashes
  <2> QED BY <2>1, MinFacts
<1>4. PICK blk \in far : blk.hash = Min(hashes)
  BY <1>3
<1>5. kept = {blk}
  BY <1>1, <1>4
<1>6. /\ left = Only(context, kept)
      /\ kept \in SUBSET S /\ kept # {}
  BY <1>5 DEF HashDistance
<1>7. left \in Seq(Candidate) /\ left # <<>> /\ ToSet(left) = {blk}
  <2> HIDE DEF kept, left, far, hashes
  <2> QED BY <1>5, <1>6, StepFacts
<1>8. Head(left) = blk
  <2> HIDE DEF left, far, hashes
  <2> QED BY <1>7, ToSetFacts
<1>9. ASSUME NEW c \in S, c # blk
      PROVE  \/ blk.distance > c.distance
             \/ blk.distance = c.distance /\ blk.hash < c.hash
  <2>1. blk \in S /\ \A d \in S : d.distance <= blk.distance
    BY <1>1, <1>4
  <2>2. CASE c.distance = blk.distance
    <3>1. c \in far
      BY <1>1, <2>1, <2>2
    <3>2. blk.hash <= c.hash /\ blk.hash # c.hash
      BY <1>3, <1>4, <1>9, <2>1, <3>1
    <3> QED BY <1>2, <2>1, <2>2, <3>2
  <2>3. CASE c.distance # blk.distance
    BY <1>2, <2>1, <2>3
  <2> QED BY <2>2, <2>3
<1> QED BY <1>1, <1>8, <1>9

\* select_candidate selects the best candidate of its context, whatever their order.
LEMMA SelectCandidateFacts ==
  ASSUME NEW context \in Seq(Candidate), IsInjective(context), context # <<>>,
         \A b, c \in ToSet(context) : b.hash = c.hash => b = c
  PROVE  IsBest(SelectCandidate(context), ToSet(context))
<1> DEFINE left == FilterOutCandidate(context)
           S == Timely(ToSet(context))
           blk == SelectCandidate(context)
<1>1. /\ left \in Seq(Candidate) /\ IsInjective(left) /\ left # <<>>
      /\ ToSet(left) \subseteq S
      /\ \A b \in ToSet(left) : \A c \in S :
           \/ Len(b.txs) > Len(c.txs)
           \/ /\ Len(b.txs) = Len(c.txs)
              /\ OldTransaction(b.txs) < OldTransaction(c.txs)
           \/ /\ Len(b.txs) = Len(c.txs)
              /\ OldTransaction(b.txs) = OldTransaction(c.txs) /\ c \in ToSet(left)
  BY FilterOutCandidateFacts
<1>2. S \subseteq ToSet(context)
  BY DEF Timely
<1>3. blk = Head(IF Len(left) > 1 THEN HashDistance(left) ELSE left)
  BY DEF SelectCandidate
<1> HIDE DEF left, S, blk
<1>4. /\ blk \in ToSet(left)
      /\ \A c \in ToSet(left) \ {blk} :
           \/ blk.distance > c.distance
           \/ blk.distance = c.distance /\ blk.hash < c.hash
  <2>1. CASE Len(left) > 1
    BY <1>1, <1>2, <1>3, <2>1, HashDistanceFacts
  <2>2. CASE ~(Len(left) > 1)
    <3>1. Len(left) = 1
      <4>1. left \in Seq(Candidate) /\ left # <<>>
        BY <1>1
      <4>2. Len(left) \in Nat \ {0}
        BY <4>1, ToSetFacts
      <4> DEFINE many == Len(left)
      <4>3. many \in Nat /\ many # 0 /\ ~(many > 1)
        BY <2>2, <4>2
      <4> HIDE DEF many
      <4>4. many = 1
        BY <4>3
      <4> QED BY <4>4 DEF many
    <3>2. ToSet(left) = {left[i] : i \in 1..1} /\ Head(left) = left[1]
      BY <1>1, <3>1, ToSetFacts
    <3>3. ToSet(left) = {left[1]}
      BY <3>2
    <3> QED BY <1>3, <2>2, <3>2, <3>3
  <2> QED BY <2>1, <2>2
<1>5. \A c \in S \ {blk} : Before(blk, c)
  BY <1>1, <1>4 DEF Before
<1> QED BY <1>1, <1>4, <1>5 DEF IsBest, S, blk

-----------------------------------------------------------------------------
(***************************************************************************)
(* Orders of a set of candidates.                                          *)
(***************************************************************************)

LEMMA SetToSeqsFacts ==
  ASSUME NEW S, IsFiniteSet(S), NEW order \in SetToSeqs(S)
  PROVE  order \in Seq(S) /\ IsInjective(order) /\ ToSet(order) = S
<1> DEFINE n == Cardinality(S)
<1>1. n \in Nat
  BY FS_CardinalityType
<1>2. order \in [1..n -> S] /\ \A i, j \in 1..n : i # j => order[i] # order[j]
  BY DEF SetToSeqs
<1>3. IsFiniteSet(1..n) /\ Cardinality(1..n) = n
  <2>1. 1 \in Int /\ n \in Int
    BY <1>1
  <2>2. IsFiniteSet(1..n) /\ Cardinality(1..n) = IF 1 > n THEN 0 ELSE n - 1 + 1
    BY <2>1, FS_Interval
  <2> HIDE DEF n
  <2> QED BY <1>1, <2>2
<1>4. order \in Injection(1..n, S)
  BY <1>2 DEF Injection, IsInjective
<1>5. order \in Surjection(1..n, S)
  BY <1>3, <1>4, FS_Injection
<1> HIDE DEF n
<1>6. order \in Seq(S)
  BY <1>1, <1>2
<1>7. ToSet(order) = S
  BY <1>2, <1>5 DEF Surjection, ToSet
<1> QED BY <1>2, <1>6, <1>7 DEF IsInjective

LEMMA SetToSeqIsOrder ==
  ASSUME NEW S, IsFiniteSet(S)
  PROVE  SetToSeq(S) \in SetToSeqs(S)
<1> DEFINE n == Cardinality(S)
<1>1. ExistsBijection(1..n, S)
  BY FS_CardinalityType
<1>2. \E f \in [1..n -> S] : IsInjective(f)
  BY <1>1 DEF ExistsBijection, Bijection, Injection
<1>3. SetToSeq(S) \in [1..n -> S] /\ IsInjective(SetToSeq(S))
  BY <1>2 DEF SetToSeq
<1> QED BY <1>3 DEF SetToSeqs, IsInjective

LEMMA CandidatesFacts ==
  ASSUME TypeOK
  PROVE  Candidates \subseteq Candidate /\ IsFiniteSet(Candidates)
<1>1. Candidates \subseteq Candidate
  BY DEF Candidates, TypeOK
<1>2. IsFiniteSet({proposed[n] : n \in Validators})
  <2>1. IsFiniteSet(Validators)
    BY ProposalAssumption
  <2>2. proposed \in Surjection(Validators, {proposed[n] : n \in Validators})
    BY DEF Surjection, TypeOK
  <2> QED BY <2>1, <2>2, FS_Surjection
<1>3. Candidates \in SUBSET {proposed[n] : n \in Validators}
  BY DEF Candidates
<1> QED BY <1>1, <1>2, <1>3, FS_Subset

\* Every order of every set of candidates leads to the best of them.
LEMMA SelectedIsBest ==
  ASSUME TypeOK, HashesDiffer, NEW S \in SUBSET Candidates, S # {}, NEW order \in SetToSeqs(S)
  PROVE  /\ IsBest(SelectCandidate(order), S) /\ SelectCandidate(order) = Best(S)
         /\ SelectCandidate(order) \in S
<1>1. IsFiniteSet(S) /\ S \in SUBSET Candidate
  BY CandidatesFacts, FS_Subset
<1>2. order \in Seq(S) /\ IsInjective(order) /\ ToSet(order) = S
  BY <1>1, SetToSeqsFacts
<1>3. order \in Seq(Candidate) /\ order # <<>>
  BY <1>1, <1>2, ToSetFacts
<1>4. \A b, c \in ToSet(order) : b.hash = c.hash => b = c
  BY <1>2 DEF HashesDiffer
<1>5. IsBest(SelectCandidate(order), S)
  BY <1>2, <1>3, <1>4, SelectCandidateFacts
<1> QED BY <1>1, <1>5, OneIsBest DEF IsBest, Timely

-----------------------------------------------------------------------------
(***************************************************************************)
(* Pools.                                                                  *)
(***************************************************************************)

LEMMA GetListFacts ==
  ASSUME TypeOK, NEW n \in Validators
  PROVE  /\ GetList(n) \in Seq(Tx) /\ Len(GetList(n)) <= Limit
         /\ IsInjective(GetList(n)) /\ ToSet(GetList(n)) \subseteq ToSet(pool[n])
<1> DEFINE q == pool[n]
           least == Min({Limit, Len(q)})
           list == GetList(n)
<1>1. q \in Seq(Tx) /\ IsInjective(q) /\ Limit \in Nat
  BY ProposalAssumption DEF TypeOK
<1>2. least \in Nat /\ least <= Limit /\ least <= Len(q)
  <2> DEFINE T == {Limit, Len(q)}
  <2>1. T \in SUBSET Nat /\ T # {}
    BY <1>1
  <2>2. Min(T) \in T /\ \A y \in T : Min(T) <= y
    BY <2>1, MinFacts
  <2> QED BY <1>1, <2>2
<1> HIDE DEF q, least
<1>3. \A i \in 1..least : i \in 1..Len(q) /\ q[i] \in Tx
  BY <1>1, <1>2
<1>4. list = SubSeq(q, 1, least)
  BY DEF GetList, q, least
<1>5. /\ SubSeq(q, 1, least) \in Seq(Tx)
      /\ Len(SubSeq(q, 1, least)) = IF 1 <= least THEN least - 1 + 1 ELSE 0
      /\ \A i \in 1..(least - 1 + 1) : SubSeq(q, 1, least)[i] = q[1 + i - 1]
  BY <1>2, <1>3, SubSeqProperties
<1> HIDE DEF list
<1>6. list \in Seq(Tx) /\ Len(list) = least /\ \A i \in 1..least : list[i] = q[i]
  BY <1>2, <1>4, <1>5
<1>7. DOMAIN list = 1..least /\ DOMAIN q = 1..Len(q)
  BY <1>1, <1>6
<1>8. IsInjective(list)
  BY <1>1, <1>3, <1>6, <1>7 DEF IsInjective
<1>9. ToSet(list) \subseteq ToSet(q)
  BY <1>3, <1>6, <1>7 DEF ToSet
<1> QED BY <1>2, <1>6, <1>8, <1>9 DEF list, q

\* What is left after delete_keys.
LEMMA DeleteKeysFacts ==
  ASSUME NEW txs \in Seq(Tx), NEW keys
  PROVE  /\ DeleteKeys(txs, keys) \in Seq(Tx) /\ Len(DeleteKeys(txs, keys)) <= Len(txs)
         /\ ToSet(DeleteKeys(txs, keys)) = ToSet(txs) \ keys
         /\ IsInjective(txs) => IsInjective(DeleteKeys(txs, keys))
<1>1. /\ DeleteKeys(txs, keys) \in Seq(Tx) /\ Len(DeleteKeys(txs, keys)) <= Len(txs)
      /\ ToSet(DeleteKeys(txs, keys)) = ToSet(txs) \cap (ToSet(txs) \ keys)
      /\ IsInjective(txs) => IsInjective(DeleteKeys(txs, keys))
  BY OnlyFacts DEF DeleteKeys
<1> QED BY <1>1

\* The list of the candidate that a node makes.
LEMMA UnknownFacts ==
  ASSUME TypeOK, NEW n \in Validators
  PROVE  LET txs == Unknown(n, GetList(n)) IN
         /\ txs \in Seq(Tx) /\ Len(txs) <= Limit /\ IsInjective(txs)
         /\ ToSet(txs) = ToSet(GetList(n)) \ Known(n)
<1> DEFINE list == GetList(n)
           txs == DeleteKeys(list, Known(n))
<1>1. list \in Seq(Tx) /\ Len(list) <= Limit /\ IsInjective(list)
  BY GetListFacts
<1> HIDE DEF list
<1>2. /\ txs \in Seq(Tx) /\ Len(txs) <= Len(list) /\ IsInjective(txs)
      /\ ToSet(txs) = ToSet(list) \ Known(n)
  BY <1>1, DeleteKeysFacts
<1>3. Len(txs) <= Limit
  BY <1>1, <1>2, ProposalAssumption
<1> QED BY <1>2, <1>3 DEF Unknown, list

\* What a node knows stays what it is while it links nothing.
LEMMA KnownUnchanged ==
  ASSUME NEW n, height[n]' = height[n], height[n] \in 0..Len(chain),
         \A h \in 1..Len(chain) : chain'[h] = chain[h]
  PROVE  Known(n)' = Known(n)
<1>1. \A h \in 1..height[n] : h \in 1..Len(chain)
  OBVIOUS
<1> QED BY <1>1 DEF Known

-----------------------------------------------------------------------------
(***************************************************************************)
(* The invariant.                                                          *)
(***************************************************************************)

LEMMA InitLemma == Init => IInv
<1> SUFFICES ASSUME Init PROVE IInv
  OBVIOUS
<1>1. IsInjective(<<>>) /\ <<>> \in Seq(Tx) /\ Len(chain) = 0
  BY DEF Init, IsInjective
<1>2. TypeOK
  BY <1>1, ProposalAssumption DEF Init, TypeOK
<1>3. Candidates = {}
  BY DEF Init, Candidates
<1>4. NoReplay
  BY <1>1 DEF NoReplay, Init
<1> QED BY <1>2, <1>3, <1>4 DEF IInv, HashesDiffer, ProposedIsNew, Init

\* Steps that change pools and deliveries only.
LEMMA PoolStep ==
  ASSUME IInv, UNCHANGED <<running, proposed, chain, height>>, NEW n \in Validators,
         copies' \in [Validators -> [Tx -> 0..MaxCopies]],
         NEW q \in Seq(Tx), IsInjective(q), pool' = [pool EXCEPT ![n] = q]
  PROVE  IInv'
<1>1. TypeOK'
  BY DEF IInv, TypeOK
<1>2. Candidates' = Candidates /\ \A m \in Validators : Known(m)' = Known(m)
  BY DEF Candidates, Known
<1> QED BY <1>1, <1>2 DEF IInv, HashesDiffer, ProposedIsNew, NoReplay

LEMMA ProcessStep ==
  ASSUME IInv, NEW n \in Validators, NEW tx \in Tx, Process(n, tx) \/ Miss(n, tx)
  PROVE  IInv'
<1>1. copies' \in [Validators -> [Tx -> 0..MaxCopies]]
  <2>1. /\ copies \in [Validators -> [Tx -> 0..MaxCopies]] /\ copies[n][tx] > 0
        /\ copies' = [copies EXCEPT ![n][tx] = @ - 1] /\ MaxCopies \in Nat
    BY ProposalAssumption DEF IInv, TypeOK, Process, Miss
  <2>2. copies[n][tx] - 1 \in 0..MaxCopies
    BY <2>1
  <2> QED BY <2>1, <2>2
<1>2. pool \in [Validators -> Seq(Tx)] /\ pool[n] \in Seq(Tx) /\ IsInjective(pool[n])
  BY DEF IInv, TypeOK
<1>3. CASE Process(n, tx)
  <2> DEFINE q == IF tx \in ToSet(pool[n]) THEN pool[n] ELSE Append(pool[n], tx)
  <2>1. q \in Seq(Tx) /\ IsInjective(q)
    BY <1>2, ToSetAppend
  <2>2. pool' = [pool EXCEPT ![n] = q] /\ UNCHANGED <<running, proposed, chain, height>>
    BY <1>3 DEF Process
  <2> HIDE DEF q
  <2> QED BY <1>1, <2>1, <2>2, PoolStep
<1>4. CASE Miss(n, tx)
  <2>1. pool' = [pool EXCEPT ![n] = pool[n]] /\ UNCHANGED <<running, proposed, chain, height>>
    BY <1>2, <1>4 DEF Miss
  <2> QED BY <1>1, <1>2, <2>1, PoolStep
<1> QED BY <1>3, <1>4

LEMMA DeleteKnownStep ==
  ASSUME IInv, NEW n \in Validators, DeleteKnown(n)
  PROVE  IInv'
<1> DEFINE q == DeleteKeys(pool[n], ToSet(GetList(n)))
<1>1. pool[n] \in Seq(Tx) /\ IsInjective(pool[n])
  BY DEF IInv, TypeOK
<1>2. q \in Seq(Tx) /\ IsInjective(q)
  BY <1>1, DeleteKeysFacts
<1>3. /\ pool' = [pool EXCEPT ![n] = q] /\ copies' = copies
      /\ UNCHANGED <<running, proposed, chain, height>>
  BY DEF DeleteKnown
<1>4. copies' \in [Validators -> [Tx -> 0..MaxCopies]]
  BY <1>3 DEF IInv, TypeOK
<1> HIDE DEF q
<1> QED BY <1>2, <1>3, <1>4, PoolStep

LEMMA MakeCandidateStep ==
  ASSUME IInv, NEW n \in Validators, MakeCandidate(n)
  PROVE  IInv'
<1> DEFINE txs == Unknown(n, GetList(n))
<1>1. PICK stamp \in Stamps :
        /\ \A c \in Candidates : c.hash # stamp.hash
        /\ proposed' = [proposed EXCEPT ![n] =
             [creator |-> n, txs |-> txs, time |-> stamp.time,
              distance |-> stamp.distance, hash |-> stamp.hash]]
  BY DEF MakeCandidate
<1>2. /\ txs # <<>> /\ proposed[n] = None
      /\ UNCHANGED <<running, copies, pool, chain, height>>
  BY DEF MakeCandidate, CanPropose
<1>3. /\ txs \in Seq(Tx) /\ Len(txs) <= Limit /\ IsInjective(txs)
      /\ ToSet(txs) \cap Known(n) = {}
  BY UnknownFacts DEF IInv
<1> HIDE DEF txs
<1> DEFINE blk == [creator |-> n, txs |-> txs, time |-> stamp.time,
                   distance |-> stamp.distance, hash |-> stamp.hash]
<1>4. blk \in Candidate /\ blk.creator = n /\ blk.txs = txs /\ blk.hash = stamp.hash
  <2>1. stamp \in [time : Nat, distance : Nat, hash : Nat]
    BY ProposalAssumption
  <2>2. Len(txs) \in 1..Limit
    BY <1>2, <1>3, ProposalAssumption
  <2> QED BY <1>3, <2>1, <2>2 DEF Candidate
<1>5. proposed' = [proposed EXCEPT ![n] = blk]
  BY <1>1
<1> HIDE DEF blk
<1>6. TypeOK'
  BY <1>2, <1>4, <1>5 DEF IInv, TypeOK
<1>7. /\ proposed'[n] = blk
      /\ \A m \in Validators : m # n => proposed'[m] = proposed[m]
      /\ \A m \in Validators : Known(m)' = Known(m)
  BY <1>2, <1>5 DEF IInv, TypeOK, Known
<1>8. ProposedIsNew'
  BY <1>3, <1>4, <1>7 DEF IInv, ProposedIsNew
<1>9. Candidates' \subseteq Candidates \cup {blk}
  BY <1>2, <1>7 DEF Candidates
<1>10. HashesDiffer'
  BY <1>1, <1>4, <1>9 DEF IInv, HashesDiffer
<1>11. NoReplay'
  BY <1>2 DEF IInv, NoReplay
<1> QED BY <1>6, <1>8, <1>10, <1>11 DEF IInv

LEMMA LinkStep ==
  ASSUME IInv, NEW n \in Validators, Link(n)
  PROVE  IInv'
<1> DEFINE q == DeleteKeys(pool[n], ToSet(chain[height'[n]]))
<1>1. pool[n] \in Seq(Tx) /\ IsInjective(pool[n]) /\ height[n] \in 0..Len(chain) /\ Len(chain) \in Nat
  BY DEF IInv, TypeOK
<1>2. q \in Seq(Tx) /\ IsInjective(q)
  BY <1>1, DeleteKeysFacts
<1>3. /\ height[n] < Len(chain) /\ height' = [height EXCEPT ![n] = @ + 1]
      /\ pool' = [pool EXCEPT ![n] = q] /\ proposed' = [proposed EXCEPT ![n] = None]
      /\ UNCHANGED <<running, copies, chain>>
  BY DEF Link
<1> HIDE DEF q
<1>4. height[n] + 1 \in 0..Len(chain)
  BY <1>1, <1>3
<1>5. TypeOK'
  BY <1>2, <1>3, <1>4 DEF IInv, TypeOK
<1>6. /\ proposed'[n] = None
      /\ \A m \in Validators : m # n => proposed'[m] = proposed[m] /\ height'[m] = height[m]
      /\ \A m \in Validators : m # n => Known(m)' = Known(m)
  BY <1>3 DEF IInv, TypeOK, Known
<1>7. ProposedIsNew'
  BY <1>6 DEF IInv, ProposedIsNew
<1>8. Candidates' \subseteq Candidates
  BY <1>3, <1>6 DEF Candidates
<1>9. HashesDiffer'
  BY <1>8 DEF IInv, HashesDiffer
<1>10. NoReplay'
  BY <1>3 DEF IInv, NoReplay
<1> QED BY <1>5, <1>7, <1>9, <1>10 DEF IInv

LEMMA DecideStep == ASSUME IInv, Decide PROVE IInv'
<1>1. PICK S \in SUBSET Candidates :
        /\ Cardinality(S) >= Enough
        /\ \E order \in SetToSeqs(S) : chain' = Append(chain, SelectCandidate(order).txs)
        /\ UNCHANGED <<running, copies, pool, proposed, height>>
  BY DEF Decide
<1>2. S # {}
  <2> SUFFICES ASSUME S = {} PROVE FALSE
    OBVIOUS
  <2>1. Cardinality({}) = 0
    BY FS_EmptySet
  <2>2. 0 >= Enough
    BY <1>1, <2>1
  <2> QED BY <2>2, ProposalAssumption
<1>3. PICK order \in SetToSeqs(S) : chain' = Append(chain, SelectCandidate(order).txs)
  BY <1>1
<1> DEFINE blk == SelectCandidate(order)
           txs == blk.txs
<1>4. blk \in Candidates
  BY <1>2, SelectedIsBest DEF IInv
<1> HIDE DEF blk
<1>5. PICK n \in Validators : blk = proposed[n] /\ blk # None /\ height[n] = Len(chain)
  BY <1>4 DEF Candidates
<1>6. IsInjective(txs) /\ ToSet(txs) \cap Known(n) = {}
  BY <1>5 DEF IInv, ProposedIsNew
<1> DEFINE Txs == {list \in Seq(Tx) : Len(list) \in 1..Limit}
<1>7. txs \in Txs
  BY <1>5 DEF IInv, TypeOK, Candidate
<1>8. chain' = Append(chain, txs) /\ chain \in Seq(Txs) /\ Len(chain) \in Nat
  BY <1>3 DEF IInv, TypeOK, blk
<1> HIDE DEF txs, Txs
<1>9. /\ chain' \in Seq(Txs) /\ Len(chain') = Len(chain) + 1 /\ chain'[Len(chain) + 1] = txs
      /\ \A h \in 1..Len(chain) : chain'[h] = chain[h]
  BY <1>7, <1>8
<1>10. TypeOK'
  <2>1. height' \in [Validators -> 0..Len(chain')]
    BY <1>1, <1>8, <1>9 DEF IInv, TypeOK
  <2> QED BY <1>1, <1>9, <2>1 DEF IInv, TypeOK, Txs
<1>11. \A m \in Validators : Known(m)' = Known(m)
  BY <1>1, <1>9, KnownUnchanged DEF IInv, TypeOK
<1>12. ProposedIsNew'
  BY <1>1, <1>11 DEF IInv, ProposedIsNew
<1>13. Candidates' = {}
  <2>1. \A m \in Validators : height'[m] # Len(chain')
    BY <1>1, <1>8, <1>9 DEF IInv, TypeOK
  <2> QED BY <2>1 DEF Candidates
<1>14. HashesDiffer'
  BY <1>13 DEF HashesDiffer
<1>15. NoReplay'
  <2>1. \A h \in 1..Len(chain) : IsInjective(chain'[h]) /\ ToSet(chain'[h]) \cap ToSet(txs) = {}
    BY <1>5, <1>6, <1>9 DEF IInv, NoReplay, Known
  <2>2. \A h \in 1..(Len(chain) + 1) : h = Len(chain) + 1 \/ h \in 1..Len(chain)
    BY <1>8
  <2>3. \A h \in 1..Len(chain') : IsInjective(chain'[h])
    BY <1>6, <1>9, <2>1, <2>2
  <2>4. ASSUME NEW g \in 1..Len(chain'), NEW h \in 1..Len(chain'), g # h
        PROVE  ToSet(chain'[g]) \cap ToSet(chain'[h]) = {}
    <3>1. CASE g \in 1..Len(chain) /\ h \in 1..Len(chain)
      BY <1>9, <2>4, <3>1 DEF IInv, NoReplay
    <3>2. CASE g = Len(chain) + 1 /\ h \in 1..Len(chain)
      BY <1>9, <2>1, <3>2
    <3>3. CASE h = Len(chain) + 1 /\ g \in 1..Len(chain)
      BY <1>9, <2>1, <3>3
    <3> QED BY <1>9, <2>2, <2>4, <3>1, <3>2, <3>3
  <2> QED BY <2>3, <2>4 DEF NoReplay
<1> QED BY <1>10, <1>12, <1>14, <1>15 DEF IInv

LEMMA NextLemma == IInv /\ [Next]_vars => IInv'
<1> SUFFICES ASSUME IInv, [Next]_vars PROVE IInv'
  OBVIOUS
<1>1. ASSUME NEW n \in Validators, NEW tx \in Tx, Process(n, tx) \/ Miss(n, tx) PROVE IInv'
  BY <1>1, ProcessStep
<1>2. ASSUME NEW n \in Validators, MakeCandidate(n) PROVE IInv'
  BY <1>2, MakeCandidateStep
<1>3. ASSUME NEW n \in Validators, DeleteKnown(n) PROVE IInv'
  BY <1>3, DeleteKnownStep
<1>4. ASSUME NEW n \in Validators, Link(n) PROVE IInv'
  BY <1>4, LinkStep
<1>5. CASE Decide
  BY <1>5, DecideStep
<1>6. CASE UNCHANGED vars
  <2>1. Candidates' = Candidates /\ \A n \in Validators : Known(n)' = Known(n)
    BY <1>6 DEF vars, Candidates, Known
  <2>2. TypeOK' /\ HashesDiffer' /\ ProposedIsNew'
    BY <1>6, <2>1 DEF vars, IInv, TypeOK, HashesDiffer, ProposedIsNew
  <2>3. NoReplay'
    BY <1>6 DEF vars, IInv, NoReplay
  <2> QED BY <2>2, <2>3 DEF IInv
<1> QED BY <1>1, <1>2, <1>3, <1>4, <1>5, <1>6 DEF Next

-----------------------------------------------------------------------------
(***************************************************************************)
(* Theorems.                                                               *)
(***************************************************************************)

\* In every reachable state the candidates differ and are new to the chain.
THEOREM Invariance == Spec => []IInv
<1>1. Init => IInv
  BY InitLemma
<1>2. IInv /\ [Next]_vars => IInv'
  BY NextLemma
<1> QED BY <1>1, <1>2, PTL DEF Spec

\* The variables have their types: pools hold no transaction twice.
THEOREM TypeCorrect == Spec => []TypeOK
<1>1. IInv => TypeOK
  BY DEF IInv
<1> QED BY <1>1, Invariance, PTL

\* No transaction is executed twice, however often it is delivered and whoever wins.
THEOREM NoTransactionTwice == Spec => []NoReplay
<1>1. IInv => NoReplay
  BY DEF IInv
<1> QED BY <1>1, Invariance, PTL

\* The selected block does not depend on the order in which candidates arrived.
THEOREM OrderIsIrrelevant == Spec => []Orderless
<1>1. IInv => Orderless
  BY SelectedIsBest DEF IInv, Orderless
<1> QED BY <1>1, Invariance, PTL

\* Between two sets of candidates with the same first and last times, of which the
\* smaller contains the block selected from the larger, the choice is the same.
THEOREM LosersDecideNothing == Spec => []LosersAreIrrelevant
<1>1. IInv => LosersAreIrrelevant
  <2> DEFINE times(C) == {blk.time : blk \in C}
             selected(C) == SelectCandidate(SetToSeq(C))
  <2> SUFFICES ASSUME IInv, NEW T \in (SUBSET Candidates) \ {{}}, NEW S \in (SUBSET T) \ {{}},
                      Min(times(S)) = Min(times(T)), Max(times(S)) = Max(times(T)),
                      selected(T) \in S
               PROVE  selected(S) = selected(T)
    BY DEF LosersAreIrrelevant
  <2>1. TypeOK /\ HashesDiffer /\ S # {} /\ T # {} /\ S \in SUBSET Candidates
    BY DEF IInv
  <2>2. /\ IsFiniteSet(S) /\ IsFiniteSet(T)
        /\ S \in SUBSET Candidate
    BY <2>1, CandidatesFacts, FS_Subset
  <2>3. SetToSeq(S) \in SetToSeqs(S) /\ SetToSeq(T) \in SetToSeqs(T)
    BY <2>2, SetToSeqIsOrder
  <2>4. IsBest(selected(T), T) /\ selected(S) = Best(S)
    BY <2>1, <2>3, SelectedIsBest
  <2> HIDE DEF selected
  <2>5. Timely(S) = Timely(T) \cap S
    BY DEF Timely
  <2>6. IsBest(selected(T), S)
    BY <2>4, <2>5 DEF IsBest
  <2> QED BY <2>2, <2>4, <2>6, OneIsBest
<1> QED BY <1>1, Invariance, PTL

\* A transaction leaves a pool only if the node has linked it.
THEOREM PoolsKeepTheRest == Spec => OnlyLinkedLeaves
<1>1. IInv /\ [Next]_vars =>
        [\A n \in Validators : ToSet(pool[n]) \ ToSet(pool'[n]) \subseteq Known(n)']_vars
  <2> SUFFICES ASSUME IInv, Next, NEW n \in Validators
               PROVE  ToSet(pool[n]) \ ToSet(pool'[n]) \subseteq Known(n)'
    OBVIOUS
  <2>1. pool \in [Validators -> Seq(Tx)] /\ TypeOK
    BY DEF IInv, TypeOK
  <2>2. ASSUME pool'[n] = pool[n] PROVE ToSet(pool[n]) \ ToSet(pool'[n]) \subseteq Known(n)'
    BY <2>2
  <2>3. ASSUME NEW m \in Validators, NEW tx \in Tx, Process(m, tx)
        PROVE  ToSet(pool[n]) \ ToSet(pool'[n]) \subseteq Known(n)'
    <3>1. pool'[n] = pool[n] \/ pool'[n] = Append(pool[n], tx)
      BY <2>1, <2>3 DEF Process
    <3>2. ToSet(Append(pool[n], tx)) = ToSet(pool[n]) \cup {tx}
      BY <2>1, ToSetAppend
    <3> QED BY <3>1, <3>2
  <2>4. ASSUME NEW m \in Validators, NEW tx \in Tx, Miss(m, tx)
        PROVE  pool'[n] = pool[n]
    BY <2>4 DEF Miss
  <2>5. ASSUME NEW m \in Validators, MakeCandidate(m) PROVE pool'[n] = pool[n]
    BY <2>5 DEF MakeCandidate
  <2>6. ASSUME NEW m \in Validators, DeleteKnown(m)
        PROVE  ToSet(pool[n]) \ ToSet(pool'[n]) \subseteq Known(n)'
    <3>1. CASE m # n
      BY <2>1, <2>2, <2>6, <3>1 DEF DeleteKnown
    <3>2. CASE m = n
      <4>1. pool'[n] = DeleteKeys(pool[n], ToSet(GetList(n)))
        BY <2>1, <2>6, <3>2 DEF DeleteKnown
      <4>2. ToSet(pool'[n]) = ToSet(pool[n]) \ ToSet(GetList(n))
        BY <2>1, <4>1, DeleteKeysFacts
      <4>3. ToSet(Unknown(n, GetList(n))) = {}
        BY <2>6, <3>2 DEF DeleteKnown, ToSet
      <4>4. ToSet(GetList(n)) \subseteq Known(n)
        BY <2>1, <4>3, UnknownFacts
      <4>5. Known(n)' = Known(n)
        BY <2>6 DEF DeleteKnown, Known
      <4> QED BY <4>2, <4>4, <4>5
    <3> QED BY <3>1, <3>2
  <2>7. ASSUME NEW m \in Validators, Link(m)
        PROVE  ToSet(pool[n]) \ ToSet(pool'[n]) \subseteq Known(n)'
    <3>1. CASE m # n
      BY <2>1, <2>2, <2>7, <3>1 DEF Link
    <3>2. CASE m = n
      <4>1. /\ pool'[n] = DeleteKeys(pool[n], ToSet(chain[height'[n]]))
            /\ height'[n] = height[n] + 1 /\ chain' = chain /\ height[n] \in Nat
        BY <2>1, <2>7, <3>2 DEF Link, TypeOK
      <4>2. ToSet(pool'[n]) = ToSet(pool[n]) \ ToSet(chain[height'[n]])
        BY <2>1, <4>1, DeleteKeysFacts
      <4>3. ToSet(chain[height'[n]]) \subseteq Known(n)'
        <5>1. height'[n] \in 1..height'[n]
          BY <4>1
        <5> QED BY <4>1, <5>1 DEF Known
      <4> QED BY <4>2, <4>3
    <3> QED BY <3>1, <3>2
  <2>8. CASE Decide
    <3>1. pool' = pool
      BY <2>8 DEF Decide
    <3> QED BY <2>2, <3>1
  <2> QED BY <2>2, <2>3, <2>4, <2>5, <2>6, <2>7, <2>8 DEF Next
<1> QED BY <1>1, Invariance, PTL DEF Spec, OnlyLinkedLeaves

=============================================================================

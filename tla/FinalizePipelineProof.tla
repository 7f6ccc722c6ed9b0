------------------------ MODULE FinalizePipelineProof ------------------------
(***************************************************************************)
(* Theorems about FinalizePipeline, for any number of heights, branches    *)
(* and lost blocks.                                                        *)
(*                                                                         *)
(* The chain is a branch because get returns a block of the next height    *)
(* and finalize finds its predecessor, which by its height can only be the *)
(* top; and what the syncer brings is a path through published blocks.     *)
(***************************************************************************)
EXTENDS FinalizePipeline, WellFoundedInduction, TLAPS

\* What is in the list, in the queue or about to be linked was published.
HeldIsPublished ==
    /\ Stored(storage) \subseteq published /\ Stored(queue) \subseteq published
    /\ pending \in published \cup {NoBlock}

\* The block to be linked has the height above the chain.
PendingIsNext == pending # NoBlock => pending.height = Len(chain) + 1

\* Blocks are published on top of valid ones.
PublishedIsRooted == \A b \in published : Previous(b) \in (published \ Late) \cup {Genesis}

IInv ==
    TypeOK /\ ChainIsBranch /\ ReceivedIsKept /\ HeldIsPublished /\ PendingIsNext
    /\ PublishedIsRooted

-----------------------------------------------------------------------------
(***************************************************************************)
(* Blocks and lists of blocks.                                             *)
(***************************************************************************)

\* A non-empty set of natural numbers has a least element.
LEMMA Least ==
  ASSUME NEW T \in SUBSET Nat, T # {}
  PROVE  \E x \in T : \A y \in T : x <= y
<1>1. PICK x \in T : \A y \in T : ~(<<y, x>> \in OpToRel(<, Nat))
  BY WFMin, NatLessThanWellFounded
<1>2. \A y \in T : ~(y < x)
  BY <1>1 DEF OpToRel
<1> QED BY <1>2

LEMMA BlockFacts ==
  ASSUME NEW b \in Block
  PROVE  /\ b.height \in 1..MaxHeight /\ b.height \in Nat /\ b.height > 0
         /\ b.branch \in Branches
         /\ b.branch # Main => b.height >= ForkAt
         /\ b # NoBlock /\ b # Genesis
         /\ b = [height |-> b.height, branch |-> b.branch]
  BY NoBlockAssumption, HeightsAssumption DEF Block, Genesis

LEMMA StoredAppend ==
  ASSUME NEW q \in Seq(Block), NEW b \in Block
  PROVE  /\ Append(q, b) \in Seq(Block)
         /\ Stored(Append(q, b)) = Stored(q) \cup {b}
  BY DEF Stored

LEMMA StoredAreBlocks ==
  ASSUME NEW q \in Seq(Block)
  PROVE  Stored(q) \subseteq Block /\ NoBlock \notin Stored(q)
<1>1. Stored(q) \subseteq Block
  BY DEF Stored
<1> QED BY <1>1, NoBlockAssumption

LEMMA StoredTail ==
  ASSUME NEW q \in Seq(Block), q # <<>>
  PROVE  /\ Head(q) \in Block /\ Tail(q) \in Seq(Block)
         /\ Stored(q) = {Head(q)} \cup Stored(Tail(q))
<1>1. Head(q) = q[1] /\ Len(q) > 0 /\ Len(Tail(q)) = Len(q) - 1 /\ Tail(q) \in Seq(Block)
  OBVIOUS
<1>2. \A i \in 1..Len(Tail(q)) : Tail(q)[i] = q[i + 1]
  OBVIOUS
<1>3. Head(q) \in Block
  BY <1>1
<1>4. ASSUME NEW b \in Stored(q) PROVE b \in {Head(q)} \cup Stored(Tail(q))
  <2>1. PICK i \in 1..Len(q) : b = q[i]
    BY DEF Stored
  <2>2. CASE i = 1
    BY <1>1, <2>1, <2>2
  <2>3. CASE i # 1
    <3>1. i - 1 \in 1..Len(Tail(q)) /\ Tail(q)[i - 1] = q[i]
      BY <1>1, <1>2, <2>3
    <3> QED BY <2>1, <3>1 DEF Stored
  <2> QED BY <2>2, <2>3
<1>5. ASSUME NEW b \in {Head(q)} \cup Stored(Tail(q)) PROVE b \in Stored(q)
  <2>1. CASE b = Head(q)
    <3>1. 1 \in 1..Len(q)
      BY <1>1
    <3> QED BY <1>1, <2>1, <3>1 DEF Stored
  <2>2. CASE b \in Stored(Tail(q))
    <3>1. PICK i \in 1..Len(Tail(q)) : b = Tail(q)[i]
      BY <2>2 DEF Stored
    <3>2. i + 1 \in 1..Len(q) /\ b = q[i + 1]
      BY <1>1, <1>2, <3>1
    <3> QED BY <3>2 DEF Stored
  <2> QED BY <2>1, <2>2
<1> QED BY <1>1, <1>3, <1>4, <1>5

\* The recursion of Cleared: what is kept of the first i blocks.
Keep(q, h, kept, i) ==
    IF i = 0 THEN <<>>
    ELSE IF q[i].height > h THEN Append(kept[i - 1], q[i])
    ELSE kept[i - 1]

LEMMA KeptExists ==
  ASSUME NEW q \in Seq(Block), NEW h \in Int, NEW n \in 0..Len(q)
  PROVE  \E f : f = [i \in 0..n |-> Keep(q, h, f, i)]
<1> DEFINE Has(m) == \E f : f = [i \in 0..m |-> Keep(q, h, f, i)]
           T == {m \in Nat : m <= Len(q) /\ ~Has(m)}
<1> SUFFICES ASSUME T # {} PROVE FALSE
  OBVIOUS
<1>1. PICK m \in T : \A k \in T : m <= k
  BY Least
<1>2. m # 0
  <2> SUFFICES ASSUME m = 0 PROVE FALSE
    OBVIOUS
  <2> DEFINE f == [i \in 0..0 |-> <<>>]
  <2>1. \A i \in 0..0 : Keep(q, h, f, i) = <<>>
    BY DEF Keep
  <2>2. f = [i \in 0..0 |-> Keep(q, h, f, i)]
    BY <2>1
  <2> QED BY <2>2
<1>3. m - 1 \in Nat /\ m - 1 <= Len(q) /\ m - 1 \notin T
  BY <1>1, <1>2
<1>4. PICK f : f = [i \in 0..(m - 1) |-> Keep(q, h, f, i)]
  BY <1>3
<1> DEFINE g == [i \in 0..m |-> IF i < m THEN f[i] ELSE Keep(q, h, f, m)]
<1>5. ASSUME NEW i \in 0..m PROVE g[i] = Keep(q, h, g, i)
  <2>1. i > 0 => i - 1 \in 0..m /\ i - 1 < m /\ g[i - 1] = f[i - 1]
    OBVIOUS
  <2>2. Keep(q, h, g, i) = Keep(q, h, f, i)
    BY <2>1 DEF Keep
  <2>3. CASE i < m
    <3>1. i \in 0..(m - 1)
      BY <2>3
    <3>2. f[i] = Keep(q, h, f, i)
      BY <1>4, <3>1
    <3> QED BY <2>2, <2>3, <3>2
  <2>4. CASE i = m
    BY <2>2, <2>4
  <2> QED BY <2>3, <2>4
<1>6. g = [i \in 0..m |-> Keep(q, h, g, i)]
  BY <1>5
<1>7. Has(m)
  BY <1>6
<1> QED BY <1>1, <1>7

\* Cleared keeps the blocks above h and nothing else.
LEMMA ClearedFacts ==
  ASSUME NEW q \in Seq(Block), NEW h \in Int
  PROVE  /\ Cleared(q, h) \in Seq(Block)
         /\ Stored(Cleared(q, h)) = {b \in Stored(q) : b.height > h}
<1> DEFINE f == CHOOSE kept : kept = [i \in 0..Len(q) |-> Keep(q, h, kept, i)]
<1>1. Cleared(q, h) = f[Len(q)]
  BY DEF Cleared, Keep
<1>2. f = [i \in 0..Len(q) |-> Keep(q, h, f, i)]
  <2>1. Len(q) \in 0..Len(q)
    OBVIOUS
  <2>2. \E g : g = [i \in 0..Len(q) |-> Keep(q, h, g, i)]
    BY <2>1, KeptExists
  <2> QED BY <2>2
<1> HIDE DEF f
<1>3. \A i \in 0..Len(q) : f[i] = Keep(q, h, f, i)
  BY <1>2
<1> DEFINE Above(n) == {q[j] : j \in {k \in 1..n : q[k].height > h}}
           Fine(n) == f[n] \in Seq(Block) /\ Stored(f[n]) = Above(n)
           T == {n \in Nat : n <= Len(q) /\ ~Fine(n)}
<1>4. T = {}
  <2> SUFFICES ASSUME T # {} PROVE FALSE
    OBVIOUS
  <2>1. PICK m \in T : \A k \in T : m <= k
    BY Least
  <2>2. m # 0
    <3>1. f[0] = <<>>
      BY <1>3 DEF Keep
    <3>2. Above(0) = {} /\ Stored(<<>>) = {}
      BY DEF Stored
    <3>3. Fine(0)
      BY <3>1, <3>2
    <3> QED BY <2>1, <3>3
  <2>3. m \in Nat /\ m <= Len(q) /\ Len(q) \in Nat
    BY <2>1
  <2>4. m - 1 \in Nat /\ m - 1 <= Len(q) /\ m \in 1..Len(q) /\ ~(m <= m - 1)
    BY <2>2, <2>3
  <2>5. m - 1 \notin T
    BY <2>1, <2>4
  <2>6. f[m - 1] \in Seq(Block) /\ Stored(f[m - 1]) = Above(m - 1)
    BY <2>4, <2>5
  <2>7. f[m] = IF q[m].height > h THEN Append(f[m - 1], q[m]) ELSE f[m - 1]
    BY <1>3, <2>4 DEF Keep
  <2>8. q[m] \in Block
    BY <2>4
  <2>9. 1..m = 1..(m - 1) \cup {m}
    BY <2>4
  <2>10. CASE q[m].height > h
    <3>1. Above(m) = Above(m - 1) \cup {q[m]}
      BY <2>9, <2>10
    <3> QED BY <2>1, <2>6, <2>7, <2>8, <2>10, <3>1, StoredAppend
  <2>11. CASE ~(q[m].height > h)
    <3>1. Above(m) = Above(m - 1)
      BY <2>9, <2>11
    <3> QED BY <2>1, <2>6, <2>7, <2>11, <3>1
  <2> QED BY <2>10, <2>11
<1>5. Fine(Len(q))
  <2>1. Len(q) \in Nat /\ Len(q) <= Len(q)
    OBVIOUS
  <2> HIDE DEF Fine
  <2> QED BY <1>4, <2>1
<1>6. Above(Len(q)) = {b \in Stored(q) : b.height > h}
  BY DEF Stored
<1> QED BY <1>1, <1>5, <1>6

\* What get returns is of the height asked for, and only blocks of lower heights
\* are dropped, unless it raises FinalizeError.
LEMMA GetFacts ==
  ASSUME NEW q \in Seq(Block), NEW h \in Nat
  PROVE  LET got == Get(q, h) IN
         /\ got.raised \in {"nothing", "IndexError", "FinalizeError"}
         /\ got.rest \in Seq(Block) /\ Stored(got.rest) \subseteq Stored(q)
         /\ got.raised = "nothing" =>
              /\ got.blk \in Stored(q) /\ got.blk \in Block /\ got.blk.height = h
              /\ \A b \in Stored(q) : b.height >= h => b = got.blk \/ b \in Stored(got.rest)
         /\ got.raised = "IndexError" => \A b \in Stored(q) : b.height < h
<1> DEFINE stale == q # <<>> /\ Head(q).height < h
           newer == IF stale THEN Cleared(Tail(q), Head(q).height) ELSE q
           got == Get(q, h)
<1>1. newer \in Seq(Block) /\ Stored(newer) \subseteq Stored(q)
  <2>1. CASE stale
    <3>1. Head(q) \in Block /\ Tail(q) \in Seq(Block) /\ Stored(Tail(q)) \subseteq Stored(q)
      BY <2>1, StoredTail
    <3>2. Head(q).height \in Int
      BY <3>1, BlockFacts
    <3> QED BY <2>1, <3>1, <3>2, ClearedFacts
  <2> QED BY <2>1
<1>2. \A b \in Stored(q) : b.height >= h => b \in Stored(newer)
  <2>1. CASE stale
    <3>1. Head(q) \in Block /\ Tail(q) \in Seq(Block) /\ Stored(q) = {Head(q)} \cup Stored(Tail(q))
      BY <2>1, StoredTail
    <3>2. Head(q).height \in Int /\ Head(q).height < h
      BY <2>1, <3>1, BlockFacts
    <3>3. Stored(newer) = {b \in Stored(Tail(q)) : b.height > Head(q).height}
      BY <2>1, <3>1, <3>2, ClearedFacts
    <3>4. \A b \in Stored(q) : b \in Block
      BY DEF Stored
    <3>5. \A b \in Stored(q) : b.height \in Int
      BY <3>4, BlockFacts
    <3> QED BY <3>1, <3>2, <3>3, <3>5
  <2> QED BY <2>1
<1>3. got = IF newer = <<>> THEN [blk |-> NoBlock, rest |-> <<>>, raised |-> "IndexError"]
            ELSE Outcome(newer, h)
  BY DEF Get
<1> HIDE DEF newer, got
<1>4. CASE newer = <<>>
  <2>1. Stored(newer) = {} /\ Stored(<<>>) = {}
    BY <1>4 DEF Stored
  <2>2. \A b \in Stored(q) : b \in Block
    BY DEF Stored
  <2>3. \A b \in Stored(q) : b.height < h
    BY <1>2, <2>1, <2>2, BlockFacts
  <2>4. got.raised = "IndexError" /\ got.rest = <<>>
    BY <1>3, <1>4
  <2> QED BY <2>1, <2>3, <2>4 DEF got
<1>5. CASE newer # <<>>
  <2>1. /\ got.blk = Head(newer) /\ got.rest = Tail(newer)
        /\ got.raised = IF Head(newer).height = h THEN "nothing" ELSE "FinalizeError"
    BY <1>3, <1>5 DEF Outcome
  <2>2. /\ Head(newer) \in Block /\ Tail(newer) \in Seq(Block)
        /\ Stored(newer) = {Head(newer)} \cup Stored(Tail(newer))
    BY <1>1, <1>5, StoredTail
  <2> QED BY <1>1, <1>2, <2>1, <2>2 DEF got
<1> QED BY <1>4, <1>5

\* Paths are chains of blocks.
LEMMA PathFacts ==
  ASSUME NEW b \in Block
  PROVE  /\ PathTo(b) \in Seq(Block) /\ Len(PathTo(b)) = b.height
         /\ PathTo(b)[b.height] = b
         /\ \A i \in 1..b.height :
              /\ PathTo(b)[i].height = i
              /\ Previous(PathTo(b)[i]) = IF i = 1 THEN Genesis ELSE PathTo(b)[i - 1]
<1> DEFINE path == PathTo(b)
           At(i) == [height |-> i, branch |-> IF i < ForkAt THEN Main ELSE b.branch]
<1>1. b.height \in Nat /\ b.height \in 1..MaxHeight /\ b.branch \in Branches
      /\ (b.branch # Main => b.height >= ForkAt)
      /\ b = [height |-> b.height, branch |-> b.branch]
  BY BlockFacts
<1>2. path = [i \in 1..b.height |-> At(i)]
  BY DEF PathTo
<1>3. \A i \in 1..b.height : At(i) \in Block
  BY <1>1, HeightsAssumption, MainAssumption DEF Block
<1>4. \A i \in 1..b.height : path[i] = At(i)
  BY <1>2
<1>5. path \in Seq(Block) /\ Len(path) = b.height
  <2> HIDE DEF At, path
  <2>1. path \in [1..b.height -> Block]
    BY <1>2, <1>3
  <2> QED BY <1>1, <2>1
<1>6. path[b.height] = b
  <2>1. b.height \in 1..b.height
    BY <1>1, HeightsAssumption
  <2>2. At(b.height) = b
    BY <1>1, HeightsAssumption
  <2> QED BY <1>4, <2>1, <2>2
<1>7. ASSUME NEW i \in 1..b.height
      PROVE  path[i].height = i /\ Previous(path[i]) = IF i = 1 THEN Genesis ELSE path[i - 1]
  <2>1. path[i] = At(i) /\ path[i].height = i
    BY <1>4
  <2>2. CASE i = 1
    BY <2>1, <2>2 DEF Previous
  <2>3. CASE i # 1
    <3>1. i - 1 \in 1..b.height /\ i - 1 \in Int
      BY <1>1, <2>3
    <3>2. path[i - 1] = At(i - 1)
      BY <1>4, <3>1
    <3>3. Previous(At(i)) = At(i - 1)
      <4>1. Previous(At(i)) = [height |-> i - 1, branch |-> IF i <= ForkAt THEN Main ELSE At(i).branch]
        BY <2>3 DEF Previous
      <4>2. (IF i <= ForkAt THEN Main ELSE At(i).branch) = IF i - 1 < ForkAt THEN Main ELSE b.branch
        BY <1>1, <3>1, HeightsAssumption
      <4> QED BY <4>1, <4>2
    <3> QED BY <2>1, <2>3, <3>2, <3>3
  <2> QED BY <2>2, <2>3
<1> QED BY <1>5, <1>6, <1>7

\* The path to a valid published block goes through valid published blocks.
LEMMA PathIsValid ==
  ASSUME PublishedIsRooted, published \subseteq Block, NEW b \in Valid
  PROVE  \A i \in 1..b.height : PathTo(b)[i] \in published \ Late
<1> DEFINE path == PathTo(b)
           T == {k \in Nat : k < b.height /\ path[b.height - k] \notin published \ Late}
<1>1. b \in Block /\ b \in published \ Late
  BY DEF Valid
<1>2. b.height \in Nat
  BY <1>1, BlockFacts
<1>3. /\ path \in Seq(Block) /\ Len(path) = b.height /\ path[b.height] = b
      /\ \A i \in 1..b.height : Previous(path[i]) = IF i = 1 THEN Genesis ELSE path[i - 1]
  BY <1>1, PathFacts
<1> HIDE DEF path
<1>4. T = {}
  <2> SUFFICES ASSUME T # {} PROVE FALSE
    OBVIOUS
  <2>1. PICK k \in T : \A m \in T : k <= m
    BY Least
  <2>2. k \in Nat /\ k < b.height /\ path[b.height - k] \notin published \ Late
    BY <2>1
  <2>3. k # 0
    <3>1. k = 0 => path[b.height - k] = b
      BY <1>2, <1>3
    <3> QED BY <1>1, <2>2, <3>1
  <2>4. k - 1 \in Nat /\ k - 1 < b.height /\ ~(k <= k - 1)
    BY <1>2, <2>2, <2>3
  <2>5. k - 1 \notin T
    BY <2>1, <2>4
  <2>6. path[b.height - (k - 1)] \in published \ Late
    BY <2>4, <2>5
  <2> DEFINE i == b.height - (k - 1)
  <2>7. i \in 1..b.height /\ i # 1 /\ i - 1 = b.height - k /\ i - 1 \in 1..Len(path)
    BY <1>2, <1>3, <2>2, <2>3
  <2>8. Previous(path[i]) = path[b.height - k]
    BY <1>3, <2>7
  <2>9. path[b.height - k] \in Block
    BY <1>3, <2>7
  <2>10. path[b.height - k] # Genesis
    BY <2>9, BlockFacts
  <2>11. Previous(path[i]) \in (published \ Late) \cup {Genesis}
    BY <2>6 DEF PublishedIsRooted
  <2> QED BY <2>2, <2>8, <2>10, <2>11
<1>5. ASSUME NEW i \in 1..b.height PROVE path[i] \in published \ Late
  <2>1. b.height - i \in Nat /\ b.height - i < b.height /\ b.height - (b.height - i) = i
    BY <1>2
  <2>2. b.height - i \notin T
    BY <1>4
  <2> QED BY <2>1, <2>2
<1> QED BY <1>5 DEF path

\* So it is a chain the node may have.
LEMMA PathIsBranch ==
  ASSUME PublishedIsRooted, published \subseteq Block, NEW b \in Valid, NEW c, c = PathTo(b)
  PROVE  /\ c \in Seq(Block)
         /\ \A i \in 1..Len(c) :
              /\ c[i] \in published \ Late
              /\ c[i].height = i
              /\ Previous(c[i]) = IF i = 1 THEN Genesis ELSE c[i - 1]
<1>1. b \in Block
  BY DEF Valid
<1>2. /\ c \in Seq(Block) /\ Len(c) = b.height
      /\ \A i \in 1..b.height :
           c[i].height = i /\ Previous(c[i]) = IF i = 1 THEN Genesis ELSE c[i - 1]
  BY <1>1, PathFacts
<1>3. \A i \in 1..b.height : c[i] \in published \ Late
  BY PathIsValid
<1> QED BY <1>2, <1>3

LEMMA ExtendsFacts ==
  ASSUME NEW c \in Seq(Block), NEW d \in Seq(Block)
  PROVE  Extends(c, d) <=> Len(c) <= Len(d) /\ \A i \in 1..Len(c) : d[i] = c[i]
<1>1. ASSUME Len(c) <= Len(d)
      PROVE  /\ SubSeq(d, 1, Len(c)) \in Seq(Block) /\ Len(SubSeq(d, 1, Len(c))) = Len(c)
             /\ \A i \in 1..Len(c) : SubSeq(d, 1, Len(c))[i] = d[i]
  BY <1>1
<1>2. ASSUME Len(c) <= Len(d), \A i \in 1..Len(c) : d[i] = c[i] PROVE SubSeq(d, 1, Len(c)) = c
  BY <1>1, <1>2
<1> QED BY <1>1, <1>2 DEF Extends

LEMMA ExtendsIsTransitive ==
  ASSUME NEW c \in Seq(Block), NEW d \in Seq(Block), NEW e \in Seq(Block),
         Extends(c, d), Extends(d, e)
  PROVE  Extends(c, e)
<1>1. Len(c) <= Len(d) /\ Len(d) <= Len(e)
      /\ (\A i \in 1..Len(c) : d[i] = c[i]) /\ (\A i \in 1..Len(d) : e[i] = d[i])
  BY ExtendsFacts
<1>2. Len(c) <= Len(e) /\ \A i \in 1..Len(c) : e[i] = c[i]
  BY <1>1
<1> QED BY <1>2, ExtendsFacts

-----------------------------------------------------------------------------
(***************************************************************************)
(* The steps.                                                              *)
(***************************************************************************)

LEMMA InitLemma == Init => IInv
<1> SUFFICES ASSUME Init PROVE IInv
  OBVIOUS
<1>1. PublishedIsRooted /\ published \subseteq Block
  BY DEF Init, PublishedIsRooted
<1>2. chain \in Seq(Block) /\ ChainIsBranch
  <2>1. CASE chain = <<>>
    BY <2>1 DEF ChainIsBranch
  <2>2. CASE chain # <<>>
    <3>1. PICK b \in Valid : chain = PathTo(b)
      BY <2>2 DEF Init
    <3>2. b \in Block
      BY <1>1, <3>1 DEF Valid
    <3> QED BY <1>1, <3>1, <3>2, PathIsBranch DEF ChainIsBranch
  <2> QED BY <2>1, <2>2
<1>3. TypeOK
  <2>1. storage \in Seq(Block) /\ queue \in Seq(Block) /\ lost \in 0..MaxLost
    BY BoundAssumption DEF Init
  <2>2. /\ role \in {"validator", "subscriber"} /\ pc = "sync" /\ catchingUp \in BOOLEAN
        /\ pending = NoBlock /\ bound \in BOOLEAN /\ received = {}
        /\ overtaken \in BOOLEAN /\ unrewarded \in BOOLEAN
    BY DEF Init
  <2> QED BY <1>1, <1>2, <2>1, <2>2 DEF TypeOK, PC
<1>4. HeldIsPublished /\ PendingIsNext /\ ReceivedIsKept
  BY DEF Init, HeldIsPublished, PendingIsNext, ReceivedIsKept, Stored
<1> QED BY <1>1, <1>2, <1>3, <1>4 DEF IInv

\* The blocks a list was shortened to, where chain and history stay.
LEMMA TakeStep ==
  ASSUME IInv, pc \in {"consensus", "finalize", "accumulate"}, catchingUp' \in BOOLEAN,
         NEW indexError \in PC \ {"link"}, NEW finalizeError \in {"sync", "halted"},
         Take(indexError, finalizeError)
  PROVE  IInv'
<1> DEFINE h == Len(chain) + 1
           got == Get(storage, h)
<1>1. h \in Nat /\ storage \in Seq(Block) /\ pending = NoBlock
  BY DEF IInv, TypeOK
<1>2. /\ got.raised \in {"nothing", "IndexError", "FinalizeError"}
      /\ got.rest \in Seq(Block) /\ Stored(got.rest) \subseteq Stored(storage)
      /\ got.raised = "nothing" =>
           /\ got.blk \in Stored(storage) /\ got.blk \in Block /\ got.blk.height = h
           /\ \A b \in Stored(storage) : b.height >= h => b = got.blk \/ b \in Stored(got.rest)
      /\ got.raised = "IndexError" => \A b \in Stored(storage) : b.height < h
  BY <1>1, GetFacts
<1>3. /\ storage' = got.rest
      /\ pending' = IF got.raised = "nothing" THEN got.blk ELSE NoBlock
      /\ pc' = IF got.raised = "nothing" THEN "link"
               ELSE IF got.raised = "IndexError" THEN indexError ELSE finalizeError
      /\ UNCHANGED <<role, chain, broker, history>>
  BY DEF Take
<1> HIDE DEF got
<1>4. /\ pc' \in PC
      /\ pc' = "link" <=> got.raised = "nothing"
      /\ got.raised = "FinalizeError" => pc' \in {"sync", "halted"}
  BY <1>2, <1>3 DEF PC
<1>5. TypeOK'
  <2>1. pc' = "link" <=> pending' # NoBlock
    BY <1>2, <1>3, <1>4, NoBlockAssumption
  <2> QED BY <1>2, <1>3, <1>4, <2>1 DEF IInv, TypeOK, broker, history
<1>6. ChainIsBranch' /\ PublishedIsRooted'
  BY <1>3 DEF IInv, ChainIsBranch, PublishedIsRooted, broker
<1>7. HeldIsPublished' /\ PendingIsNext'
  BY <1>2, <1>3 DEF IInv, HeldIsPublished, PendingIsNext, broker
<1>8. ReceivedIsKept'
  <2> SUFFICES ASSUME NEW b \in received \ Late, Extends(chain, PathTo(b))
               PROVE  b.height <= Len(chain) \/ b \in Stored(storage') \cup {pending'}
                      \/ pc' \in {"sync", "halted"}
    BY <1>3 DEF ReceivedIsKept, Extends, history
  <2>1. b \in Block /\ b.height \in Nat
    BY BlockFacts DEF IInv, TypeOK
  <2>2. b.height <= Len(chain) \/ b \in Stored(storage)
    BY <1>1, <2>1, BlockFacts DEF IInv, ReceivedIsKept
  <2>3. b.height <= Len(chain) \/ b.height >= h
    BY <1>1, <2>1
  <2> QED BY <1>1, <1>2, <1>3, <1>4, <2>1, <2>2, <2>3
<1> QED BY <1>5, <1>6, <1>7, <1>8 DEF IInv

\* The block that get returned has its predecessor at the top of the chain.
LEMMA LinkStep == ASSUME IInv, Link PROVE IInv'
<1>1. /\ chain \in Seq(Block) /\ storage \in Seq(Block) /\ pending \in Block
      /\ pending \in published \ Late /\ pending.height = Len(chain) + 1
      /\ pending.height \in Nat /\ Len(chain) \in Nat
  BY BlockFacts DEF IInv, TypeOK, Link, HeldIsPublished, PendingIsNext
<1>2. /\ chain' = Append(chain, pending) /\ storage' = Cleared(storage, pending.height)
      /\ pending' = NoBlock /\ pc' \in PC \ {"link"} /\ catchingUp' = catchingUp
      /\ UNCHANGED <<role, broker, history>>
  BY DEF Link, PC, Loop
<1>3. /\ storage' \in Seq(Block)
      /\ Stored(storage') = {b \in Stored(storage) : b.height > pending.height}
  <2>1. pending.height \in Int
    BY <1>1
  <2>2. /\ Cleared(storage, pending.height) \in Seq(Block)
        /\ Stored(Cleared(storage, pending.height))
             = {b \in Stored(storage) : b.height > pending.height}
    BY <1>1, <2>1, ClearedFacts
  <2> QED BY <1>2, <2>2
<1>4. /\ chain' \in Seq(Block) /\ Len(chain') = Len(chain) + 1
      /\ chain'[Len(chain) + 1] = pending /\ \A i \in 1..Len(chain) : chain'[i] = chain[i]
  BY <1>1, <1>2
<1>5. TypeOK'
  BY <1>2, <1>3, <1>4 DEF IInv, TypeOK, broker, history
<1>6. Previous(pending) = IF Len(chain) = 0 THEN Genesis ELSE chain[Len(chain)]
  <2>1. Previous(pending).height = Len(chain)
    BY <1>1 DEF Previous, Genesis
  <2>2. Previous(pending) \in Linked \cup {Genesis}
    BY DEF Link, Known
  <2>3. CASE Previous(pending) = Genesis
    BY <2>1, <2>3 DEF Genesis
  <2>4. CASE Previous(pending) \in Linked
    <3>1. PICK i \in 1..Len(chain) : Previous(pending) = chain[i]
      BY <2>4 DEF Linked
    <3>2. chain[i].height = i
      BY <3>1 DEF IInv, ChainIsBranch
    <3>3. i = Len(chain) /\ Len(chain) # 0
      BY <1>1, <2>1, <3>1, <3>2
    <3> QED BY <3>1, <3>3
  <2> QED BY <2>2, <2>3, <2>4
<1>7. ChainIsBranch'
  <2> SUFFICES ASSUME NEW i \in 1..Len(chain')
               PROVE  /\ chain'[i] \in published \ Late /\ chain'[i].height = i
                      /\ Previous(chain'[i]) = IF i = 1 THEN Genesis ELSE chain'[i - 1]
    BY <1>2 DEF ChainIsBranch, broker
  <2>1. CASE i = Len(chain) + 1
    <3>1. chain'[i] = pending
      BY <1>4, <2>1
    <3>2. CASE Len(chain) = 0
      BY <1>1, <1>6, <2>1, <3>1, <3>2
    <3>3. CASE Len(chain) # 0
      <4>1. i # 1 /\ i - 1 = Len(chain) /\ Len(chain) \in 1..Len(chain)
        BY <1>1, <2>1, <3>3
      <4>2. chain'[i - 1] = chain[Len(chain)]
        BY <1>4, <4>1
      <4> QED BY <1>1, <1>6, <2>1, <3>1, <3>3, <4>1, <4>2
    <3> QED BY <3>2, <3>3
  <2>2. CASE i # Len(chain) + 1
    <3>1. i \in 1..Len(chain) /\ (i # 1 => i - 1 \in 1..Len(chain))
      BY <1>1, <1>4, <2>2
    <3>2. /\ chain[i] \in published \ Late /\ chain[i].height = i
          /\ Previous(chain[i]) = IF i = 1 THEN Genesis ELSE chain[i - 1]
      BY <3>1 DEF IInv, ChainIsBranch
    <3> QED BY <1>4, <3>1, <3>2
  <2> QED BY <2>1, <2>2
<1>8. PublishedIsRooted' /\ HeldIsPublished' /\ PendingIsNext'
  BY <1>2, <1>3 DEF IInv, PublishedIsRooted, HeldIsPublished, PendingIsNext, broker
<1>9. ReceivedIsKept'
  <2> SUFFICES ASSUME NEW b \in received \ Late, Extends(chain', PathTo(b))
               PROVE  b.height <= Len(chain') \/ b \in Stored(storage')
    BY <1>2 DEF ReceivedIsKept, Extends, history
  <2>1. b \in Block /\ b.height \in Nat /\ PathTo(b) \in Seq(Block)
    BY BlockFacts, PathFacts DEF IInv, TypeOK
  <2>2. Extends(chain, chain')
    BY <1>1, <1>4, ExtendsFacts
  <2>3. Extends(chain, PathTo(b))
    BY <1>1, <1>4, <2>1, <2>2, ExtendsIsTransitive
  <2>4. pc = "link"
    BY DEF Link
  <2>5. b.height <= Len(chain) \/ b \in Stored(storage) \/ b = pending
    BY <2>3, <2>4 DEF IInv, ReceivedIsKept
  <2> QED BY <1>1, <1>3, <1>4, <2>1, <2>5
<1> QED BY <1>5, <1>7, <1>8, <1>9 DEF IInv

\* The syncer brings a path through valid blocks, as long as any of them.
LEMMA SyncerStep == ASSUME IInv, SyncerRun PROVE IInv'
<1>1. /\ pc = "sync" /\ pending = NoBlock /\ chain \in Seq(Block) /\ storage \in Seq(Block)
      /\ published \subseteq Block /\ PublishedIsRooted
  BY DEF IInv, TypeOK, SyncerRun
<1>2. /\ chain' \in Furthest(chain)
      /\ storage' \in {storage, Cleared(storage, Len(chain'))}
      /\ pc' \in PC \ {"link"} /\ overtaken' \in BOOLEAN
      /\ UNCHANGED <<role, catchingUp, pending, broker, received, unrewarded>>
  BY DEF SyncerRun, Loop, PC, IInv, TypeOK
<1>3. chain' \in Ahead(chain) /\ Extends(chain, chain')
  BY <1>2 DEF Furthest, Ahead
<1>4. chain' \in Seq(Block) /\ ChainIsBranch'
  <2>1. CASE chain' = chain
    BY <1>1, <1>2, <2>1 DEF IInv, ChainIsBranch, broker
  <2>2. CASE chain' # chain
    <3>1. PICK b \in Valid : chain' = PathTo(b)
      BY <1>3, <2>2 DEF Ahead
    <3>2. b \in Block
      BY <1>1, <3>1 DEF Valid
    <3>3. published' = published
      BY <1>2 DEF broker
    <3> QED BY <1>1, <3>1, <3>2, <3>3, PathIsBranch DEF ChainIsBranch
  <2> QED BY <2>1, <2>2
<1>5. storage' \in Seq(Block) /\ Stored(storage') \subseteq Stored(storage)
  <2>1. Len(chain') \in Int
    BY <1>4
  <2>2. /\ Cleared(storage, Len(chain')) \in Seq(Block)
        /\ Stored(Cleared(storage, Len(chain'))) = {b \in Stored(storage) : b.height > Len(chain')}
    BY <1>1, <2>1, ClearedFacts
  <2> QED BY <1>1, <1>2, <2>2
<1>6. TypeOK' /\ HeldIsPublished' /\ PendingIsNext' /\ PublishedIsRooted'
  BY <1>1, <1>2, <1>4, <1>5
  DEF IInv, TypeOK, HeldIsPublished, PendingIsNext, PublishedIsRooted, broker
<1>7. ReceivedIsKept'
  <2> SUFFICES ASSUME NEW b \in received \ Late, Extends(chain', PathTo(b))
               PROVE  b.height <= Len(chain')
    BY <1>2 DEF ReceivedIsKept, Extends
  <2>1. b \in Block /\ b \in Valid
    BY DEF IInv, TypeOK, Valid
  <2>2. PathTo(b) \in Seq(Block) /\ Len(PathTo(b)) = b.height
    BY <2>1, PathFacts
  <2>3. Extends(chain, PathTo(b))
    BY <1>1, <1>3, <1>4, <2>2, ExtendsIsTransitive
  <2>4. PathTo(b) \in Ahead(chain)
    BY <2>1, <2>3 DEF Ahead
  <2> QED BY <1>2, <2>2, <2>4 DEF Furthest
<1> QED BY <1>4, <1>6, <1>7 DEF IInv

LEMMA FailStep == ASSUME IInv, FinalizeFails PROVE IInv'
<1>1. /\ pc = "link" /\ pending' = NoBlock
      /\ pc' \in {"accumulate", "halted"}
      /\ pending \notin Late => pc' = "halted"
      /\ UNCHANGED <<role, catchingUp, chain, storage, broker, history>>
  BY DEF FinalizeFails
<1>2. TypeOK'
  BY <1>1 DEF IInv, TypeOK, PC, broker, history
<1>3. ChainIsBranch' /\ HeldIsPublished' /\ PendingIsNext' /\ PublishedIsRooted'
  BY <1>1 DEF IInv, ChainIsBranch, HeldIsPublished, PendingIsNext, PublishedIsRooted, broker
<1>4. ReceivedIsKept'
  BY <1>1 DEF IInv, ReceivedIsKept, Extends, history
<1> QED BY <1>2, <1>3, <1>4 DEF IInv

\* The steps that only move the task along.
LEMMA MoveStep ==
  ASSUME IInv, TransactionExists \/ RoundSucceeds \/ RoundRaises \/ FinalizeManyExist
  PROVE  IInv'
<1>1. /\ pc \in {"transaction", "consensus", "finalize"}
      /\ pc' \in PC \ {"link"} /\ catchingUp' \in BOOLEAN /\ unrewarded' \in BOOLEAN
      /\ UNCHANGED <<role, chain, pending, storage, broker, received, overtaken>>
  BY DEF TransactionExists, RoundSucceeds, RoundRaises, FinalizeManyExist, PC, IInv, TypeOK,
         history
<1>2. TypeOK'
  BY <1>1 DEF IInv, TypeOK, broker
<1>3. ChainIsBranch' /\ HeldIsPublished' /\ PendingIsNext' /\ PublishedIsRooted'
  BY <1>1 DEF IInv, ChainIsBranch, HeldIsPublished, PendingIsNext, PublishedIsRooted, broker
<1>4. ReceivedIsKept'
  BY <1>1 DEF IInv, ReceivedIsKept, Extends
<1> QED BY <1>2, <1>3, <1>4 DEF IInv

LEMMA ReceiveStep == ASSUME IInv, ProcessEvent PROVE IInv'
<1>1. /\ queue \in Seq(Block) /\ queue # <<>> /\ storage \in Seq(Block)
      /\ storage' = Append(storage, Head(queue)) /\ queue' = Tail(queue)
      /\ received' = received \cup {Head(queue)}
      /\ UNCHANGED <<role, task, chain, bound, published, overtaken, unrewarded, lost>>
  BY DEF IInv, TypeOK, ProcessEvent
<1>2. /\ Head(queue) \in Block /\ Tail(queue) \in Seq(Block)
      /\ Stored(queue) = {Head(queue)} \cup Stored(Tail(queue))
  BY <1>1, StoredTail
<1>3. storage' \in Seq(Block) /\ Stored(storage') = Stored(storage) \cup {Head(queue)}
  BY <1>1, <1>2, StoredAppend
<1>4. Head(queue) \in published
  BY <1>2 DEF IInv, HeldIsPublished
<1>5. TypeOK'
  BY <1>1, <1>2, <1>3, <1>4 DEF IInv, TypeOK, task
<1>6. ChainIsBranch' /\ PendingIsNext' /\ PublishedIsRooted'
  BY <1>1 DEF IInv, ChainIsBranch, PendingIsNext, PublishedIsRooted, task
<1>7. HeldIsPublished'
  BY <1>1, <1>2, <1>3, <1>4 DEF IInv, HeldIsPublished, task
<1>8. ReceivedIsKept'
  BY <1>1, <1>3 DEF IInv, ReceivedIsKept, Extends, task
<1> QED BY <1>5, <1>6, <1>7, <1>8 DEF IInv

LEMMA PublishStep == ASSUME IInv, NEW b \in Block, Publish(b) PROVE IInv'
<1>1. /\ published' = published \cup {b}
      /\ queue' = IF bound THEN Append(queue, b) ELSE queue
      /\ Previous(b) \in (published \ Late) \cup {Genesis}
      /\ UNCHANGED <<role, task, chain, storage, bound, lost, history>>
  BY DEF Publish
<1>2. queue' \in Seq(Block) /\ Stored(queue') \subseteq Stored(queue) \cup {b}
  BY <1>1, StoredAppend DEF IInv, TypeOK
<1>3. TypeOK'
  BY <1>1, <1>2 DEF IInv, TypeOK, task, history
<1>4. ChainIsBranch' /\ PendingIsNext'
  BY <1>1 DEF IInv, ChainIsBranch, PendingIsNext, task
<1>5. PublishedIsRooted'
  BY <1>1 DEF IInv, PublishedIsRooted
<1>6. HeldIsPublished'
  BY <1>1, <1>2 DEF IInv, HeldIsPublished, task
<1>7. ReceivedIsKept'
  BY <1>1 DEF IInv, ReceivedIsKept, Extends, task, history
<1> QED BY <1>3, <1>4, <1>5, <1>6, <1>7 DEF IInv

LEMMA BrokerStep == ASSUME IInv, EventRun \/ Lose \/ UNCHANGED vars PROVE IInv'
<1>1. /\ UNCHANGED <<role, pc, catchingUp, pending, chain, storage, published, received>>
      /\ UNCHANGED <<overtaken, unrewarded>>
      /\ bound' \in BOOLEAN
      /\ queue' \in Seq(Block) /\ Stored(queue') \subseteq Stored(queue)
      /\ lost' \in 0..MaxLost
  <2>1. CASE EventRun \/ UNCHANGED vars
    BY <2>1 DEF EventRun, vars, task, broker, history, IInv, TypeOK
  <2>2. CASE Lose
    <3>1. queue \in Seq(Block) /\ queue # <<>> /\ queue' = Tail(queue)
      BY <2>2 DEF Lose, IInv, TypeOK
    <3>2. lost' \in 0..MaxLost
      BY <2>2, BoundAssumption DEF Lose, IInv, TypeOK
    <3> QED BY <2>2, <3>1, <3>2, StoredTail DEF Lose, task, history, IInv, TypeOK
  <2> QED BY <2>1, <2>2
<1>2. TypeOK'
  BY <1>1 DEF IInv, TypeOK
<1>3. ChainIsBranch' /\ HeldIsPublished' /\ PendingIsNext' /\ PublishedIsRooted'
  BY <1>1 DEF IInv, ChainIsBranch, HeldIsPublished, PendingIsNext, PublishedIsRooted
<1>4. ReceivedIsKept'
  BY <1>1 DEF IInv, ReceivedIsKept, Extends
<1> QED BY <1>2, <1>3, <1>4 DEF IInv

-----------------------------------------------------------------------------
(***************************************************************************)
(* The theorems.                                                           *)
(***************************************************************************)

\* The invariant holds in every state of the loops of Validator and Subscriber.
THEOREM Invariance == Spec => []IInv
<1>1. Init => IInv
  BY InitLemma
<1>2. IInv /\ [Next]_vars => IInv'
  <2> SUFFICES ASSUME IInv, [Next]_vars PROVE IInv'
    OBVIOUS
  <2>1. CASE RoundFails
    <3>1. pc = "consensus" /\ Take("consensus", "sync") /\ catchingUp' \in BOOLEAN
      BY <2>1 DEF RoundFails, IInv, TypeOK
    <3> QED BY <3>1, TakeStep DEF PC
  <2>2. CASE FinalizeExists
    <3>1. pc = "finalize" /\ Take("halted", "sync") /\ catchingUp' \in BOOLEAN
      BY <2>2 DEF FinalizeExists, IInv, TypeOK
    <3> QED BY <3>1, TakeStep DEF PC
  <2>3. CASE Accumulate
    <3>1. pc = "accumulate" /\ Take(Loop, "halted") /\ catchingUp' \in BOOLEAN
      BY <2>3 DEF Accumulate
    <3>2. Loop \in PC \ {"link"}
      BY DEF Loop, PC
    <3> QED BY <3>1, <3>2, TakeStep
  <2>4. CASE \E b \in Block : Publish(b)
    BY <2>4, PublishStep
  <2>5. CASE TransactionExists \/ RoundSucceeds \/ RoundRaises \/ FinalizeManyExist
    BY <2>5, MoveStep
  <2>6. CASE EventRun \/ Lose \/ UNCHANGED vars
    BY <2>6, BrokerStep
  <2>7. CASE Link \/ FinalizeFails \/ SyncerRun \/ ProcessEvent
    BY <2>7, LinkStep, FailStep, SyncerStep, ReceiveStep
  <2> QED BY <2>1, <2>2, <2>3, <2>4, <2>5, <2>6, <2>7 DEF Next, Task
<1>3. IInv => TypeOK
  BY DEF IInv
<1> QED BY <1>1, <1>2, PTL DEF Spec

\* Type correctness of FinalizePipeline.
THEOREM TypeCorrect == Spec => []TypeOK
BY Invariance, PTL DEF IInv

\* What finalize links, in whatever batches FinalizeManager.get returns it, and
\* what the syncer brings is one branch of valid published blocks.
THEOREM LinksOneBranch == Spec => []ChainIsBranch
BY Invariance, PTL DEF IInv

\* FinalizeManager.get, clear and the handlers drop no block that can still be
\* linked, unless the syncer is asked or the task ends.
THEOREM NothingIsDropped == Spec => []ReceivedIsKept
BY Invariance, PTL DEF IInv

-----------------------------------------------------------------------------
(***************************************************************************)
(* As long as nothing is wrong, the blocks come in order.                  *)
(***************************************************************************)

\* What does not go away; a missed block does, when the syncer brings it.
Foul == Forked \/ published \cap Late # {} \/ overtaken \/ unrewarded

Distinct(q) == \A i, j \in 1..Len(q) : q[i] = q[j] => i = j

\* Every block is in one place only, and none below the top of the chain is still to come.
Fresh ==
    /\ Distinct(storage) /\ Distinct(queue) /\ Stored(storage) \cap Stored(queue) = {}
    /\ pending \notin Stored(storage) \cup Stored(queue)
    /\ \A b \in Stored(storage) \cup Stored(queue) : b.height > Len(chain)
    /\ Stored(storage) \subseteq received /\ pending \in received \cup {NoBlock}

\* The blocks of q have the heights that follow h.
Consecutive(q, h) == \A i \in 1..Len(q) : q[i].height = h + i

\* The blocks linked or about to be linked.
Taken == Len(chain) + (IF pending = NoBlock THEN 0 ELSE 1)

\* The list continues what is taken, the queue continues the list and ends with the
\* block published last.
InOrder ==
    /\ pc # "halted"
    /\ Consecutive(storage, Taken)
    /\ Consecutive(queue, Taken + Len(storage))
    /\ \A b \in received : b.height <= Taken + Len(storage)
    /\ \A b \in published : b.height <= Taken + Len(storage) + Len(queue)

CalmInv == ~Foul => Fresh /\ (~Missed => InOrder)

LEMMA TakenFacts ==
  ASSUME IInv
  PROVE  /\ Taken \in Nat /\ Len(chain) \in Nat /\ Len(storage) \in Nat /\ Len(queue) \in Nat
         /\ storage \in Seq(Block) /\ queue \in Seq(Block) /\ chain \in Seq(Block)
         /\ pending = NoBlock => Taken = Len(chain)
         /\ pending # NoBlock => Taken = Len(chain) + 1
  BY DEF IInv, TypeOK, Taken

LEMMA TailInOrder ==
  ASSUME NEW q \in Seq(Block), q # <<>>, NEW h \in Nat, Consecutive(q, h)
  PROVE  /\ Head(q).height = h + 1
         /\ Consecutive(Tail(q), h + 1)
         /\ Len(Tail(q)) = Len(q) - 1
<1>1. Len(q) \in Nat /\ Len(q) > 0 /\ Head(q) = q[1] /\ Len(Tail(q)) = Len(q) - 1
  OBVIOUS
<1>2. \A i \in 1..Len(Tail(q)) : Tail(q)[i] = q[i + 1] /\ i + 1 \in 1..Len(q)
  OBVIOUS
<1>3. q[1].height = h + 1
  BY <1>1 DEF Consecutive
<1>4. ASSUME NEW i \in 1..Len(Tail(q)) PROVE Tail(q)[i].height = (h + 1) + i
  <2>1. q[i + 1].height = h + (i + 1)
    BY <1>2 DEF Consecutive
  <2> QED BY <1>2, <2>1
<1> QED BY <1>1, <1>3, <1>4 DEF Consecutive

LEMMA AppendInOrder ==
  ASSUME NEW q \in Seq(Block), NEW h \in Nat, Consecutive(q, h),
         NEW b \in Block, b.height = h + Len(q) + 1
  PROVE  Consecutive(Append(q, b), h) /\ Len(Append(q, b)) = Len(q) + 1
<1>1. /\ Len(q) \in Nat /\ Len(Append(q, b)) = Len(q) + 1 /\ Append(q, b)[Len(q) + 1] = b
      /\ \A i \in 1..Len(q) : Append(q, b)[i] = q[i]
  OBVIOUS
<1>2. ASSUME NEW i \in 1..(Len(q) + 1) PROVE Append(q, b)[i].height = h + i
  <2>1. CASE i = Len(q) + 1
    BY <1>1, <2>1
  <2>2. CASE i # Len(q) + 1
    <3>1. i \in 1..Len(q)
      BY <1>1, <2>2
    <3> QED BY <1>1, <3>1 DEF Consecutive
  <2> QED BY <2>1, <2>2
<1> QED BY <1>1, <1>2 DEF Consecutive

\* Nothing is cleared from a list that is above the height.
LEMMA ClearedKeeps ==
  ASSUME NEW q \in Seq(Block), NEW h \in Nat, \A i \in 1..Len(q) : q[i].height > h
  PROVE  Cleared(q, h) = q
<1> DEFINE f == CHOOSE kept : kept = [i \in 0..Len(q) |-> Keep(q, h, kept, i)]
<1>1. Cleared(q, h) = f[Len(q)]
  BY DEF Cleared, Keep
<1>2. f = [i \in 0..Len(q) |-> Keep(q, h, f, i)]
  <2>1. Len(q) \in 0..Len(q)
    OBVIOUS
  <2>2. \E g : g = [i \in 0..Len(q) |-> Keep(q, h, g, i)]
    BY <2>1, KeptExists
  <2> QED BY <2>2
<1> HIDE DEF f
<1>3. \A i \in 0..Len(q) : f[i] = Keep(q, h, f, i)
  BY <1>2
<1> DEFINE Fine(n) == f[n] \in Seq(Block) /\ Len(f[n]) = n /\ \A j \in 1..n : f[n][j] = q[j]
           T == {n \in Nat : n <= Len(q) /\ ~Fine(n)}
<1>4. T = {}
  <2> SUFFICES ASSUME T # {} PROVE FALSE
    OBVIOUS
  <2>1. PICK m \in T : \A k \in T : m <= k
    BY Least
  <2>2. m # 0
    <3>1. f[0] = <<>>
      BY <1>3 DEF Keep
    <3>2. Fine(0)
      BY <3>1
    <3> QED BY <2>1, <3>2
  <2>3. m \in Nat /\ m <= Len(q) /\ Len(q) \in Nat
    BY <2>1
  <2>4. m - 1 \in Nat /\ m - 1 <= Len(q) /\ m \in 1..Len(q) /\ ~(m <= m - 1)
    BY <2>2, <2>3
  <2>5. m - 1 \notin T
    BY <2>1, <2>4
  <2>6. Fine(m - 1)
    BY <2>4, <2>5
  <2>7. q[m].height > h /\ q[m] \in Block
    BY <2>4
  <2>8. f[m] = Append(f[m - 1], q[m])
    <3>1. m \in 0..Len(q)
      BY <2>4
    <3>2. f[m] = Keep(q, h, f, m)
      BY <1>3, <3>1
    <3> QED BY <2>2, <2>7, <3>2 DEF Keep
  <2> DEFINE p == f[m - 1]
  <2>9. p \in Seq(Block) /\ Len(p) = m - 1 /\ \A j \in 1..(m - 1) : p[j] = q[j]
    BY <2>6
  <2> HIDE DEF p
  <2>10. /\ Append(p, q[m]) \in Seq(Block) /\ Len(Append(p, q[m])) = m
         /\ \A j \in 1..m : Append(p, q[m])[j] = q[j]
    BY <2>4, <2>7, <2>9
  <2>11. Fine(m)
    BY <2>8, <2>10 DEF p
  <2> QED BY <2>1, <2>11
<1>5. Fine(Len(q))
  <2>1. Len(q) \in Nat /\ Len(q) <= Len(q)
    OBVIOUS
  <2> HIDE DEF Fine
  <2> QED BY <1>4, <2>1
<1> DEFINE all == f[Len(q)]
<1>6. all \in Seq(Block) /\ Len(all) = Len(q) /\ \A j \in 1..Len(q) : all[j] = q[j]
  BY <1>5
<1> HIDE DEF all
<1>7. all = q
  BY <1>6
<1> QED BY <1>1, <1>7 DEF all

LEMMA TailDistinct ==
  ASSUME NEW q \in Seq(Block), q # <<>>, Distinct(q)
  PROVE  Distinct(Tail(q)) /\ Head(q) \notin Stored(Tail(q))
<1>1. /\ Len(q) \in Nat /\ Len(q) > 0 /\ Head(q) = q[1] /\ Len(Tail(q)) = Len(q) - 1
      /\ 1 \in 1..Len(q)
  OBVIOUS
<1>2. \A i \in 1..Len(Tail(q)) : Tail(q)[i] = q[i + 1] /\ i + 1 \in 1..Len(q) /\ i + 1 # 1
  OBVIOUS
<1>3. ASSUME NEW i \in 1..Len(Tail(q)), NEW j \in 1..Len(Tail(q)), Tail(q)[i] = Tail(q)[j]
      PROVE  i = j
  <2>1. i + 1 = j + 1
    BY <1>2, <1>3 DEF Distinct
  <2> QED BY <2>1
<1>4. ASSUME NEW i \in 1..Len(Tail(q)) PROVE Head(q) # Tail(q)[i]
  BY <1>1, <1>2 DEF Distinct
<1> QED BY <1>3, <1>4 DEF Distinct, Stored

LEMMA AppendDistinct ==
  ASSUME NEW q \in Seq(Block), NEW b \in Block, Distinct(q), b \notin Stored(q)
  PROVE  Distinct(Append(q, b))
<1>1. /\ Len(q) \in Nat /\ Len(Append(q, b)) = Len(q) + 1 /\ Append(q, b)[Len(q) + 1] = b
      /\ \A i \in 1..Len(q) : Append(q, b)[i] = q[i]
  OBVIOUS
<1>2. \A i \in 1..Len(q) : q[i] # b
  BY DEF Stored
<1>3. \A i \in 1..(Len(q) + 1) : i \in 1..Len(q) \/ i = Len(q) + 1
  BY <1>1
<1> QED BY <1>1, <1>2, <1>3 DEF Distinct

\* The list is left alone by what is linked: it holds no other block of that height.
LEMMA LinkClears ==
  ASSUME IInv, Fresh, ~Forked, Link
  PROVE  /\ Cleared(storage, pending.height) = storage
         /\ \A b \in Stored(storage) \cup Stored(queue) : b.height > Len(chain) + 1
<1>1. /\ pending \in Block /\ pending \in published /\ pending.height = Len(chain) + 1
      /\ pending.height \in Nat /\ Len(chain) \in Nat /\ storage \in Seq(Block)
  BY TakenFacts, BlockFacts DEF IInv, TypeOK, Link, HeldIsPublished, PendingIsNext
<1>2. ASSUME NEW b \in Stored(storage) \cup Stored(queue) PROVE b.height > Len(chain) + 1
  <2>1. b \in published /\ b \in Block /\ b # pending
    BY DEF IInv, HeldIsPublished, TypeOK, Fresh
  <2>2. b.height > Len(chain) /\ b.height # pending.height
    BY <1>1, <2>1 DEF Fresh, Forked
  <2> QED BY <1>1, <2>1, <2>2, BlockFacts
<1>3. \A i \in 1..Len(storage) : storage[i].height > pending.height
  BY <1>1, <1>2 DEF Stored
<1> QED BY <1>1, <1>2, <1>3, ClearedKeeps

\* Nothing foul goes away.
LEMMA FoulStays ==
  ASSUME [Next]_vars, Foul
  PROVE  Foul'
<1>1. published \subseteq published' /\ (overtaken => overtaken') /\ (unrewarded => unrewarded')
  <2>1. CASE TransactionExists \/ RoundSucceeds \/ RoundRaises \/ FinalizeManyExist
    BY <2>1 DEF TransactionExists, RoundSucceeds, RoundRaises, FinalizeManyExist, history, broker
  <2>2. CASE RoundFails \/ FinalizeExists \/ Accumulate
    BY <2>2 DEF RoundFails, FinalizeExists, Accumulate, Take, history, broker
  <2>3. CASE Link \/ FinalizeFails
    BY <2>3 DEF Link, FinalizeFails, history, broker
  <2>4. CASE SyncerRun
    BY <2>4 DEF SyncerRun, broker
  <2>5. CASE ProcessEvent \/ EventRun \/ Lose \/ (\E b \in Block : Publish(b)) \/ UNCHANGED vars
    BY <2>5 DEF ProcessEvent, EventRun, Lose, Publish, vars, history, broker
  <2> QED BY <2>1, <2>2, <2>3, <2>4, <2>5 DEF Next, Task
<1>2. Forked => Forked'
  BY <1>1 DEF Forked
<1> QED BY <1>1, <1>2 DEF Foul

\* A missed block is never received: only the syncer links it.
LEMMA MissedStays ==
  ASSUME IInv, Fresh, Missed, [Next]_vars, ~SyncerRun
  PROVE  Missed'
<1>1. published \subseteq published'
  <2>1. CASE Task
    BY <2>1 DEF Task, TransactionExists, RoundSucceeds, RoundRaises, RoundFails, FinalizeExists,
                FinalizeManyExist, Accumulate, Take, Link, FinalizeFails, SyncerRun, broker
  <2>2. CASE ProcessEvent \/ EventRun \/ Lose \/ (\E b \in Block : Publish(b)) \/ UNCHANGED vars
    BY <2>2 DEF ProcessEvent, EventRun, Lose, Publish, vars, broker
  <2> QED BY <2>1, <2>2 DEF Next
<1>2. Linked' \subseteq Linked \cup received
  <2>1. CASE Link
    <3>1. pending \in received /\ pending \in Block /\ chain \in Seq(Block)
      BY <2>1 DEF Link, Fresh, IInv, TypeOK
    <3>2. chain' = Append(chain, pending)
      BY <2>1 DEF Link
    <3>3. /\ Len(chain') = Len(chain) + 1 /\ chain'[Len(chain) + 1] = pending /\ Len(chain) \in Nat
          /\ \A i \in 1..Len(chain) : chain'[i] = chain[i]
      BY <3>1, <3>2
    <3>4. \A i \in 1..Len(chain') : i \in 1..Len(chain) \/ i = Len(chain) + 1
      BY <3>3
    <3> QED BY <3>1, <3>3, <3>4 DEF Linked
  <2>2. CASE UNCHANGED chain
    BY <2>2 DEF Linked
  <2> QED BY <2>1, <2>2
          DEF Next, Task, TransactionExists, RoundSucceeds, RoundRaises, RoundFails, FinalizeExists,
              FinalizeManyExist, Accumulate, Take, FinalizeFails, ProcessEvent, EventRun, Lose,
              Publish, vars
<1>3. received' \cup Stored(queue') \subseteq received \cup Stored(queue) \cup (published' \ published)
  <2>1. CASE ProcessEvent
    <3>1. queue \in Seq(Block) /\ queue # <<>>
      BY <2>1 DEF ProcessEvent, IInv, TypeOK
    <3> QED BY <2>1, <3>1, StoredTail DEF ProcessEvent
  <2>2. ASSUME NEW b \in Block, Publish(b)
        PROVE  received' \cup Stored(queue') \subseteq
                 received \cup Stored(queue) \cup (published' \ published)
    <3>1. Stored(queue') \subseteq Stored(queue) \cup {b}
      BY <2>2, StoredAppend DEF Publish, IInv, TypeOK
    <3> QED BY <2>2, <3>1 DEF Publish, history
  <2>3. CASE Lose
    <3>1. queue \in Seq(Block) /\ queue # <<>>
      BY <2>3 DEF Lose, IInv, TypeOK
    <3> QED BY <2>3, <3>1, StoredTail DEF Lose, history
  <2>4. CASE UNCHANGED <<queue, received>>
    BY <2>4
  <2> QED BY <2>1, <2>2, <2>3, <2>4
          DEF Next, Task, TransactionExists, RoundSucceeds, RoundRaises, RoundFails, FinalizeExists,
              FinalizeManyExist, Accumulate, Take, Link, FinalizeFails, EventRun, vars, broker, history
<1>4. Linked \subseteq published
  BY DEF Linked, IInv, ChainIsBranch
<1>5. PICK b \in published \ Linked : b \notin received \cup Stored(queue)
  BY DEF Missed
<1>6. b \in published' \ Linked' /\ b \notin received' \cup Stored(queue')
  BY <1>1, <1>2, <1>3, <1>5
<1> QED BY <1>6 DEF Missed

LEMMA InitCalm == Init => CalmInv
<1> SUFFICES ASSUME Init PROVE Fresh /\ (~Missed => InOrder)
  BY DEF CalmInv
<1>1. /\ Stored(queue) = {} /\ Stored(storage) = {} /\ Len(queue) = 0 /\ Len(storage) = 0
      /\ pending = NoBlock /\ pc = "sync" /\ received = {}
  BY DEF Init, Stored
<1>2. Fresh
  BY <1>1 DEF Fresh, Distinct
<1>3. ASSUME ~Missed PROVE InOrder
  <2>1. IInv /\ Taken = Len(chain) /\ Len(chain) \in Nat
    BY <1>1, InitLemma, TakenFacts
  <2>2. \A b \in published : b \in Linked
    BY <1>1, <1>3 DEF Missed
  <2>3. \A b \in published : b.height <= Len(chain)
    BY <2>1, <2>2 DEF Linked, IInv, ChainIsBranch
  <2> QED BY <1>1, <2>1, <2>3 DEF InOrder, Consecutive
<1> QED BY <1>2, <1>3

\* get takes the head of the list, which is not stale.
LEMMA TakeFresh ==
  ASSUME IInv, Fresh, pc # "link", NEW indexError, NEW finalizeError,
         Take(indexError, finalizeError)
  PROVE  Fresh'
<1> DEFINE h == Len(chain) + 1
           got == Get(storage, h)
<1>1. pending = NoBlock /\ Len(chain) \in Nat /\ storage \in Seq(Block) /\ queue \in Seq(Block)
  BY TakenFacts DEF IInv, TypeOK
<1>2. /\ storage' = got.rest
      /\ pending' = IF got.raised = "nothing" THEN got.blk ELSE NoBlock
      /\ UNCHANGED <<chain, queue, received>>
  BY DEF Take, broker, history
<1>3. CASE storage = <<>>
  <2>1. got = [blk |-> NoBlock, rest |-> <<>>, raised |-> "IndexError"]
    BY <1>3 DEF Get
  <2> HIDE DEF got
  <2>2. storage' = storage /\ pending' = pending
    BY <1>1, <1>2, <1>3, <2>1
  <2>3. Stored(storage') = Stored(storage) /\ Stored(queue') = Stored(queue)
        /\ Distinct(storage') /\ Distinct(queue')
    BY <1>2, <2>2 DEF Fresh
  <2> QED BY <1>2, <2>2, <2>3 DEF Fresh
<1>4. CASE storage # <<>>
  <2> DEFINE b == Head(storage)
             tail == Tail(storage)
  <2>1. b \in Block /\ tail \in Seq(Block) /\ Stored(storage) = {b} \cup Stored(tail)
    BY <1>1, <1>4, StoredTail
  <2>2. Distinct(tail) /\ b \notin Stored(tail)
    BY <1>1, <1>4, TailDistinct DEF Fresh
  <2>3. b.height > Len(chain) /\ b.height \in Nat
    BY <2>1, BlockFacts DEF Fresh
  <2>4. got = Outcome(storage, h)
    BY <1>1, <1>4, <2>3 DEF Get
  <2>5. storage' = tail /\ (pending' = b \/ pending' = NoBlock)
    BY <1>2, <2>4 DEF Outcome
  <2> HIDE DEF b, tail, got
  <2>6. NoBlock \notin Stored(tail) \cup Stored(queue)
    BY <1>1, <2>1, StoredAreBlocks
  <2>7. Stored(storage') = Stored(tail) /\ Stored(queue') = Stored(queue)
    BY <1>2, <2>5
  <2>8. Distinct(storage') /\ Distinct(queue')
    BY <1>2, <2>2, <2>5 DEF Fresh, Distinct
  <2>9. pending' \notin Stored(tail) \cup Stored(queue) /\ pending' \in received \cup {NoBlock}
    BY <2>1, <2>2, <2>5, <2>6 DEF Fresh
  <2> QED BY <1>2, <2>1, <2>7, <2>8, <2>9 DEF Fresh
<1> QED BY <1>3, <1>4

LEMMA LinkFresh == ASSUME IInv, Fresh, ~Forked, Link PROVE Fresh'
<1>1. pending \in Block /\ chain \in Seq(Block) /\ storage \in Seq(Block) /\ queue \in Seq(Block)
  BY DEF IInv, TypeOK, Link
<1>2. /\ storage' = storage /\ chain' = Append(chain, pending) /\ pending' = NoBlock
      /\ UNCHANGED <<queue, received>>
  BY LinkClears DEF Link, broker, history
<1>3. Len(chain') = Len(chain) + 1
  BY <1>1, <1>2
<1>4. NoBlock \notin Stored(storage) \cup Stored(queue)
  BY <1>1, StoredAreBlocks
<1>5. Stored(storage') = Stored(storage) /\ Stored(queue') = Stored(queue)
      /\ Distinct(storage') /\ Distinct(queue')
  BY <1>2 DEF Fresh, Stored, Distinct
<1> QED BY <1>2, <1>3, <1>4, <1>5, LinkClears DEF Fresh

LEMMA ReceiveFresh == ASSUME IInv, Fresh, ProcessEvent PROVE Fresh'
<1> DEFINE b == Head(queue)
           tail == Tail(queue)
<1>1. /\ queue \in Seq(Block) /\ queue # <<>> /\ storage \in Seq(Block)
      /\ storage' = Append(storage, b) /\ queue' = tail /\ received' = received \cup {b}
      /\ UNCHANGED <<chain, pending>>
  BY DEF IInv, TypeOK, ProcessEvent, task
<1>2. b \in Block /\ Stored(queue) = {b} \cup Stored(tail)
      /\ Distinct(tail) /\ b \notin Stored(tail)
  BY <1>1, StoredTail, TailDistinct DEF Fresh
<1> HIDE DEF b, tail
<1>3. Stored(storage') = Stored(storage) \cup {b} /\ Distinct(storage')
  BY <1>1, <1>2, StoredAppend, AppendDistinct DEF Fresh
<1>4. Stored(queue') = Stored(tail) /\ Distinct(queue')
  BY <1>1, <1>2
<1> QED BY <1>1, <1>2, <1>3, <1>4 DEF Fresh

LEMMA PublishFresh == ASSUME IInv, Fresh, NEW b \in Block, Publish(b), ~Forked' PROVE Fresh'
<1>1. /\ b \notin published /\ published' = published \cup {b}
      /\ queue' = IF bound THEN Append(queue, b) ELSE queue
      /\ UNCHANGED <<pending, chain, storage, received>>
      /\ queue \in Seq(Block) /\ received \subseteq published
  BY DEF Publish, task, history, IInv, TypeOK
<1>2. b \notin Stored(queue) /\ b \notin Stored(storage) /\ b # pending
  BY <1>1, BlockFacts DEF IInv, HeldIsPublished
<1>3. b.height > Len(chain)
  <2> SUFFICES ASSUME ~(b.height > Len(chain)) PROVE FALSE
    OBVIOUS
  <2>1. b.height \in 1..Len(chain)
    BY BlockFacts, TakenFacts
  <2>2. chain[b.height] \in published /\ chain[b.height].height = b.height
    BY <2>1 DEF IInv, ChainIsBranch
  <2> QED BY <1>1, <2>2 DEF Forked
<1>4. Stored(storage') = Stored(storage) /\ Distinct(storage')
  BY <1>1 DEF Fresh, Stored, Distinct
<1>5. Stored(queue') \subseteq Stored(queue) \cup {b} /\ Distinct(queue')
  BY <1>1, <1>2, StoredAppend, AppendDistinct DEF Fresh
<1> QED BY <1>1, <1>2, <1>3, <1>4, <1>5 DEF Fresh

LEMMA LoseFresh == ASSUME IInv, Fresh, Lose PROVE Fresh'
<1>1. /\ queue \in Seq(Block) /\ queue # <<>> /\ queue' = Tail(queue)
      /\ UNCHANGED <<pending, chain, storage, received>>
  BY DEF Lose, task, history, IInv, TypeOK
<1>2. Stored(queue') \subseteq Stored(queue) /\ Distinct(queue')
  BY <1>1, StoredTail, TailDistinct DEF Fresh
<1>3. Stored(storage') = Stored(storage) /\ Distinct(storage')
  BY <1>1 DEF Fresh, Stored, Distinct
<1> QED BY <1>1, <1>2, <1>3 DEF Fresh

\* get finds the next block at the head of the list, or nothing.
LEMMA TakeCalm ==
  ASSUME IInv, InOrder, pc # "link", NEW indexError, NEW finalizeError,
         Take(indexError, finalizeError), indexError # "halted" \/ storage # <<>>
  PROVE  InOrder'
<1> DEFINE h == Len(chain) + 1
           got == Get(storage, h)
<1>1. /\ pending = NoBlock /\ Taken = Len(chain) /\ Len(chain) \in Nat
      /\ storage \in Seq(Block) /\ Len(storage) \in Nat
  BY TakenFacts DEF IInv, TypeOK
<1>2. /\ storage' = got.rest
      /\ pending' = IF got.raised = "nothing" THEN got.blk ELSE NoBlock
      /\ pc' = IF got.raised = "nothing" THEN "link"
               ELSE IF got.raised = "IndexError" THEN indexError ELSE finalizeError
      /\ UNCHANGED <<chain, queue, published, received>>
  BY DEF Take, broker, history
<1>3. CASE storage = <<>>
  <2>1. got = [blk |-> NoBlock, rest |-> <<>>, raised |-> "IndexError"]
    BY <1>3 DEF Get
  <2>2. storage' = storage /\ pending' = pending /\ pc' # "halted"
    BY <1>1, <1>2, <1>3, <2>1
  <2> QED BY <1>2, <2>2 DEF InOrder, Taken, Consecutive
<1>4. CASE storage # <<>>
  <2>1. /\ Head(storage).height = h /\ Consecutive(Tail(storage), h)
        /\ Len(Tail(storage)) = Len(storage) - 1
    BY <1>1, <1>4, TailInOrder DEF InOrder
  <2>2. Head(storage) # NoBlock
    BY <1>1, <1>4, StoredTail, BlockFacts
  <2>3. got = [blk |-> Head(storage), rest |-> Tail(storage), raised |-> "nothing"]
    <3>1. ~(Head(storage).height < h)
      BY <1>1, <2>1
    <3>2. got = Outcome(storage, h)
      BY <1>4, <3>1 DEF Get
    <3> QED BY <2>1, <3>2 DEF Outcome
  <2>4. storage' = Tail(storage) /\ pending' = Head(storage) /\ pc' = "link"
    BY <1>2, <2>3
  <2>5. Taken' = Taken + 1 /\ Len(storage') = Len(storage) - 1
        /\ Taken' + Len(storage') = Taken + Len(storage)
    <3>1. Taken' = Len(chain') + (IF pending' = NoBlock THEN 0 ELSE 1)
      BY DEF Taken
    <3>2. Len(chain') = Len(chain) /\ Len(storage') = Len(storage) - 1
      BY <1>2, <2>1, <2>4
    <3>3. pending' # NoBlock
      BY <2>2, <2>4
    <3>4. Taken' = Len(chain) + 1
      BY <3>1, <3>2, <3>3
    <3> QED BY <1>1, <3>2, <3>4
  <2>6. Consecutive(storage', Taken')
    BY <1>1, <2>1, <2>4, <2>5
  <2>7. Consecutive(queue', Taken' + Len(storage'))
    BY <1>2, <2>5 DEF InOrder
  <2>8. pc' # "halted" /\ received' = received /\ published' = published
        /\ Len(queue') = Len(queue)
    BY <1>2, <2>4
  <2>9. /\ \A b \in received' : b.height <= Taken' + Len(storage')
        /\ \A b \in published' : b.height <= Taken' + Len(storage') + Len(queue')
    BY <2>5, <2>8 DEF InOrder
  <2> QED BY <2>6, <2>7, <2>8, <2>9 DEF InOrder, Consecutive
<1> QED BY <1>3, <1>4

LEMMA LinkCalm == ASSUME IInv, InOrder, Fresh, ~Forked, Link PROVE InOrder'
<1>1. /\ pending \in Block /\ pending # NoBlock /\ pending.height = Len(chain) + 1
      /\ Taken = Len(chain) + 1 /\ Taken \in Nat /\ chain \in Seq(Block) /\ storage \in Seq(Block)
  BY TakenFacts DEF IInv, TypeOK, Link, PendingIsNext
<1>2. Cleared(storage, pending.height) = storage
  BY LinkClears
<1>3. /\ storage' = storage /\ chain' = Append(chain, pending) /\ pending' = NoBlock
      /\ pc' # "halted" /\ UNCHANGED <<queue, published, received>>
  BY <1>2 DEF Link, Loop, broker, history
<1>4. Taken' = Taken
  BY <1>1, <1>3 DEF Taken
<1> QED BY <1>3, <1>4 DEF InOrder, Consecutive

\* finalize finds the predecessor, and no block is late.
LEMMA FailCalm == ASSUME IInv, ~Foul, FinalizeFails PROVE FALSE
<1>1. /\ pending \in published /\ pending \in Block /\ pending.height = Len(chain) + 1
      /\ published \subseteq Block /\ chain \in Seq(Block) /\ Len(chain) \in Nat
  BY TakenFacts DEF IInv, TypeOK, FinalizeFails, HeldIsPublished, PendingIsNext
<1>2. pending \notin Late
  BY <1>1 DEF Foul
<1>3. Previous(pending) \in published \cup {Genesis}
  BY <1>1 DEF IInv, PublishedIsRooted
<1>4. Known(pending)
  <2>1. CASE Previous(pending) = Genesis
    BY <2>1 DEF Known
  <2>2. CASE Previous(pending) \in published
    <3>1. Previous(pending) # Genesis
      BY <1>1, <2>2, BlockFacts
    <3>2. Previous(pending).height = Len(chain) /\ Len(chain) \in 1..Len(chain)
      BY <1>1, <3>1 DEF Previous
    <3>3. chain[Len(chain)] \in published /\ chain[Len(chain)].height = Len(chain)
      BY <3>2 DEF IInv, ChainIsBranch
    <3>4. Previous(pending) = chain[Len(chain)]
      BY <2>2, <3>2, <3>3 DEF Foul, Forked
    <3> QED BY <3>2, <3>4 DEF Known, Linked
  <2> QED BY <1>3, <2>1, <2>2
<1> QED BY <1>2, <1>4 DEF FinalizeFails

\* The syncer brings all that has been published, and none of it is still to come.
LEMMA SyncerLinksAll ==
  ASSUME IInv, SyncerRun, ~Foul'
  PROVE  published \subseteq Linked'
<1> SUFFICES ASSUME NEW b \in published PROVE b \in Linked'
  OBVIOUS
<1>1. IInv' /\ published' = published /\ chain' \in Furthest(chain)
  BY SyncerStep DEF SyncerRun, broker
<1>2. /\ published \subseteq Block /\ chain \in Seq(Block) /\ chain' \in Seq(Block)
      /\ Len(chain) \in Nat /\ Len(chain') \in Nat /\ PublishedIsRooted
  BY <1>1 DEF IInv, TypeOK
<1>3. ~Forked /\ b \in Valid
  BY <1>1 DEF Foul, Forked, Valid
<1>4. b \in Block /\ b.height \in Nat /\ b.height > 0
  BY <1>2, BlockFacts
<1> DEFINE path == PathTo(b)
<1>5. /\ path \in Seq(Block) /\ Len(path) = b.height
      /\ \A i \in 1..b.height : path[i].height = i /\ path[i] \in published
  BY <1>2, <1>3, <1>4, PathFacts, PathIsValid
<1> HIDE DEF path
<1>6. Extends(chain, chain')
  BY <1>1 DEF Furthest, Ahead
<1>7. b.height <= Len(chain')
  <2>1. CASE b.height < Len(chain)
    BY <1>2, <1>4, <1>6, <2>1, ExtendsFacts
  <2>2. CASE b.height >= Len(chain)
    <3>1. \A i \in 1..Len(chain) : chain[i] \in published /\ chain[i].height = i
      BY DEF IInv, ChainIsBranch
    <3>2. \A i \in 1..Len(chain) : i \in 1..b.height
      BY <1>2, <1>4, <2>2
    <3>3. \A i \in 1..Len(chain) : path[i] = chain[i]
      BY <1>3, <1>5, <3>1, <3>2 DEF Forked
    <3>4. Extends(chain, path)
      BY <1>2, <1>5, <2>2, <3>3, ExtendsFacts
    <3>5. path \in Ahead(chain)
      BY <1>3, <3>4 DEF Ahead, path
    <3> QED BY <1>1, <1>5, <3>5 DEF Furthest
  <2> QED BY <1>2, <1>4, <2>1, <2>2
<1>8. b.height \in 1..Len(chain')
  BY <1>2, <1>4, <1>7
<1>9. chain'[b.height] \in published /\ chain'[b.height].height = b.height
  BY <1>1, <1>8 DEF IInv, ChainIsBranch
<1>10. chain'[b.height] = b
  BY <1>3, <1>9 DEF Forked
<1> QED BY <1>8, <1>10 DEF Linked

LEMMA SyncerCalm == ASSUME IInv, Fresh, SyncerRun, ~Foul' PROVE Fresh' /\ InOrder'
<1>1. /\ IInv' /\ UNCHANGED <<pending, queue, published, received>> /\ pending = NoBlock
      /\ pc' # "halted" /\ storage' \in {storage, Cleared(storage, Len(chain'))}
  BY SyncerStep DEF SyncerRun, broker, Loop, IInv, TypeOK
<1>2. /\ storage \in Seq(Block) /\ queue \in Seq(Block) /\ storage' \in Seq(Block)
      /\ chain' \in Seq(Block) /\ Len(chain') \in Int /\ Len(chain) \in Nat
  BY <1>1 DEF IInv, TypeOK
<1>3. Stored(storage') \subseteq Stored(storage)
  <2>1. Stored(Cleared(storage, Len(chain'))) \subseteq Stored(storage)
    BY <1>2, ClearedFacts
  <2> QED BY <1>1, <2>1 DEF Stored
<1>4. (Linked' \ Linked) \cap (Stored(storage') \cup Stored(queue)) = {}
  BY DEF SyncerRun, Foul
<1>5. ASSUME NEW b \in Stored(storage') \cup Stored(queue) PROVE FALSE
  <2>1. b \in published /\ b.height > Len(chain)
    BY <1>3 DEF IInv, HeldIsPublished, Fresh
  <2>2. b \in Linked'
    BY <2>1, SyncerLinksAll
  <2>3. b \notin Linked
    BY <1>2, <2>1 DEF Linked, IInv, ChainIsBranch
  <2> QED BY <1>4, <2>2, <2>3
<1>6. Stored(storage') = {} /\ Stored(queue) = {}
  BY <1>5
<1>7. storage' = <<>> /\ queue' = <<>>
  <2>1. \A q \in Seq(Block) : Stored(q) = {} => q = <<>>
    BY DEF Stored
  <2>2. queue' = queue
    BY <1>1
  <2> QED BY <1>2, <1>6, <2>1, <2>2 DEF Stored
<1>8. Fresh'
  BY <1>1, <1>7 DEF Fresh, Distinct, Stored
<1>9. Taken' = Len(chain') /\ Len(chain') \in Nat /\ Len(storage') = 0 /\ Len(queue') = 0
  BY <1>1, <1>2, <1>7 DEF Taken
<1>10. \A b \in published : b.height <= Len(chain')
  <2> SUFFICES ASSUME NEW b \in published PROVE b.height <= Len(chain')
    OBVIOUS
  <2>1. PICK i \in 1..Len(chain') : b = chain'[i]
    BY SyncerLinksAll DEF Linked
  <2>2. b.height = i
    BY <1>1, <2>1 DEF IInv, ChainIsBranch
  <2> QED BY <1>9, <2>2
<1>11. received' \subseteq published /\ published' = published
  BY <1>1 DEF IInv, TypeOK
<1>12. InOrder'
  BY <1>1, <1>9, <1>10, <1>11 DEF InOrder, Consecutive
<1> QED BY <1>8, <1>12

LEMMA ReceiveCalm == ASSUME IInv, InOrder, ProcessEvent PROVE InOrder'
<1> DEFINE b == Head(queue)
           end == Taken + Len(storage)
<1>1. /\ Taken \in Nat /\ end \in Nat /\ storage \in Seq(Block) /\ queue \in Seq(Block)
      /\ queue # <<>> /\ Len(storage) \in Nat /\ Len(queue) \in Nat
  BY TakenFacts DEF ProcessEvent
<1>2. /\ storage' = Append(storage, b) /\ queue' = Tail(queue) /\ received' = received \cup {b}
      /\ UNCHANGED <<pc, pending, chain, published>>
  BY DEF ProcessEvent, task
<1>3. Consecutive(queue, end)
  BY DEF InOrder
<1> HIDE DEF end
<1>4. b \in Block /\ b.height = end + 1 /\ Consecutive(queue', end + 1)
      /\ Len(queue') = Len(queue) - 1
  BY <1>1, <1>2, <1>3, StoredTail, TailInOrder
<1>5. Consecutive(storage', Taken) /\ Len(storage') = Len(storage) + 1
  <2>1. b.height = Taken + Len(storage) + 1
    BY <1>4 DEF end
  <2> HIDE DEF b
  <2> QED BY <1>1, <1>2, <1>4, <2>1, AppendInOrder DEF InOrder
<1>6. Taken' = Taken /\ Taken' + Len(storage') = end + 1
  <2>1. Taken' = Taken
    BY <1>2 DEF Taken
  <2> QED BY <1>1, <1>5, <2>1 DEF end
<1>7. Consecutive(storage', Taken') /\ Consecutive(queue', Taken' + Len(storage'))
  BY <1>4, <1>5, <1>6
<1>8. ASSUME NEW c \in received' PROVE c.height <= Taken' + Len(storage')
  <2>1. CASE c = b
    BY <1>1, <1>4, <1>6, <2>1
  <2>2. CASE c \in received
    <3>1. c.height <= end /\ c.height \in Nat
      BY <2>2, BlockFacts DEF InOrder, end, IInv, TypeOK
    <3> QED BY <1>1, <1>6, <3>1
  <2> QED BY <1>2, <2>1, <2>2
<1>9. Taken' + Len(storage') + Len(queue') = Taken + Len(storage) + Len(queue)
  BY <1>1, <1>4, <1>6 DEF end
<1> QED BY <1>2, <1>7, <1>8, <1>9 DEF InOrder, Consecutive

\* Every height up to the last of the queue has a block.
LEMMA HeightsFilled ==
  ASSUME IInv, InOrder, NEW h \in 1..(Taken + Len(storage) + Len(queue))
  PROVE  \E c \in published : c.height = h
<1>1. /\ Taken \in Nat /\ Len(chain) \in Nat /\ Len(storage) \in Nat /\ Len(queue) \in Nat
      /\ pending = NoBlock => Taken = Len(chain)
      /\ pending # NoBlock => Taken = Len(chain) + 1
  BY TakenFacts
<1>2. CASE h \in 1..Len(chain)
  BY <1>2 DEF IInv, ChainIsBranch
<1>3. CASE h = Len(chain) + 1 /\ pending # NoBlock
  BY <1>3 DEF IInv, HeldIsPublished, PendingIsNext
<1>4. CASE h - Taken \in 1..Len(storage)
  <2>1. storage[h - Taken].height = h /\ storage[h - Taken] \in Stored(storage)
    BY <1>1, <1>4 DEF InOrder, Consecutive, Stored
  <2> QED BY <2>1 DEF IInv, HeldIsPublished
<1>5. CASE h - (Taken + Len(storage)) \in 1..Len(queue)
  <2> DEFINE i == h - (Taken + Len(storage))
  <2>1. queue[i].height = Taken + Len(storage) + i /\ queue[i] \in Stored(queue)
    BY <1>5 DEF InOrder, Consecutive, Stored
  <2>2. Taken + Len(storage) + i = h
    BY <1>1
  <2> QED BY <2>1, <2>2 DEF IInv, HeldIsPublished
<1> QED BY <1>1, <1>2, <1>3, <1>4, <1>5

\* A new block has the next height, or else there were two of its height, and it
\* reaches the queue, or else it would be missed.
LEMMA PublishCalm ==
  ASSUME IInv, InOrder, NEW b \in Block, Publish(b), ~Foul', ~Missed'
  PROVE  InOrder'
<1> DEFINE top == Taken + Len(storage) + Len(queue)
           end == Taken + Len(storage)
<1>1. /\ Taken \in Nat /\ end \in Nat /\ top \in Nat /\ Len(storage) \in Nat /\ Len(queue) \in Nat
      /\ top = end + Len(queue) /\ queue \in Seq(Block) /\ published \subseteq Block
      /\ received \subseteq published
  BY TakenFacts DEF IInv, TypeOK
<1>2. /\ b \notin published /\ published' = published \cup {b}
      /\ Previous(b) \in published \cup {Genesis}
      /\ queue' = IF bound THEN Append(queue, b) ELSE queue
      /\ UNCHANGED <<pc, pending, chain, storage, received>>
  BY DEF Publish, task, history
<1>3. bound
  <2> SUFFICES ASSUME ~bound PROVE FALSE
    OBVIOUS
  <2>1. b \notin received' \cup Stored(queue')
    BY <1>1, <1>2 DEF IInv, HeldIsPublished
  <2>2. b \notin Linked'
    BY <1>2 DEF Linked, IInv, ChainIsBranch
  <2> QED BY <1>2, <2>1, <2>2 DEF Missed
<1>4. \A c \in published : c.height <= top
  BY DEF InOrder
<1>5. ~(b.height \in 1..top)
  <2> SUFFICES ASSUME b.height \in 1..top PROVE FALSE
    OBVIOUS
  <2>1. PICK c \in published : c.height = b.height
    BY HeightsFilled
  <2>2. Forked'
    BY <1>2, <2>1 DEF Forked
  <2> QED BY <2>2 DEF Foul
<1> HIDE DEF top, end
<1>6. b.height = top + 1
  <2>1. b.height \in Nat /\ b.height > 0
    BY BlockFacts
  <2>2. Previous(b).height = b.height - 1
    BY <2>1 DEF Previous, Genesis
  <2>3. Previous(b).height <= top
    BY <1>1, <1>2, <1>4 DEF Genesis
  <2> QED BY <1>1, <1>5, <2>1, <2>2, <2>3
<1>7. Consecutive(queue', end) /\ Len(queue') = Len(queue) + 1
  <2>1. Consecutive(queue, end)
    BY DEF InOrder, end
  <2> QED BY <1>1, <1>2, <1>3, <1>6, <2>1, AppendInOrder
<1>8. Taken' = Taken
  BY <1>2 DEF Taken
<1>9. Taken' + Len(storage') = end /\ Taken' + Len(storage') + Len(queue') = top + 1
  <2>1. Len(storage') = Len(storage)
    BY <1>2
  <2> QED BY <1>1, <1>7, <1>8, <2>1 DEF end
<1>10. ASSUME NEW c \in published' PROVE c.height <= Taken' + Len(storage') + Len(queue')
  <2>1. c \in Block /\ c.height \in Nat
    BY <1>1, <1>2, BlockFacts
  <2> QED BY <1>1, <1>2, <1>4, <1>6, <1>9, <2>1
<1>11. Consecutive(storage', Taken') /\ Consecutive(queue', Taken' + Len(storage'))
  BY <1>2, <1>7, <1>8, <1>9 DEF InOrder
<1>12. \A c \in received' : c.height <= Taken' + Len(storage')
  BY <1>2, <1>9 DEF InOrder, end
<1> QED BY <1>2, <1>10, <1>11, <1>12 DEF InOrder, Consecutive

\* The block that is lost is nowhere else.
LEMMA LoseCalm == ASSUME IInv, InOrder, Lose PROVE Missed'
<1> DEFINE b == Head(queue)
           end == Taken + Len(storage)
<1>1. /\ end \in Nat /\ queue \in Seq(Block) /\ queue # <<>> /\ received \subseteq Block
  BY TakenFacts DEF Lose, IInv, TypeOK
<1>2. Consecutive(queue, end)
  BY DEF InOrder
<1> HIDE DEF end
<1>3. /\ b \in Stored(queue) /\ b.height = end + 1 /\ Consecutive(Tail(queue), end + 1)
      /\ Tail(queue) \in Seq(Block)
  BY <1>1, <1>2, StoredTail, TailInOrder
<1> HIDE DEF b
<1>4. b \notin Stored(Tail(queue))
  <2> SUFFICES ASSUME NEW i \in 1..Len(Tail(queue)), b = Tail(queue)[i] PROVE FALSE
    BY DEF Stored
  <2>1. b.height = end + 1 + i
    BY <1>3 DEF Consecutive
  <2> QED BY <1>1, <1>3, <2>1
<1>5. b \notin received
  <2>1. b \in received => b.height <= end
    BY DEF InOrder, end
  <2> QED BY <1>1, <1>3, <2>1
<1>6. b \in published
  BY <1>3 DEF IInv, HeldIsPublished
<1>7. queue' = Tail(queue) /\ UNCHANGED <<published, received, chain>>
  BY DEF Lose, history
<1>8. b \notin Linked
  <2> SUFFICES ASSUME NEW i \in 1..Len(chain), b = chain[i] PROVE FALSE
    BY DEF Linked
  <2>1. b.height = i
    BY DEF IInv, ChainIsBranch
  <2>2. end >= Len(chain) /\ Len(chain) \in Nat
    BY TakenFacts DEF end
  <2> QED BY <1>1, <1>3, <2>1, <2>2
<1> QED BY <1>4, <1>5, <1>6, <1>7, <1>8 DEF Missed, Linked

\* Steps that change none of what InOrder and Fresh are about.
LEMMA IdleCalm ==
  ASSUME UNCHANGED <<pending, chain, storage, queue, published, received>>
  PROVE  /\ Fresh => Fresh'
         /\ pc' # "halted" /\ InOrder => InOrder'
BY DEF Fresh, Distinct, Stored, InOrder, Taken, Consecutive

LEMMA StepFresh == ASSUME IInv, Fresh, ~Foul, ~Foul', [Next]_vars PROVE Fresh'
<1>1. CASE RoundFails \/ FinalizeExists \/ Accumulate
  <2>1. pc # "link" /\ \E i, f \in PC : Take(i, f)
    BY <1>1 DEF RoundFails, FinalizeExists, Accumulate, Loop, PC
  <2> QED BY <2>1, TakeFresh
<1>2. CASE Link
  BY <1>2, LinkFresh DEF Foul
<1>3. CASE FinalizeFails
  BY <1>3, FailCalm
<1>4. CASE SyncerRun
  BY <1>4, SyncerCalm
<1>5. CASE ProcessEvent \/ Lose
  BY <1>5, ReceiveFresh, LoseFresh
<1>6. CASE \E b \in Block : Publish(b)
  BY <1>6, PublishFresh DEF Foul
<1>7. CASE TransactionExists \/ RoundSucceeds \/ RoundRaises \/ FinalizeManyExist \/ EventRun
           \/ UNCHANGED vars
  <2>1. UNCHANGED <<pending, chain, storage, queue, published, received>>
    BY <1>7 DEF TransactionExists, RoundSucceeds, RoundRaises, FinalizeManyExist, EventRun, vars,
                task, broker, history
  <2> QED BY <2>1, IdleCalm
<1> QED BY <1>1, <1>2, <1>3, <1>4, <1>5, <1>6, <1>7 DEF Next, Task

LEMMA StepInOrder ==
  ASSUME IInv, Fresh, InOrder, ~Foul, ~Foul', ~Missed', [Next]_vars
  PROVE  InOrder'
<1>1. CASE RoundFails
  <2>1. pc = "consensus" /\ Take("consensus", "sync")
    BY <1>1 DEF RoundFails
  <2> QED BY <2>1, TakeCalm
<1>2. CASE FinalizeExists
  <2>1. pc = "finalize" /\ Take("halted", "sync") /\ storage # <<>>
    BY <1>2 DEF FinalizeExists
  <2> QED BY <2>1, TakeCalm
<1>3. CASE Accumulate
  <2>1. pc = "accumulate" /\ Take(Loop, "halted") /\ Loop # "halted"
    BY <1>3 DEF Accumulate, Loop
  <2> QED BY <2>1, TakeCalm
<1>4. CASE Link \/ FinalizeFails \/ SyncerRun \/ ProcessEvent
  BY <1>4, LinkCalm, FailCalm, SyncerCalm, ReceiveCalm DEF Foul
<1>5. CASE \E b \in Block : Publish(b)
  BY <1>5, PublishCalm
<1>6. CASE Lose
  BY <1>6, LoseCalm
<1>7. CASE RoundRaises
  BY <1>7 DEF RoundRaises, Foul
<1>8. CASE TransactionExists \/ RoundSucceeds \/ FinalizeManyExist \/ EventRun \/ UNCHANGED vars
  <2>1. pc' # "halted" /\ UNCHANGED <<pending, chain, storage, queue, published, received>>
    BY <1>8 DEF TransactionExists, RoundSucceeds, FinalizeManyExist, EventRun, vars,
                task, broker, history, InOrder
  <2> QED BY <2>1, IdleCalm
<1> QED BY <1>1, <1>2, <1>3, <1>4, <1>5, <1>6, <1>7, <1>8 DEF Next, Task

LEMMA StepCalm == IInv /\ CalmInv /\ [Next]_vars => CalmInv'
<1> SUFFICES ASSUME IInv, CalmInv, [Next]_vars, ~Foul' PROVE Fresh' /\ (~Missed' => InOrder')
  BY DEF CalmInv
<1>1. ~Foul /\ Fresh /\ (~Missed => InOrder)
  BY FoulStays DEF CalmInv
<1>2. Fresh'
  BY <1>1, StepFresh
<1>3. ASSUME ~Missed' PROVE InOrder'
  <2>1. CASE SyncerRun
    BY <1>1, <2>1, SyncerCalm
  <2>2. CASE ~SyncerRun
    <3>1. ~Missed
      BY <1>1, <1>3, <2>2, MissedStays
    <3> QED BY <1>1, <1>3, <3>1, StepInOrder
  <2> QED BY <2>1, <2>2
<1> QED BY <1>2, <1>3

\* Batches of any size, the AttributeError of get_finalize, rounds that fail around the
\* arrival of a block and what the syncer brings from before the start never end the loops
\* of Validator and Subscriber by themselves: it takes one of the five cases named in
\* EndsOnlyAfterTrouble, of which only a missed block can be made up for.
THEOREM OnlyTroubleEnds == Spec => []EndsOnlyAfterTrouble
<1>1. Init => CalmInv
  BY InitCalm
<1>2. IInv /\ CalmInv /\ [Next]_vars => CalmInv'
  BY StepCalm
<1>3. CalmInv => EndsOnlyAfterTrouble
  BY DEF CalmInv, InOrder, EndsOnlyAfterTrouble, Foul
<1> QED BY <1>1, <1>2, <1>3, Invariance, PTL DEF Spec

=============================================================================

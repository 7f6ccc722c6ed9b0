-------------------------- MODULE ChainStoreProof ---------------------------
(***************************************************************************)
(* Proofs about ChainStore, for all transactions, heights and numbers of   *)
(* crashes.                                                                *)
(*                                                                         *)
(* None of the properties is inductive.  IInv adds what is being committed *)
(* and from where (WorkIsNext), what has been written before (WrittenFirst,*)
(* GenesisFirst), and why a block may be incomplete (CommittedOrTorn).     *)
(***************************************************************************)
EXTENDS ChainStore, SequenceTheorems, TLAPS

-----------------------------------------------------------------------------
\* Prefixes of a chain.

\* The prefix of length k >= 1 consists of the one before it and element k.
LEMMA PrefixParts ==
    ASSUME NEW S, NEW s \in Seq(S), NEW k \in 1..Len(s)
    PROVE  LET p == SubSeq(s, 1, k) IN
           /\ p \in Seq(S) /\ Len(p) = k /\ p # <<>>
           /\ Last(p) = s[k]
           /\ Front(p) = SubSeq(s, 1, k - 1)
           /\ Append(Front(p), Last(p)) = p
<1> DEFINE p == SubSeq(s, 1, k)
           q == SubSeq(s, 1, k - 1)
<1>1. p \in Seq(S) /\ Len(p) = k /\ \A i \in 1..k : p[i] = s[i]
  <2>1. \A i \in 1..k : s[i] \in S
    OBVIOUS
  <2> QED BY <2>1, SubSeqProperties, Z3
<1>2. q \in Seq(S) /\ Len(q) = k - 1 /\ \A i \in 1..(k - 1) : q[i] = s[i]
  <2>1. \A i \in 1..(k - 1) : s[i] \in S
    OBVIOUS
  <2> QED BY <2>1, SubSeqProperties, Z3
<1>3. p # <<>> /\ Last(p) = s[k]
  BY <1>1 DEF Last
<1>4. Front(p) = q
  <2>1. Front(p) = SubSeq(p, 1, k - 1)
    BY <1>1 DEF Front
  <2>2. \A i \in 1..(k - 1) : p[i] \in S
    BY <1>1
  <2>3. /\ Front(p) \in Seq(S) /\ Len(Front(p)) = k - 1
        /\ \A i \in 1..(k - 1) : Front(p)[i] = p[i]
    BY <2>1, <2>2, SubSeqProperties, Z3
  <2> DEFINE f == Front(p)
  <2> HIDE DEF p, q, f
  <2>4. \A i \in 1..(k - 1) : f[i] = q[i]
    BY <1>1, <1>2, <2>3 DEF f
  <2>5. f \in Seq(S) /\ Len(f) = Len(q)
    BY <1>2, <2>3 DEF f
  <2>6. f = q
    BY <1>2, <2>4, <2>5, SeqEqual
  <2> QED BY <2>6 DEF f
<1>5. Append(q, s[k]) = p
  <2>1. s[k] \in S
    OBVIOUS
  <2>2. /\ Append(q, s[k]) \in Seq(S) /\ Len(Append(q, s[k])) = k
        /\ \A i \in 1..k : Append(q, s[k])[i] = s[i]
    <3> HIDE DEF q
    <3> QED BY <1>2, <2>1
  <2> DEFINE f == Append(q, s[k])
  <2> HIDE DEF p, q, f
  <2>3. f \in Seq(S) /\ Len(f) = Len(p) /\ \A i \in 1..Len(f) : f[i] = p[i]
    BY <1>1, <2>2 DEF f
  <2>4. f = p
    BY <1>1, <2>3, SeqEqual
  <2> QED BY <2>4 DEF f
<1> QED BY <1>1, <1>3, <1>4, <1>5

\* What is linked later does not change the chain below it.
LEMMA PrefixOfAppend ==
    ASSUME NEW S, NEW s \in Seq(S), NEW e \in S, NEW k \in 0..Len(s)
    PROVE  SubSeq(Append(s, e), 1, k) = SubSeq(s, 1, k)
<1> DEFINE a == Append(s, e)
           p == SubSeq(a, 1, k)
           q == SubSeq(s, 1, k)
<1>1. a \in Seq(S) /\ Len(a) = Len(s) + 1 /\ \A i \in 1..Len(s) : a[i] = s[i]
  OBVIOUS
<1>2. \A i \in 1..k : s[i] \in S /\ a[i] \in S
  <2> HIDE DEF a
  <2> QED BY <1>1
<1>3. p \in Seq(S) /\ Len(p) = k /\ \A i \in 1..k : p[i] = a[i]
  <2> HIDE DEF a
  <2> QED BY <1>2, SubSeqProperties, Z3
<1>4. q \in Seq(S) /\ Len(q) = k /\ \A i \in 1..k : q[i] = s[i]
  BY <1>2, SubSeqProperties, Z3
<1> HIDE DEF a, p, q
<1>5. \A i \in 1..k : p[i] = q[i]
  BY <1>1, <1>3, <1>4
<1>6. p = q
  BY <1>3, <1>4, <1>5, SeqEqual
<1> QED BY <1>6 DEF p, q, a

-----------------------------------------------------------------------------
\* Steps.

\* The order of the writes.
LEMMA Order ==
    /\ Writes = {"state", "transactions", "receipts", "votes", "top", "header", "block", "lookup"}
    /\ After["executed"] = "state" /\ After["state"] = "transactions"
    /\ After["transactions"] = "receipts" /\ After["receipts"] = "votes"
    /\ After["votes"] = "top" /\ After["top"] = "header" /\ After["header"] = "block"
    /\ After["block"] = "lookup" /\ After["lookup"] = "idle"
BY DEF Writes, After

\* The same for the block that is being committed.
LEMMA NextWrite ==
    /\ work # Genesis => \A w \in Writes : Proceed(w) = After[w]
    /\ work = Genesis => /\ Proceed("state") = "top" /\ Proceed("top") = "header"
                         /\ Proceed("header") = "block" /\ Proceed("block") = "idle"
    /\ \A w \in Writes : Proceed(w) \in Writes \cup {"idle"}
BY Order DEF Proceed

LEMMA GenesisIsBlock == Genesis \in Block /\ Len(Genesis) = 0 /\ Genesis \in Seq(Txs)
BY BoundsAssumption DEF Genesis, Block

\* A block of the network's chain and its parts.
LEMMA NextBlock ==
    ASSUME TypeOK, NEW k \in 1..Len(network)
    PROVE  LET b == SubSeq(network, 1, k) IN
           /\ b \in Block /\ Len(b) = k /\ b # Genesis
           /\ Last(b) = network[k] /\ Last(b) \in Txs
           /\ Front(b) = SubSeq(network, 1, k - 1)
           /\ Append(Front(b), Last(b)) = b
<1>1. network \in Seq(Txs) /\ Len(network) <= MaxHeight
  BY DEF TypeOK, Block
<1>2. LET b == SubSeq(network, 1, k) IN
      /\ b \in Seq(Txs) /\ Len(b) = k /\ b # <<>>
      /\ Last(b) = network[k] /\ Front(b) = SubSeq(network, 1, k - 1)
      /\ Append(Front(b), Last(b)) = b
  BY <1>1, PrefixParts
<1>3. network[k] \in Txs /\ k <= MaxHeight
  BY <1>1, BoundsAssumption
<1> QED BY <1>2, <1>3 DEF Block, Genesis

\* The chain of the network only grows.
LEMMA NetworkGrows ==
    ASSUME TypeOK, [Next]_vars
    PROVE  /\ Len(network') >= Len(network)
           /\ \A k \in 0..Len(network) : SubSeq(network', 1, k) = SubSeq(network, 1, k)
           /\ \A k \in 1..Len(network) : network'[k] = network[k]
<1>1. network \in Seq(Txs) /\ Len(network) \in Nat
  BY DEF TypeOK, Block
<1>2. CASE network' = network
  BY <1>1, <1>2
<1>3. CASE \E T \in Txs : network' = Append(network, T)
  BY <1>1, <1>3, PrefixOfAppend
<1>4. network' = network \/ \E T \in Txs : network' = Append(network, T)
  BY DEF Next, vars, memory, disk, history, Write, CommitState, SetTrie, PutTop, PutHeader,
     PutBlock, PutLookup, Finalize, Halt, MakeFinalize, OthersFinalize, PrepareChain, Crash
<1> QED BY <1>2, <1>3, <1>4

\* What has been written stays.
LEMMA DiskGrows ==
    ASSUME [Next]_vars
    PROVE  /\ states \subseteq states' /\ tries \subseteq tries' /\ blocks \subseteq blocks'
           /\ torn \subseteq torn'
BY DEF Next, vars, memory, disk, history, Write, CommitState, SetTrie, PutTop, PutHeader,
   PutBlock, PutLookup, Finalize, Halt, MakeFinalize, OthersFinalize, PrepareChain, Crash

\* A node that is up has linked the chain up to its top height.
LEMMA TopIsChain ==
    ASSUME IInv, pc \in {"idle", "await"}
    PROVE  /\ top \in Heights /\ top <= Len(network)
           /\ headers[top] = SubSeq(network, 1, top) /\ Len(headers[top]) = top
<1>1. top \in Heights /\ headers[top] # NoBlock
  BY DEF IInv, GenesisFirst, TypeOK, Heights
<1>2. top <= Len(network) /\ headers[top] = SubSeq(network, 1, top)
  BY <1>1 DEF IInv, StoredIsChain
<1>3. CASE top = 0
  BY <1>1, <1>2, <1>3, SubSeqEmpty
<1>4. CASE top # 0
  BY <1>1, <1>2, <1>4, NextBlock DEF IInv, TypeOK, Heights, Block
<1> QED BY <1>1, <1>2, <1>3, <1>4

LEMMA TypeStep == IInv /\ [Next]_vars => TypeOK'
<1> SUFFICES ASSUME IInv, [Next]_vars PROVE TypeOK'
  OBVIOUS
<1> USE BoundsAssumption, GenesisIsBlock, Order, NextWrite
<1>1. TypeOK /\ work \in Seq(Txs) /\ Len(work) \in 0..MaxHeight
      /\ network \in Seq(Txs) /\ Len(network) \in 0..MaxHeight
  BY DEF IInv, TypeOK, Block
<1>2. CASE CommitState
  BY <1>1, <1>2 DEF TypeOK, CommitState, history
<1>3. ASSUME NEW x \in Lists, SetTrie(x) PROVE TypeOK'
  BY <1>1, <1>3 DEF TypeOK, SetTrie, history, Lists
<1>4. CASE PutTop
  BY <1>1, <1>4 DEF TypeOK, PutTop, history, Heights
<1>5. CASE PutHeader
  BY <1>1, <1>5 DEF TypeOK, PutHeader, history, Heights
<1>6. CASE PutBlock
  BY <1>1, <1>6 DEF TypeOK, PutBlock, history
<1>7. ASSUME NEW t \in Tx, PutLookup(t) PROVE TypeOK'
  BY <1>1, <1>7 DEF TypeOK, PutLookup, history, Heights
<1>8. CASE Finalize
  <2>1. top \in 0..(Len(network) - 1)
    BY <1>1, <1>8 DEF Finalize, IInv, GenesisFirst, TypeOK, Heights
  <2>2. SubSeq(network, 1, top + 1) \in Block
    BY <1>1, <2>1, NextBlock
  <2> QED BY <1>1, <1>8, <2>2 DEF TypeOK, Finalize, Halt, disk, history
<1>9. ASSUME NEW T \in Txs, MakeFinalize(T) PROVE TypeOK'
  <2>1. Len(network) < MaxHeight /\ headers[top] = network
    BY <1>1, <1>9, TopIsChain DEF MakeFinalize
  <2>2. Append(network, T) \in Block /\ Executed(headers[top], T) = Append(network, T)
    BY <1>1, <2>1 DEF Executed, Block
  <2> QED BY <1>1, <1>9, <2>2 DEF TypeOK, MakeFinalize, Halt, disk, history
<1>10. ASSUME NEW T \in Txs, OthersFinalize(T) PROVE TypeOK'
  <2>1. Append(network, T) \in Block
    BY <1>1, <1>10 DEF OthersFinalize, Block
  <2> QED BY <1>1, <1>10, <2>1 DEF TypeOK, OthersFinalize, memory, disk, history
<1>11. CASE PrepareChain
  BY <1>1, <1>11 DEF TypeOK, PrepareChain, IInv, GenesisFirst, Heights, disk, history
<1>12. CASE Crash
  BY <1>1, <1>12 DEF TypeOK, Crash, disk
<1>13. CASE UNCHANGED vars
  BY <1>1, <1>13 DEF TypeOK, vars, memory, disk, history
<1> QED BY <1>2, <1>3, <1>4, <1>5, <1>6, <1>7, <1>8, <1>9, <1>10, <1>11, <1>12, <1>13
        DEF Next, Write

\* Which action writes what.
LEMMA WhoWrites ==
    ASSUME [Next]_vars
    PROVE  /\ headers' = headers \/ PutHeader
           /\ top' = top \/ PutTop
           /\ blocks' = blocks \/ PutBlock
           /\ lookups' = lookups \/ \E t \in Tx : PutLookup(t)
           /\ network' = network \/ \E T \in Txs : MakeFinalize(T) \/ OthersFinalize(T)
BY DEF Next, vars, memory, disk, history, Write, CommitState, SetTrie, PutTop, PutHeader,
   PutBlock, PutLookup, Finalize, Halt, MakeFinalize, OthersFinalize, PrepareChain, Crash

\* The new header is the next one of the chain.
LEMMA NewHeader ==
    ASSUME IInv, TypeOK', PutHeader
    PROVE  /\ Len(work) \in Heights /\ headers'[Len(work)] = work
           /\ \A h \in Heights : h # Len(work) => headers'[h] = headers[h]
           /\ Len(work) <= Len(network) /\ work = SubSeq(network, 1, Len(work))
           /\ top = Len(work)
           /\ \A g \in 0..Len(work) : headers'[g] # NoBlock
           /\ work \in Block /\ work # NoBlock
<1> USE NoBlockAssumption, Order
<1>1. /\ work \in Block /\ Len(work) \in Heights /\ work # NoBlock
      /\ Len(work) = 0 <=> work = Genesis
  BY DEF IInv, TypeOK, Block, Heights, Genesis
<1>2. /\ headers'[Len(work)] = work
      /\ \A h \in Heights : h # Len(work) => headers'[h] = headers[h]
  BY <1>1 DEF PutHeader, IInv, TypeOK
<1>3. Len(work) <= Len(network) /\ work = SubSeq(network, 1, Len(work)) /\ top = Len(work)
  BY <1>1 DEF PutHeader, IInv, WorkIsNext, Genesis
<1>4. ASSUME NEW g \in 0..Len(work), g # Len(work) PROVE headers'[g] # NoBlock
  <2>1. work # Genesis /\ Len(work) - 1 \in Heights /\ g \in 0..(Len(work) - 1) /\ g \in Heights
    BY <1>1, <1>4, BoundsAssumption DEF Heights
  <2>2. headers[Len(work) - 1] # NoBlock
    <3>1. headers[Len(work) - 1] \in blocks
      BY <2>1 DEF PutHeader, IInv, WorkIsNext
    <3> QED BY <3>1 DEF IInv, TypeOK
  <2>3. headers[g] # NoBlock
    BY <2>1, <2>2 DEF IInv, StoredIsChain
  <2> QED BY <1>2, <2>1, <2>3, <1>4
<1> QED BY <1>1, <1>2, <1>3, <1>4

LEMMA StoredStep == IInv /\ [Next]_vars /\ TypeOK' => StoredIsChain'
<1> SUFFICES ASSUME IInv, [Next]_vars, TypeOK',
                    NEW h \in Heights, headers'[h] # NoBlock
             PROVE  /\ h <= Len(network') /\ headers'[h] = SubSeq(network', 1, h)
                    /\ h < top' => headers'[h] \in blocks'
                    /\ \A g \in 0..h : headers'[g] # NoBlock
  BY DEF StoredIsChain
<1>0. Len(network) \in Nat /\ Len(network') \in Nat /\ top \in Int /\ Len(work) \in Nat
  BY DEF IInv, TypeOK, Block, Heights
<1>1. CASE PutHeader
  <2>1. network' = network /\ top' = top /\ blocks' = blocks
    BY <1>1 DEF PutHeader
  <2>2. CASE h = Len(work)
    BY <1>1, <2>1, <2>2, NewHeader DEF Heights
  <2>3. CASE h # Len(work)
    <3>1. headers'[h] = headers[h]
      BY <1>1, <2>3, NewHeader
    <3>2. /\ h <= Len(network) /\ headers[h] = SubSeq(network, 1, h)
          /\ h < top => headers[h] \in blocks
          /\ \A g \in 0..h : headers[g] # NoBlock
      BY <3>1 DEF IInv, StoredIsChain
    <3>3. ASSUME NEW g \in 0..h PROVE headers'[g] # NoBlock
      <4>1. g \in Heights /\ headers[g] # NoBlock
        BY <3>2, BoundsAssumption DEF Heights
      <4> QED BY <1>1, <4>1, NewHeader, NoBlockAssumption
    <3> QED BY <2>1, <3>1, <3>2, <3>3
  <2> QED BY <2>2, <2>3
<1>2. CASE headers' = headers
  <2>1. /\ h <= Len(network) /\ headers[h] = SubSeq(network, 1, h)
        /\ h < top => headers[h] \in blocks
        /\ \A g \in 0..h : headers[g] # NoBlock
    BY <1>2 DEF IInv, StoredIsChain
  <2>2. h <= Len(network') /\ headers'[h] = SubSeq(network', 1, h)
    BY <1>0, <1>2, <2>1, NetworkGrows DEF IInv, Heights
  <2>3. CASE top' = top
    BY <1>2, <2>1, <2>2, <2>3, DiskGrows
  <2>4. CASE PutTop
    <3>1. CASE work = Genesis
      <4>1. top' = 0
        BY <2>4, <3>1, GenesisIsBlock DEF PutTop
      <4> QED BY <1>2, <2>1, <2>2, <4>1 DEF Heights
    <3>2. CASE work # Genesis
      <4>1. top' = Len(work) /\ top = Len(work) - 1 /\ headers[top] \in blocks
        BY <2>4, <3>2, Order DEF PutTop, IInv, WorkIsNext
      <4>2. h < top' => headers[h] \in blocks
        <5>1. h \in Int
          BY BoundsAssumption DEF Heights
        <5>2. h < Len(work) => h < top \/ h = top
          BY <1>0, <4>1, <5>1
        <5> QED BY <2>1, <4>1, <5>2
      <4> QED BY <1>2, <2>1, <2>2, <4>2, DiskGrows
    <3> QED BY <3>1, <3>2
  <2> QED BY <2>3, <2>4, WhoWrites
<1> QED BY <1>1, <1>2, WhoWrites

LEMMA ReadableStep == IInv /\ [Next]_vars /\ TypeOK' => HeaderIsReadable'
<1> SUFFICES ASSUME IInv, [Next]_vars, TypeOK',
                    NEW h \in Heights, headers'[h] # NoBlock
             PROVE  /\ headers'[h] \in states'
                    /\ h > 0 => \A x \in Lists : <<x, headers'[h]>> \in tries'
  BY DEF HeaderIsReadable
<1>1. CASE headers'[h] = headers[h]
  BY <1>1, DiskGrows DEF IInv, HeaderIsReadable
<1>2. CASE PutHeader /\ h = Len(work)
  <2>1. headers'[h] = work /\ (h > 0 => work # Genesis)
    BY <1>2, NewHeader, GenesisIsBlock
  <2> QED BY <1>2, <2>1, DiskGrows, Order DEF PutHeader, IInv, WrittenFirst, Lists
<1> QED BY <1>1, <1>2, WhoWrites, NewHeader

LEMMA LookupStep == IInv /\ [Next]_vars /\ TypeOK' => LookupIsFound'
<1> SUFFICES ASSUME IInv, [Next]_vars, TypeOK',
                    NEW t \in Tx, lookups'[t] # 0
             PROVE  /\ headers'[lookups'[t]] \in blocks'
                    /\ t \in Last(headers'[lookups'[t]])
  BY DEF LookupIsFound
<1>1. CASE lookups'[t] = lookups[t]
  <2> DEFINE h == lookups[t]
  <2>1. h \in Heights /\ headers[h] \in blocks /\ t \in Last(headers[h])
    BY <1>1 DEF IInv, LookupIsFound, TypeOK
  <2>2. headers[h] # NoBlock
    BY <2>1, NoBlockAssumption DEF IInv, TypeOK
  <2>3. headers'[h] = headers[h]
    <3>1. CASE PutHeader /\ h = Len(work)
      BY <2>1, <2>2, <3>1, NewHeader DEF IInv, StoredIsChain
    <3> QED BY <2>1, <3>1, WhoWrites, NewHeader
  <2> QED BY <1>1, <2>1, <2>3, DiskGrows
<1>2. ASSUME NEW u \in Tx, PutLookup(u), t = u PROVE headers'[lookups'[t]] \in blocks'
                                                   /\ t \in Last(headers'[lookups'[t]])
  <2>1. lookups'[t] = Len(work) /\ t \in Last(work) /\ headers' = headers /\ blocks' = blocks
    BY <1>2 DEF PutLookup, IInv, TypeOK
  <2>2. headers[Len(work)] = work /\ work \in blocks
    BY <1>2, Order DEF PutLookup, IInv, WorkIsNext
  <2> QED BY <2>1, <2>2
<1>3. ASSUME NEW u \in Tx, PutLookup(u), t # u PROVE lookups'[t] = lookups[t]
  BY <1>3 DEF PutLookup, IInv, TypeOK
<1> QED BY <1>1, <1>2, <1>3, WhoWrites

LEMMA GenesisStep == IInv /\ [Next]_vars /\ TypeOK' => GenesisFirst'
<1> SUFFICES ASSUME IInv, [Next]_vars, TypeOK'
             PROVE  GenesisFirst'
  OBVIOUS
<1> USE NoBlockAssumption, BoundsAssumption, Order, GenesisIsBlock
<1>0. top \in Int /\ Len(work) \in Heights /\ (Len(work) = 0 <=> work = Genesis)
  BY DEF IInv, TypeOK, Block, Heights, Genesis
<1>1. Genesis \notin blocks' => top' <= 0 /\ \A h \in 1..MaxHeight : headers'[h] = NoBlock
  <2> SUFFICES ASSUME Genesis \notin blocks'
               PROVE  top' <= 0 /\ \A h \in 1..MaxHeight : headers'[h] = NoBlock
    OBVIOUS
  <2>1. Genesis \notin blocks /\ top <= 0 /\ \A h \in 1..MaxHeight : headers[h] = NoBlock
    BY DiskGrows DEF IInv, GenesisFirst
  <2>2. PutTop \/ PutHeader => work = Genesis
    BY <2>1 DEF PutTop, PutHeader, IInv, WorkIsNext
  <2>3. top' <= 0
    BY <1>0, <2>1, <2>2, WhoWrites DEF PutTop
  <2>4. ASSUME NEW h \in 1..MaxHeight PROVE headers'[h] = NoBlock
    <3>1. h \in Heights
      BY DEF Heights
    <3> QED BY <1>0, <2>1, <2>2, <3>1, WhoWrites, NewHeader
  <2> QED BY <2>3, <2>4
<1>2. Genesis \in blocks' => top' >= 0
  <2>1. CASE PutTop
    BY <1>0, <2>1 DEF PutTop, Heights
  <2>2. CASE PutBlock
    <3>1. top \in {Len(work), 0}
      BY <2>2 DEF PutBlock, IInv, WorkIsNext
    <3> QED BY <1>0, <2>2, <3>1 DEF PutBlock, Heights
  <2>3. CASE top' = top /\ blocks' = blocks
    BY <2>3 DEF IInv, GenesisFirst
  <2> QED BY <2>1, <2>2, <2>3, WhoWrites
<1>3. ASSUME NEW h \in Heights, headers'[h] # NoBlock PROVE h <= top'
  <2>1. CASE PutHeader
    <3>1. top' = top /\ top = Len(work)
      BY <2>1, NewHeader DEF PutHeader
    <3> QED BY <1>3, <2>1, <3>1, NewHeader DEF IInv, GenesisFirst, Heights
  <2>2. CASE headers' = headers
    <3>1. h <= top
      BY <1>3, <2>2 DEF IInv, GenesisFirst
    <3>2. top' >= top
      <4>1. CASE PutTop /\ work = Genesis
        BY <1>0, <4>1 DEF PutTop, IInv, WorkIsNext, GenesisFirst
      <4>2. CASE PutTop /\ work # Genesis
        BY <1>0, <4>2 DEF PutTop, IInv, WorkIsNext, Heights
      <4> QED BY <1>0, <4>1, <4>2, WhoWrites
    <3> QED BY <1>0, <1>3, <3>1, <3>2 DEF Heights, TypeOK
  <2> QED BY <2>1, <2>2, WhoWrites
<1>4. ASSUME pc' \in {"idle", "await"} PROVE Genesis \in blocks' /\ headers'[top'] # NoBlock
  <2>1. CASE PutBlock
    <3>1. work = Genesis
      BY <1>4, <2>1, NextWrite DEF PutBlock
    <3>2. top' = 0 /\ headers'[0] = work /\ blocks' = blocks \cup {work}
      BY <2>1, <3>1 DEF PutBlock, IInv, WorkIsNext
    <3> QED BY <3>1, <3>2
  <2>2. ASSUME NEW t \in Tx, PutLookup(t) PROVE Genesis \in blocks' /\ headers'[top'] # NoBlock
    <3>1. work # Genesis
      BY <2>2 DEF PutLookup, IInv, WorkIsNext
    <3>2. Genesis \in blocks /\ headers[top] = work /\ work \in Block
      BY <2>2, <3>1 DEF PutLookup, IInv, WorkIsNext, TypeOK
    <3> QED BY <2>2, <3>2 DEF PutLookup
  <2>3. CASE /\ pc \in {"idle", "await"} \/ PrepareChain
             /\ UNCHANGED disk
    BY <1>4, <2>3 DEF IInv, GenesisFirst, disk, PrepareChain
  <2>4. ~ (CommitState \/ (\E x \in Lists : SetTrie(x)) \/ PutTop \/ PutHeader)
    <3>1. ~CommitState /\ ~PutTop /\ ~PutHeader
      BY <1>4, NextWrite DEF CommitState, PutTop, PutHeader
    <3>2. ASSUME NEW x \in Lists, SetTrie(x) PROVE FALSE
      <4>1. pc \in {"transactions", "receipts", "votes"} /\ work # Genesis
        BY <3>2 DEF SetTrie, Lists, IInv, WorkIsNext
      <4> QED BY <1>4, <3>2, <4>1, NextWrite DEF SetTrie
    <3> QED BY <3>1, <3>2
  <2>5. \/ PutBlock \/ \E t \in Tx : PutLookup(t)
        \/ (pc \in {"idle", "await"} \/ PrepareChain) /\ UNCHANGED disk
    BY <1>4, <2>4 DEF Next, Write, Finalize, MakeFinalize, Halt, OthersFinalize, PrepareChain, Crash,
       vars, memory, disk, history
  <2> QED BY <2>1, <2>2, <2>3, <2>5
<1> QED BY <1>1, <1>2, <1>3, <1>4 DEF GenesisFirst

LEMMA WrittenStep == IInv /\ [Next]_vars /\ TypeOK' => WrittenFirst'
<1> SUFFICES ASSUME IInv, [Next]_vars PROVE WrittenFirst'
  OBVIOUS
<1> USE Order, NextWrite
<1>0. WrittenFirst /\ WorkIsNext
  BY DEF IInv
<1>1. CASE CommitState
  BY <1>0, <1>1 DEF CommitState, WrittenFirst, WorkIsNext
<1>2. ASSUME NEW x \in Lists, SetTrie(x) PROVE WrittenFirst'
  BY <1>0, <1>2 DEF SetTrie, WrittenFirst, WorkIsNext, Lists
<1>3. CASE PutTop \/ PutHeader \/ PutBlock \/ \E t \in Tx : PutLookup(t)
  BY <1>0, <1>3 DEF PutTop, PutHeader, PutBlock, PutLookup, WrittenFirst, WorkIsNext
<1>4. CASE pc' \notin Writes \ {"state"}
  BY <1>4 DEF WrittenFirst
<1>5. CASE UNCHANGED <<pc, work>>
  BY <1>0, <1>5, DiskGrows DEF WrittenFirst
<1>6. pc' \notin Writes \ {"state"} \/ UNCHANGED <<pc, work>> \/ Write
  BY DEF Next, vars, memory, Finalize, MakeFinalize, Halt, OthersFinalize, PrepareChain, Crash
<1> QED BY <1>1, <1>2, <1>3, <1>4, <1>5, <1>6 DEF Write

LEMMA WorkStep == IInv /\ [Next]_vars /\ TypeOK' => WorkIsNext'
<1> SUFFICES ASSUME IInv, [Next]_vars, TypeOK', pc' \in Writes PROVE WorkIsNext'
  BY DEF WorkIsNext
<1> USE Order, NextWrite, NoBlockAssumption
<1>0. /\ WorkIsNext /\ TypeOK
      /\ work \in Seq(Txs) /\ Len(work) \in Heights /\ (Len(work) = 0 <=> work = Genesis)
      /\ Len(network) \in Nat /\ top \in Int
  <2>1. work \in Seq(Txs) /\ Len(work) <= MaxHeight /\ network \in Seq(Txs)
    BY DEF IInv, TypeOK, Block
  <2>2. top \in Int
    BY BoundsAssumption DEF IInv, TypeOK, Heights
  <2> QED BY <2>1, <2>2, BoundsAssumption DEF IInv, Heights, Genesis
<1>1. CASE CommitState
  BY <1>0, <1>1 DEF CommitState, WorkIsNext, history
<1>2. ASSUME NEW x \in Lists, SetTrie(x) PROVE WorkIsNext'
  BY <1>0, <1>2 DEF SetTrie, Lists, WorkIsNext, history
<1>3. CASE PutTop
  <2>1. work = Genesis => top' = 0
    BY <1>0, <1>3 DEF PutTop
  <2> QED BY <1>0, <1>3, <2>1 DEF PutTop, WorkIsNext, history
<1>4. CASE PutHeader
  <2>1. work # Genesis => headers'[Len(work) - 1] = headers[Len(work) - 1]
    <3>1. work # Genesis => Len(work) - 1 \in Heights
      BY <1>0, BoundsAssumption DEF Heights
    <3> QED BY <1>0, <1>4, <3>1, NewHeader
  <2> QED BY <1>0, <1>4, <2>1, NewHeader DEF PutHeader, WorkIsNext, history
<1>5. CASE PutBlock
  BY <1>0, <1>5 DEF PutBlock, WorkIsNext, history
<1>6. ASSUME NEW t \in Tx, PutLookup(t) PROVE WorkIsNext'
  BY <1>0, <1>6 DEF PutLookup, WorkIsNext, history
<1>7. CASE Finalize
  <2> DEFINE b == SubSeq(network, 1, top + 1)
  <2>1. /\ pc \in {"idle", "await"} /\ top < Len(network)
        /\ Front(b) \in blocks /\ pc' = "state" /\ work' = b /\ root' = b
        /\ UNCHANGED <<disk, network>>
    BY <1>7 DEF Finalize, Halt
  <2>2. /\ top \in Heights /\ top + 1 \in 1..Len(network)
        /\ headers[top] = SubSeq(network, 1, top)
    BY <1>0, <2>1, TopIsChain, BoundsAssumption DEF Heights
  <2>3. b # Genesis /\ Len(b) = top + 1 /\ Front(b) = SubSeq(network, 1, (top + 1) - 1)
    BY <1>0, <2>2, NextBlock
  <2>4. Genesis \in blocks
    BY <2>1 DEF IInv, GenesisFirst
  <2>5. (top + 1) - 1 = top /\ Len(work') = top + 1 /\ Len(work') <= Len(network)
    BY <1>0, <2>1, <2>2, <2>3
  <2> HIDE DEF b
  <2>6. headers[top] = Front(b)
    BY <2>2, <2>3, <2>5
  <2>7. work' = SubSeq(network', 1, Len(work'))
    BY <2>1, <2>5 DEF b
  <2>8. Len(work') - 1 = top
    BY <1>0, <2>5
  <2> QED BY <2>1, <2>3, <2>4, <2>5, <2>6, <2>7, <2>8 DEF WorkIsNext, disk
<1>8. CASE PrepareChain
  <2>1. /\ Genesis \notin blocks /\ pc' = "state" /\ work' = Genesis /\ root' = Genesis
        /\ UNCHANGED <<blocks, network>>
    BY <1>8 DEF PrepareChain, disk
  <2>2. SubSeq(network', 1, 0) = Genesis
    BY SubSeqEmpty DEF Genesis
  <2> QED BY <1>0, <2>1, <2>2, GenesisIsBlock DEF WorkIsNext
<1>9. ASSUME NEW T \in Txs, OthersFinalize(T) PROVE WorkIsNext'
  <2>1. pc \in Writes /\ UNCHANGED <<memory, disk>>
    BY <1>9 DEF OthersFinalize, memory
  <2>2. Len(work) <= Len(network) /\ Len(network') >= Len(network)
        /\ SubSeq(network', 1, Len(work)) = SubSeq(network, 1, Len(work))
    BY <1>0, <2>1, NetworkGrows, BoundsAssumption DEF WorkIsNext, Heights
  <2>3. Len(work) <= Len(network')
    BY <1>0, <2>2, BoundsAssumption DEF TypeOK, Block, Heights
  <2> QED BY <1>0, <2>1, <2>2, <2>3 DEF WorkIsNext, memory, disk
<1>10. CASE UNCHANGED vars
  BY <1>0, <1>10 DEF WorkIsNext, vars, memory, disk
<1>11. ASSUME NEW T \in Txs, MakeFinalize(T) PROVE FALSE
  BY <1>11 DEF MakeFinalize, Halt
<1>12. ~Crash
  BY DEF Crash
<1> QED BY <1>1, <1>2, <1>3, <1>4, <1>5, <1>6, <1>7, <1>8, <1>9, <1>10, <1>11, <1>12
        DEF Next, Write

\* The header of the block that is being committed is the only one equal to it.
LEMMA HeaderHeight ==
    ASSUME IInv, NEW h \in Heights, headers[h] # NoBlock
    PROVE  headers[h] \in Block /\ Len(headers[h]) = h
<1>1. headers[h] \in Block /\ h <= Len(network) /\ headers[h] = SubSeq(network, 1, h)
  BY DEF IInv, StoredIsChain, TypeOK
<1>2. CASE h = 0
  BY <1>1, <1>2, SubSeqEmpty
<1>3. CASE h # 0
  <2>1. h \in 1..Len(network)
    BY <1>1, <1>3, BoundsAssumption DEF Heights, IInv, TypeOK, Block
  <2> QED BY <1>1, <2>1, NextBlock DEF IInv
<1> QED BY <1>1, <1>2, <1>3

LEMMA CommittedStep == IInv /\ [Next]_vars /\ TypeOK' => CommittedOrTorn'
<1> SUFFICES ASSUME IInv, [Next]_vars, TypeOK',
                    NEW h \in Heights, headers'[h] # NoBlock,
                    ~(pc' \in Writes /\ work' = headers'[h])
             PROVE  \/ headers'[h] \in torn'
                    \/ /\ headers'[h] \in blocks'
                       /\ h > 0 => \A t \in Last(headers'[h]) : lookups'[t] # 0
  BY DEF CommittedOrTorn
<1> USE Order, NextWrite, NoBlockAssumption
<1>0. /\ CommittedOrTorn /\ WorkIsNext
      /\ work \in Seq(Txs) /\ Len(work) \in Heights /\ (Len(work) = 0 <=> work = Genesis)
  <2>1. work \in Seq(Txs) /\ Len(work) <= MaxHeight
    BY DEF IInv, TypeOK, Block
  <2> QED BY <2>1, BoundsAssumption DEF IInv, Heights, Genesis
\* A lookup that is set stays set.
<1>1. ASSUME NEW t \in Tx, lookups[t] # 0 PROVE lookups'[t] # 0
  <2>1. ASSUME NEW u \in Tx, PutLookup(u) PROVE lookups'[t] # 0
    <3>1. work # Genesis /\ Len(work) # 0
      BY <1>0, <2>1 DEF PutLookup, WorkIsNext
    <3> QED BY <1>1, <2>1, <3>1 DEF PutLookup, IInv, TypeOK
  <2> QED BY <1>1, <2>1, WhoWrites
<1>2. ASSUME headers'[h] = headers[h], ~(pc \in Writes /\ work = headers[h])
      PROVE  \/ headers'[h] \in torn'
             \/ /\ headers'[h] \in blocks'
                /\ h > 0 => \A t \in Last(headers'[h]) : lookups'[t] # 0
  <2>1. CASE headers[h] \in torn
    BY <1>2, <2>1, DiskGrows
  <2>2. CASE headers[h] \notin torn
    <3>1. headers[h] \in blocks /\ (h > 0 => \A t \in Last(headers[h]) : lookups[t] # 0)
      BY <1>0, <1>2, <2>2 DEF CommittedOrTorn
    <3>2. h > 0 => Last(headers[h]) \in SUBSET Tx
      <4> SUFFICES ASSUME h > 0 PROVE Last(headers[h]) \in SUBSET Tx
        OBVIOUS
      <4>1. h <= Len(network) /\ headers[h] = SubSeq(network, 1, h)
        BY <1>2 DEF IInv, StoredIsChain
      <4>2. h \in 1..Len(network)
        BY <4>1, BoundsAssumption DEF Heights, IInv, TypeOK, Block
      <4> QED BY <4>1, <4>2, NextBlock DEF IInv, Txs
    <3> QED BY <1>1, <1>2, <3>1, <3>2, DiskGrows
  <2> QED BY <2>1, <2>2
<1>3. CASE PutHeader
  <2>1. h # Len(work)
    BY <1>3, NewHeader DEF PutHeader
  <2>2. headers'[h] = headers[h]
    BY <1>3, <2>1, NewHeader
  <2> QED BY <1>2, <1>3, <2>1, <2>2, HeaderHeight
<1>4. CASE headers' = headers /\ pc \in Writes /\ work = headers[h]
  <2>1. CASE Crash
    BY <1>4, <2>1 DEF Crash
  <2>2. CASE PutBlock
    <3>1. work = Genesis
      BY <1>4, <2>2 DEF PutBlock
    <3>2. h = 0 /\ headers'[h] \in blocks'
      BY <1>0, <1>4, <2>2, <3>1, HeaderHeight DEF PutBlock
    <3> QED BY <3>2
  <2>3. ASSUME NEW t \in Tx, PutLookup(t)
        PROVE  /\ headers'[h] \in blocks'
               /\ h > 0 => \A u \in Last(headers'[h]) : lookups'[u] # 0
    <3>1. /\ \A u \in Last(work) : lookups'[u] = Len(work)
          /\ work \in blocks /\ work # Genesis
      BY <1>0, <1>4, <2>3 DEF PutLookup, WorkIsNext
    <3> QED BY <1>0, <1>4, <3>1, DiskGrows
  <2>4. CommitState \/ (\E x \in Lists : SetTrie(x)) \/ PutTop \/ PutHeader => FALSE
    <3>1. ASSUME NEW x \in Lists, SetTrie(x) PROVE FALSE
      <4>1. pc \in {"transactions", "receipts", "votes"} /\ work # Genesis
        BY <1>0, <3>1 DEF SetTrie, Lists, WorkIsNext
      <4> QED BY <1>4, <3>1, <4>1 DEF SetTrie
    <3>2. ~CommitState /\ ~PutTop /\ ~PutHeader
      BY <1>4 DEF CommitState, PutTop, PutHeader
    <3> QED BY <3>1, <3>2
  <2>5. Crash \/ Write
    BY <1>4 DEF Next, vars, memory, Finalize, MakeFinalize, Halt, OthersFinalize, PrepareChain
  <2> QED BY <2>1, <2>2, <2>3, <2>4, <2>5 DEF Write
<1> QED BY <1>2, <1>3, <1>4, WhoWrites

LEMMA IdleStep == IInv /\ [Next]_vars /\ TypeOK' => IdleIsAtTop'
<1> SUFFICES ASSUME IInv, [Next]_vars, TypeOK', GenesisFirst', HeaderIsReadable', pc' = "idle"
             PROVE  root' = headers'[top'] /\ root' \in states'
  BY GenesisStep, ReadableStep DEF IdleIsAtTop
<1> USE Order, NextWrite, NoBlockAssumption
<1>1. root' = headers'[top']
  <2>1. CASE PutBlock
    <3>1. work = Genesis
      BY <2>1 DEF PutBlock
    <3> QED BY <2>1, <3>1, GenesisIsBlock DEF PutBlock, IInv, WorkIsNext
  <2>2. ASSUME NEW t \in Tx, PutLookup(t) PROVE root' = headers'[top']
    BY <2>2 DEF PutLookup, IInv, WorkIsNext
  <2>3. CASE PrepareChain
    BY <2>3 DEF PrepareChain, disk
  <2>4. CASE pc = "idle" /\ UNCHANGED <<root, headers, top>>
    BY <2>4 DEF IInv, IdleIsAtTop
  <2>5. CommitState \/ (\E x \in Lists : SetTrie(x)) \/ PutTop \/ PutHeader => FALSE
    <3>1. ASSUME NEW x \in Lists, SetTrie(x) PROVE FALSE
      <4>1. pc \in {"transactions", "receipts", "votes"} /\ work # Genesis
        BY <3>1 DEF SetTrie, Lists, IInv, WorkIsNext
      <4> QED BY <3>1, <4>1 DEF SetTrie
    <3>2. ~CommitState /\ ~PutTop /\ ~PutHeader
      BY DEF CommitState, PutTop, PutHeader
    <3> QED BY <3>1, <3>2
  <2>6. Write \/ PrepareChain \/ (pc = "idle" /\ UNCHANGED <<root, headers, top>>)
    <3>1. ~Finalize
      BY DEF Finalize, Halt
    <3>2. ASSUME NEW T \in Txs PROVE ~MakeFinalize(T)
      BY DEF MakeFinalize, Halt
    <3>3. ASSUME NEW T \in Txs, OthersFinalize(T) PROVE pc = "idle" /\ UNCHANGED <<root, headers, top>>
      BY <3>3 DEF OthersFinalize, memory, disk
    <3>4. ~Crash
      BY DEF Crash
    <3>5. CASE UNCHANGED vars
      BY <3>5 DEF vars, memory, disk
    <3>6. Next \/ UNCHANGED vars
      OBVIOUS
    <3> QED BY <3>1, <3>2, <3>3, <3>4, <3>5, <3>6, Zenon DEF Next
  <2> QED BY <2>1, <2>2, <2>3, <2>4, <2>5, <2>6 DEF Write
<1>2. top' \in Heights /\ headers'[top'] # NoBlock
  BY DEF GenesisFirst, TypeOK, Heights
<1> QED BY <1>1, <1>2 DEF HeaderIsReadable

LEMMA HaltStep == IInv /\ [Next]_vars /\ TypeOK' => HaltsOnlyIfTorn'
<1> SUFFICES ASSUME IInv, [Next]_vars, TypeOK', pc' = "halted"
             PROVE  headers'[top'] \in torn' /\ headers'[top'] \notin blocks'
  BY DEF HaltsOnlyIfTorn
<1> USE Order, NextWrite, NoBlockAssumption
\* A node that is up and whose top block is not stored was interrupted.
<1>1. ASSUME pc \in {"idle", "await"}, headers[top] \notin blocks PROVE headers[top] \in torn
  <2>1. top \in Heights /\ headers[top] # NoBlock
    BY <1>1, TopIsChain DEF IInv, GenesisFirst
  <2> QED BY <1>1, <2>1 DEF IInv, CommittedOrTorn
<1>2. CASE Finalize
  <2> DEFINE b == SubSeq(network, 1, top + 1)
  <2>1. pc \in {"idle", "await"} /\ UNCHANGED <<disk, history>>
    BY <1>2 DEF Finalize
  <2>2. ~(Front(b) \in blocks /\ Executed(headers[top], Last(b)) = b)
    BY <1>2 DEF Finalize
  <2>3. Front(b) = headers[top] /\ Append(Front(b), Last(b)) = b
    <3>1. top \in Heights /\ headers[top] = SubSeq(network, 1, top) /\ top < Len(network)
      BY <1>2, <2>1, TopIsChain DEF Finalize
    <3>2. top + 1 \in 1..Len(network) /\ (top + 1) - 1 = top
      BY <3>1, BoundsAssumption DEF Heights, IInv, TypeOK, Block
    <3> QED BY <3>1, <3>2, NextBlock DEF IInv
  <2>4. headers[top] \notin blocks
    BY <2>2, <2>3 DEF Executed
  <2> QED BY <1>1, <2>1, <2>4 DEF disk, history
<1>3. ASSUME NEW T \in Txs, MakeFinalize(T)
      PROVE  headers'[top'] \in torn' /\ headers'[top'] \notin blocks'
  <2>1. pc = "idle" /\ headers[top] \notin blocks /\ UNCHANGED <<disk, history>>
    BY <1>3 DEF MakeFinalize
  <2> QED BY <1>1, <2>1 DEF disk, history
<1>4. CASE pc = "halted" /\ UNCHANGED <<headers, top, blocks>>
  BY <1>4, DiskGrows DEF IInv, HaltsOnlyIfTorn
<1>5. ~CommitState /\ ~(\E x \in Lists : SetTrie(x)) /\ ~PutTop /\ ~PutHeader /\ ~PutBlock
      /\ ~(\E t \in Tx : PutLookup(t))
  <2>1. ASSUME NEW w \in Writes, pc = w PROVE Proceed(pc) # "halted" /\ pc # "halted"
    BY <2>1
  <2>2. ~CommitState /\ ~PutTop /\ ~PutHeader /\ ~PutBlock
    BY <2>1 DEF CommitState, PutTop, PutHeader, PutBlock
  <2>3. ASSUME NEW x \in Lists PROVE ~SetTrie(x)
    BY <2>1 DEF SetTrie, Lists
  <2>4. ASSUME NEW t \in Tx PROVE ~PutLookup(t)
    BY <2>1 DEF PutLookup
  <2> QED BY <2>2, <2>3, <2>4
<1>6. Finalize \/ (\E T \in Txs : MakeFinalize(T))
      \/ (pc = "halted" /\ UNCHANGED <<headers, top, blocks>>)
  <2>1. ASSUME NEW T \in Txs, OthersFinalize(T) PROVE pc = "halted" /\ UNCHANGED <<headers, top, blocks>>
    BY <2>1 DEF OthersFinalize, memory, disk
  <2>2. ~Crash /\ ~PrepareChain
    BY DEF Crash, PrepareChain
  <2>3. CASE UNCHANGED vars
    BY <2>3 DEF vars, memory, disk
  <2>4. Next \/ UNCHANGED vars
    OBVIOUS
  <2> QED BY <1>5, <2>1, <2>2, <2>3, <2>4, Zenon DEF Next, Write
<1> QED BY <1>2, <1>3, <1>4, <1>6

LEMMA ReplayedStep == IInv /\ [Next]_vars /\ TypeOK' => ReplayedOnlyIfTorn'
<1> SUFFICES ASSUME IInv, [Next]_vars, TypeOK',
                    NEW i \in 1..Len(network'), NEW j \in 1..Len(network'), i < j,
                    NEW t \in network'[i] \cap network'[j]
             PROVE  SubSeq(network', 1, i) \in torn'
  BY DEF ReplayedOnlyIfTorn
<1> USE BoundsAssumption
<1>0. network \in Seq(Txs) /\ Len(network) \in Nat /\ network' \in Seq(Txs)
  BY DEF IInv, TypeOK, Block
<1>1. CASE j \in 1..Len(network)
  <2>1. i \in 1..Len(network) /\ i \in 0..Len(network)
    BY <1>0, <1>1
  <2>2. network'[i] = network[i] /\ network'[j] = network[j]
        /\ SubSeq(network', 1, i) = SubSeq(network, 1, i)
    BY <1>1, <2>1, NetworkGrows DEF IInv
  <2> QED BY <1>1, <2>1, <2>2, DiskGrows DEF IInv, ReplayedOnlyIfTorn
<1>2. ASSUME NEW T \in Txs, network' = Append(network, T), j \notin 1..Len(network)
      PROVE  /\ i \in 1..Len(network) /\ SubSeq(network', 1, i) = SubSeq(network, 1, i)
             /\ t \in network[i] /\ t \in T
  <2>1. j = Len(network) + 1 /\ i \in 1..Len(network) /\ network'[j] = T
    BY <1>0, <1>2
  <2>2. i \in 0..Len(network)
    BY <1>0, <2>1
  <2> QED BY <2>1, <2>2, NetworkGrows DEF IInv
<1>3. ASSUME NEW T \in Txs, OthersFinalize(T), j \notin 1..Len(network) PROVE FALSE
  BY <1>2, <1>3 DEF OthersFinalize
<1>4. ASSUME NEW T \in Txs, MakeFinalize(T), j \notin 1..Len(network), network' # network
      PROVE  SubSeq(network', 1, i) \in torn'
  <2>1. /\ network' = Append(network, T) /\ pc = "idle" /\ headers[top] = network
        /\ \A u \in T : lookups[u] = 0
    BY <1>4 DEF MakeFinalize, Unknown
  <2>2. /\ i \in 1..Len(network) /\ SubSeq(network', 1, i) = SubSeq(network, 1, i)
        /\ t \in network[i] /\ lookups[t] = 0
    BY <1>2, <1>4, <2>1
  <2>3. top \in Heights /\ top = Len(network) /\ headers[top] # NoBlock
    BY <2>1, TopIsChain DEF IInv, GenesisFirst
  <2>4. i \in Heights /\ i \in 0..top /\ i > 0
    BY <2>2, <2>3 DEF Heights
  <2>5. headers[i] # NoBlock
    BY <2>3, <2>4 DEF IInv, StoredIsChain
  <2>6. headers[i] = SubSeq(network, 1, i) /\ Last(headers[i]) = network[i]
    BY <2>2, <2>4, <2>5, NextBlock DEF IInv, StoredIsChain
  <2>7. headers[i] \in torn
    BY <2>1, <2>2, <2>4, <2>5, <2>6, Order DEF IInv, CommittedOrTorn
  <2> QED BY <2>2, <2>6, <2>7, DiskGrows
<1>5. CASE network' = network
  BY <1>1, <1>5
<1> QED BY <1>1, <1>3, <1>4, <1>5, WhoWrites

-----------------------------------------------------------------------------
\* Theorems.

\* Everything the run checks of the chain on disk, and what it rests on.
THEOREM Invariance == Spec => []IInv
<1> USE BoundsAssumption, NoBlockAssumption, GenesisIsBlock
<1>1. Init => IInv
  <2> SUFFICES ASSUME Init PROVE IInv
    OBVIOUS
  <2>1. Len(network) = 0 /\ pc \notin Writes /\ \A h \in Heights : headers[h] = NoBlock
    BY Order DEF Init
  <2>2. TypeOK
    BY <2>1 DEF Init, TypeOK, Heights
  <2>3. StoredIsChain /\ HeaderIsReadable /\ GenesisFirst /\ CommittedOrTorn
    <3>1. blocks = {} /\ top = -1 /\ pc = "down" /\ \A h \in 1..MaxHeight : h \in Heights
      BY DEF Init, Heights
    <3>2. StoredIsChain /\ HeaderIsReadable /\ CommittedOrTorn
      BY <2>1 DEF StoredIsChain, HeaderIsReadable, CommittedOrTorn
    <3>3. GenesisFirst
      BY <2>1, <3>1 DEF GenesisFirst
    <3> QED BY <3>2, <3>3
  <2>4. LookupIsFound
    BY DEF Init, LookupIsFound
  <2>5. ReplayedOnlyIfTorn
    <3>1. 1..Len(network) = {}
      BY <2>1
    <3> QED BY <3>1 DEF ReplayedOnlyIfTorn
  <2>6. IdleIsAtTop /\ HaltsOnlyIfTorn /\ WorkIsNext /\ WrittenFirst
    BY <2>1 DEF Init, IdleIsAtTop, HaltsOnlyIfTorn, WorkIsNext, WrittenFirst
  <2> QED BY <2>2, <2>3, <2>4, <2>5, <2>6 DEF IInv
<1>2. IInv /\ [Next]_vars => IInv'
  BY TypeStep, StoredStep, ReadableStep, LookupStep, ReplayedStep, IdleStep, HaltStep, WorkStep,
     WrittenStep, GenesisStep, CommittedStep DEF IInv
<1> QED BY <1>1, <1>2, PTL DEF Spec

\* Type correctness of ChainStore.
THEOREM TypeCorrect == Spec => []TypeOK
BY Invariance, PTL DEF IInv

\* The chain on disk has no gap below its top, whatever writes of
\* ChainDB.commit crashes have cut off.
THEOREM NoGap == Spec => []StoredIsChain
BY Invariance, PTL DEF IInv

\* A stored header has its state and its tries: the order of Wagon._commit.
THEOREM Readable == Spec => []HeaderIsReadable
BY Invariance, PTL DEF IInv

\* Lookups lead to stored blocks that contain the transaction.
THEOREM Found == Spec => []LookupIsFound
BY Invariance, PTL DEF IInv

\* has_transaction keeps a proposer from executing a transaction again, except
\* after a crash that cut off the lookups.
THEOREM NoReplayUnlessTorn == Spec => []ReplayedOnlyIfTorn
BY Invariance, PTL DEF IInv

\* The trie of StateDB is at the root of the top block, or is set to it before
\* the next execution.
THEOREM AtTop == Spec => []IdleIsAtTop
BY Invariance, PTL DEF IInv

\* Chain.finalize fails on a block of the network only where a crash left a
\* header without its block.
THEOREM NoHaltUnlessTorn == Spec => []HaltsOnlyIfTorn
BY Invariance, PTL DEF IInv

\* What a lookup finds it also reads, and it is what the network executed.
THEOREM Answered == Spec => []LookupIsAnswered
<1>1. IInv => LookupIsAnswered
  <2> SUFFICES ASSUME IInv, NEW t \in Tx, ~Unknown(t),
                      NEW b \in {GetTransaction(t), GetReceipt(t)}
               PROVE  /\ b # NoBlock
                      /\ b = SubSeq(network, 1, lookups[t]) /\ t \in Last(b)
    BY DEF LookupIsAnswered
  <2> DEFINE h == lookups[t]
  <2>1. h \in Heights /\ h # 0 /\ h > 0
    BY DEF IInv, TypeOK, Unknown, Heights
  <2>2. headers[h] \in blocks /\ t \in Last(headers[h])
    BY <2>1 DEF IInv, LookupIsFound
  <2>3. headers[h] # NoBlock
    BY <2>2, NoBlockAssumption DEF IInv, TypeOK
  <2>4. \A x \in Lists : <<x, headers[h]>> \in tries
    BY <2>1, <2>3 DEF IInv, HeaderIsReadable
  <2>5. headers[h] = SubSeq(network, 1, h)
    BY <2>1, <2>3 DEF IInv, StoredIsChain
  <2>6. GetTransaction(t) = headers[h] /\ GetReceipt(t) = headers[h]
    BY <2>4 DEF GetTransaction, GetReceipt, Lists
  <2> QED BY <2>2, <2>3, <2>5, <2>6
<1> QED BY <1>1, Invariance, PTL

=============================================================================

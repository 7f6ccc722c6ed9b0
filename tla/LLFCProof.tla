------------------------------ MODULE LLFCProof ------------------------------
(***************************************************************************)
(* Proofs about LLFC, for every validator set, every choice function and   *)
(* all values of the counts and bounds.                                    *)
(*                                                                         *)
(* IInv (in LLFC) is inductive.  Its main part, ReceivedIsSent, says that  *)
(* whatever is in a queue or a storage was published by the validator it   *)
(* is attributed to; with it a count of storage entries bounds a count of  *)
(* validators, and every step of LLFC is a step of Finality or leaves its  *)
(* variables alone.  OwnIsOfProcess and FinalIsPast say which candidates   *)
(* of its own a validator may hold, and where it stands once one of them   *)
(* is final: it passes the confirm wait with it again only after it has    *)
(* proposed another one.                                                   *)
(*                                                                         *)
(* TimelyInv (in LLFCTimely) is inductive beside it.  It names the block   *)
(* that those who select from all candidates keep to, the favourite, so    *)
(* that agreement is a statement about each validator by itself.           *)
(***************************************************************************)
EXTENDS LLFCTimely, SequenceTheorems, FiniteSetTheorems, WellFoundedInduction, TLAPS

NetType == [Exchange -> [Validators -> [Validators -> Seq(Message)]]]
StorageType == [Keyed -> [Validators -> [Validators -> Block \cup {NoBlock}]]]
AnyFinal == Final \cup OtherFinal

-----------------------------------------------------------------------------
\* The list of final blocks.

\* The recursion of Cleared: what is kept of the first i blocks.
Keep(q, h, kept, i) ==
    IF i = 0 THEN <<>>
    ELSE IF q[i].height > h THEN Append(kept[i - 1], q[i])
    ELSE kept[i - 1]

\* A set of natural numbers that is not empty has a least element.
LEMMA Least ==
  ASSUME NEW T \in SUBSET Nat, T # {}
  PROVE  \E m \in T : \A k \in T : m <= k
<1>1. PICK m \in T : \A k \in T : ~(<<k, m>> \in OpToRel(<, Nat))
  BY WFMin, NatLessThanWellFounded
<1>2. \A k \in T : ~(k < m)
  BY <1>1 DEF OpToRel
<1> QED
  BY <1>2

LEMMA KeptExists ==
  ASSUME NEW q, NEW h, NEW n \in Nat
  PROVE  \E f : f = [i \in 0..n |-> Keep(q, h, f, i)]
<1> DEFINE Has(m) == \E f : f = [i \in 0..m |-> Keep(q, h, f, i)]
           T == {m \in Nat : ~Has(m)}
<1> SUFFICES ASSUME T # {} PROVE FALSE
  OBVIOUS
<1>1. PICK m \in T : \A k \in T : m <= k
  BY Least
<1>2. m # 0
  <2> SUFFICES ASSUME m = 0 PROVE FALSE
    OBVIOUS
  <2> DEFINE f == [i \in 0..0 |-> <<>>]
  <2>1. \A i \in 0..0 : Keep(q, h, f, i) = <<>>
    BY DEF Keep
  <2>2. f = [i \in 0..0 |-> Keep(q, h, f, i)]
    BY <2>1
  <2> QED
    BY <2>2
<1>3. m - 1 \in Nat /\ m - 1 \notin T
  BY <1>1, <1>2
<1>4. PICK f : f = [i \in 0..(m - 1) |-> Keep(q, h, f, i)]
  BY <1>3
<1> DEFINE g == [i \in 0..m |-> IF i < m THEN f[i] ELSE Keep(q, h, f, m)]
<1>5. ASSUME NEW i \in 0..m PROVE g[i] = Keep(q, h, g, i)
  <2>1. i > 0 => i - 1 \in 0..m /\ i - 1 < m /\ g[i - 1] = f[i - 1]
    OBVIOUS
  <2>2. Keep(q, h, g, i) = Keep(q, h, f, i)
    BY <2>1 DEF Keep
  <2>3. CASE i < m
    <3>1. i \in 0..(m - 1)
      BY <2>3
    <3>2. f[i] = Keep(q, h, f, i)
      BY <1>4, <3>1
    <3> QED
      BY <2>2, <2>3, <3>2
  <2>4. CASE i = m
    BY <2>2, <2>4
  <2> QED
    BY <2>3, <2>4
<1>6. g = [i \in 0..m |-> Keep(q, h, g, i)]
  BY <1>5
<1>7. Has(m)
  BY <1>6
<1> QED
  BY <1>1, <1>7

\* clear adds nothing to the list.
LEMMA ClearedIsSeq ==
  ASSUME NEW S, NEW q \in Seq(S), NEW h
  PROVE  Cleared(q, h) \in Seq(S)
<1> DEFINE f == CHOOSE kept : kept = [i \in 0..Len(q) |-> Keep(q, h, kept, i)]
<1>1. Cleared(q, h) = f[Len(q)]
  BY DEF Cleared, Keep
<1>2. f = [i \in 0..Len(q) |-> Keep(q, h, f, i)]
  <2>1. Len(q) \in Nat
    OBVIOUS
  <2>2. \E g : g = [i \in 0..Len(q) |-> Keep(q, h, g, i)]
    BY <2>1, KeptExists
  <2> QED
    BY <2>2
<1> HIDE DEF f
<1>3. \A i \in 0..Len(q) : f[i] = Keep(q, h, f, i)
  BY <1>2
<1> DEFINE T == {n \in Nat : n <= Len(q) /\ f[n] \notin Seq(S)}
<1>4. T = {}
  <2> SUFFICES ASSUME T # {} PROVE FALSE
    OBVIOUS
  <2>1. PICK m \in T : \A k \in T : m <= k
    BY Least
  <2>2. m # 0
    <3>1. f[0] = <<>>
      BY <1>3 DEF Keep
    <3> QED
      BY <2>1, <3>1, EmptySeq
  <2>3. m \in Nat /\ m <= Len(q) /\ Len(q) \in Nat
    BY <2>1
  <2>4. m - 1 \in Nat /\ m - 1 <= Len(q) /\ m \in 1..Len(q) /\ ~(m <= m - 1)
    BY <2>2, <2>3
  <2>5. m - 1 \notin T
    BY <2>1, <2>4
  <2>6. f[m - 1] \in Seq(S)
    BY <2>4, <2>5
  <2>7. f[m] = IF q[m].height > h THEN Append(f[m - 1], q[m]) ELSE f[m - 1]
    BY <1>3, <2>4 DEF Keep
  <2>8. q[m] \in S
    BY <2>4
  <2>9. Append(f[m - 1], q[m]) \in Seq(S)
    BY <2>6, <2>8, AppendProperties
  <2> QED
    BY <2>1, <2>6, <2>7, <2>9
<1>5. Len(q) \in Nat /\ Len(q) <= Len(q)
  OBVIOUS
<1> QED
  BY <1>1, <1>4, <1>5

\* get returns what was in the list, of the height asked for, and leaves part of it.
LEMMA GetFacts ==
  ASSUME NEW S, NEW q \in Seq(S), NEW h
  PROVE  /\ Get(q, h).rest \in Seq(S)
         /\ Get(q, h).raised = "nothing" => Get(q, h).blk \in S /\ Get(q, h).blk.height = h
<1> DEFINE stale == q # <<>> /\ Head(q).height < h
           newer == IF stale THEN Cleared(Tail(q), Head(q).height) ELSE q
           got == Get(q, h)
<1>1. newer \in Seq(S)
  <2>1. CASE stale
    <3>1. Tail(q) \in Seq(S)
      BY <2>1, HeadTailProperties
    <3> QED
      BY <2>1, <3>1, ClearedIsSeq
  <2> QED
    BY <2>1
<1>2. got = IF newer = <<>> THEN [blk |-> NoBlock, rest |-> <<>>, raised |-> "IndexError"]
            ELSE Outcome(newer, h)
  BY DEF Get
<1> HIDE DEF newer, got
<1>3. CASE newer = <<>>
  <2>1. got.raised = "IndexError" /\ got.rest = <<>>
    BY <1>2, <1>3
  <2> QED
    BY <2>1, EmptySeq DEF got
<1>4. CASE newer # <<>>
  <2>1. Head(newer) \in S /\ Tail(newer) \in Seq(S)
    BY <1>1, <1>4, HeadTailProperties
  <2>2. /\ got.blk = Head(newer) /\ got.rest = Tail(newer)
        /\ got.raised = "nothing" => Head(newer).height = h
    BY <1>2, <1>4 DEF Outcome
  <2> QED
    BY <2>1, <2>2 DEF got
<1> QED
  BY <1>3, <1>4

-----------------------------------------------------------------------------
\* What the operators on queues and storages do, entry by entry.

\* The candidate of a validator is a block of its own.
LEMMA OwnIsBlock ==
  ASSUME TypeOK, NEW n \in Validators
  PROVE  Own(n) \in Block /\ Own(n).creator = n /\ Own(n).attempt = attempt[n]
BY DEF TypeOK, Own, Block

\* Publishing appends to queues of the publisher on one exchange only.
LEMMA PublishedEntries ==
  ASSUME TypeOK, NEW n \in Validators, NEW x \in Exchange, NEW b \in Message
  PROVE  /\ Published(n, x, b) \in NetType
         /\ \A y \in Exchange, s, r \in Validators :
              \/ Published(n, x, b)[y][s][r] = net[y][s][r]
              \/ /\ y = x /\ s = n /\ Listening(r)
                 /\ Published(n, x, b)[y][s][r] = Append(net[y][s][r], b)
<1> net \in NetType
  BY DEF TypeOK, NetType
<1>1. \A r \in Validators :
        /\ net[x][n][r] \in Seq(Message)
        /\ Append(net[x][n][r], b) \in Seq(Message)
  BY AppendProperties DEF NetType
<1> DEFINE row == [r \in Validators |->
                     IF Listening(r) THEN Enqueue(x, n, r, b) ELSE net[x][n][r]]
<1>2. /\ row \in [Validators -> Seq(Message)]
      /\ \A r \in Validators : \/ row[r] = net[x][n][r]
                               \/ Listening(r) /\ row[r] = Append(net[x][n][r], b)
  BY <1>1 DEF Enqueue
<1>3. Published(n, x, b) = [net EXCEPT ![x] = [@ EXCEPT ![n] = row]]
  BY DEF Published, NetType
<1> HIDE DEF row
<1> QED
  BY <1>2, <1>3 DEF NetType

\* DeafNet empties the queues to one validator.
LEMMA DeafNetEntries ==
  ASSUME TypeOK, NEW n \in Validators
  PROVE  /\ DeafNet(n) \in NetType
         /\ \A y \in Exchange, s, r \in Validators :
              DeafNet(n)[y][s][r] = IF r = n THEN <<>> ELSE net[y][s][r]
<1>1. net \in NetType /\ <<>> \in Seq(Message)
  BY EmptySeq DEF TypeOK, NetType
<1> QED
  BY <1>1 DEF NetType, DeafNet

\* EmptyStorage empties the storages of one validator.
LEMMA EmptyStorageEntries ==
  ASSUME TypeOK, NEW n \in Validators
  PROVE  /\ EmptyStorage(n) \in StorageType
         /\ \A y \in Keyed, r, s \in Validators :
              EmptyStorage(n)[y][r][s] = IF r = n THEN NoBlock ELSE storage[y][r][s]
BY DEF TypeOK, StorageType, EmptyStorage, Nothing

\* The oldest message of a queue, and the queue without it.
LEMMA OldestIsSent ==
  ASSUME ReceivedIsSent, NEW x \in Exchange, NEW s \in Validators, NEW r \in Validators,
         net[x][s][r] # <<>>
  PROVE  Head(net[x][s][r]) \in Sent(x, s) /\ Tail(net[x][s][r]) \in Seq(Sent(x, s))
<1>1. net[x][s][r] \in Seq(Sent(x, s))
  BY DEF ReceivedIsSent
<1> QED
  BY <1>1, HeadTailProperties

\* What is sent on the keyed exchanges is a candidate.
LEMMA SentIsBlock ==
  ASSUME TypeOK, NEW x \in Keyed, NEW s \in Validators
  PROVE  Sent(x, s) \in SUBSET Block
BY DEF TypeOK, Sent, Keyed

\* What process_event of the keyed managers does, entry by entry.
LEMMA ProcessEntries ==
  ASSUME TypeOK, ReceivedIsSent, NEW r \in Validators, NEW x \in Keyed,
         NEW S \in SUBSET Validators, Process(x, r, S)
  PROVE  /\ net' \in NetType /\ storage' \in StorageType
         /\ \A y \in Exchange, s, q \in Validators :
              \/ net'[y][s][q] = net[y][s][q]
              \/ net[y][s][q] # <<>> /\ net'[y][s][q] = Tail(net[y][s][q])
         /\ \A y \in Keyed, q, s \in Validators :
              \/ storage'[y][q][s] = storage[y][q][s]
              \/ /\ Listening(q) /\ net[y][s][q] # <<>>
                 /\ storage'[y][q][s] = Head(net[y][s][q])
<1>0. x \in Exchange /\ net \in NetType /\ storage \in StorageType
  BY DEF TypeOK, NetType, StorageType, Exchange
<1>1. \A s \in S : /\ Head(net[x][s][r]) \in Block
                  /\ Tail(net[x][s][r]) \in Seq(Message)
  <2>1. \A s \in S : net[x][s][r] # <<>> /\ net[x][s][r] \in Seq(Message)
    BY <1>0 DEF Process, NetType
  <2>2. \A s \in S : Head(net[x][s][r]) \in Sent(x, s)
    BY <1>0, <2>1, OldestIsSent
  <2> QED
    BY <2>1, <2>2, SentIsBlock, HeadTailProperties
<1> DEFINE row == [s \in Validators |->
                     IF s \in S THEN Head(net[x][s][r]) ELSE storage[x][r][s]]
           table == [s \in Validators |->
                     IF s \in S THEN [net[x][s] EXCEPT ![r] = Tail(@)] ELSE net[x][s]]
<1>2. row \in [Validators -> Block \cup {NoBlock}]
  BY <1>0, <1>1 DEF StorageType
<1>3. table \in [Validators -> [Validators -> Seq(Message)]]
  BY <1>0, <1>1 DEF NetType
<1>4. storage' = [storage EXCEPT ![x] = [@ EXCEPT ![r] = row]]
  BY DEF Process
<1>5. net' = [net EXCEPT ![x] = table]
  BY DEF Process
<1>6. \A s, q \in Validators :
        \/ table[s][q] = net[x][s][q]
        \/ net[x][s][q] # <<>> /\ table[s][q] = Tail(net[x][s][q])
  BY <1>0 DEF Process, NetType
<1>7. \A s \in Validators :
        \/ row[s] = storage[x][r][s]
        \/ net[x][s][r] # <<>> /\ row[s] = Head(net[x][s][r])
  BY DEF Process
<1>8. Listening(r)
  BY DEF Process
<1> HIDE DEF row, table
<1>9. net' \in NetType /\ storage' \in StorageType
  BY <1>0, <1>2, <1>3, <1>4, <1>5 DEF NetType, StorageType
<1>10. \A y \in Exchange, s, q \in Validators :
         \/ net'[y][s][q] = net[y][s][q]
         \/ net[y][s][q] # <<>> /\ net'[y][s][q] = Tail(net[y][s][q])
  BY <1>0, <1>5, <1>6 DEF NetType
<1>11. \A y \in Keyed, q, s \in Validators :
         \/ storage'[y][q][s] = storage[y][q][s]
         \/ /\ Listening(q) /\ net[y][s][q] # <<>>
            /\ storage'[y][q][s] = Head(net[y][s][q])
  BY <1>0, <1>4, <1>7, <1>8 DEF StorageType
<1> QED
  BY <1>9, <1>10, <1>11

-----------------------------------------------------------------------------
\* The steps of Next, by what validator n does.

\* A final block n may link: get has found it, or the syncer brings it.
Linkable(n, f) ==
  \/ /\ phase[n] \in Exchange
     /\ Get(fins[n], Height).raised = "nothing"
     /\ f = Get(fins[n], Height).blk
  \/ /\ phase[n] \in {"sync", "crashed"}
     /\ \E m \in Validators : linked[m] # NoBlock /\ f = linked[m]

\* The loop of progress goes round, in this process or a new one.
Renewal(n) ==
  /\ phase[n] \in {"finalize", "sync", "crashed"}
  /\ Renew(n)
  /\ fins' \in {fins, [fins EXCEPT ![n] = <<>>]}
  /\ IF phase[n] = "crashed" THEN born' = [born EXCEPT ![n] = attempt'[n]]
     ELSE UNCHANGED born

\* The task or the process of n ends.
Ends(n) ==
  \/ \E b \in Confirmed(n) \cap Held(n, "candidate") :
        phase[n] = "confirm" /\ RewardNobody(n, b)
  \/ phase[n] = "finalize" /\ Stop(n)
  \/ Crash(n)

Publishes(n) ==
  \/ Propose(n)
  \/ phase[n] = "candidate" /\ SelectCandidate(n)
  \/ phase[n] = "candidate" /\ SelectNothing(n)
  \/ phase[n] = "vote" /\ AggregateVote(n)
  \/ \E b \in Confirmed(n) \cap Held(n, "candidate") :
        phase[n] = "confirm" /\ MakeFinalize(n, b)
  \/ phase[n] \in Keyed /\ RepeatRound(n)

Receives(n) ==
  \/ \E x \in Keyed, S \in SUBSET Validators : Process(x, n, S)
  \/ \E s \in Validators : ProcessFinalize(n, s)
  \/ \E h \in OtherHeights : ProcessOtherFinal(n, h)
  \/ \E x \in Keyed : ProcessStray(x, n)
  \/ \E x \in Exchange, s \in Validators : Lose(x, s, n)

Move(n) ==
  \/ Publishes(n)
  \/ Receives(n)
  \/ Ends(n)
  \/ Renewal(n)
  \/ \E f : Linkable(n, f) /\ LinkBlock(n, f)
  \/ phase[n] \in Exchange /\ AskSyncer(n)
  \/ \E b \in Confirmed(n) \cap Held(n, "candidate") :
        phase[n] = "confirm" /\ AwaitFinalize(n, b)

\* Every step of Next is one of those.
LEMMA NextIsMove == Next => \E n \in Validators : Move(n)
<1> SUFFICES ASSUME NEW n \in Validators, Step(n) \/ Mishap(n) \/ Crash(n)
             PROVE  Move(n)
  BY DEF Next
<1> DEFINE got == Get(fins[n], Height)
<1>1. ASSUME phase[n] \in Exchange, got.raised = "nothing", LinkBlock(n, got.blk) PROVE Move(n)
  BY <1>1 DEF Move, Linkable
<1>2. ASSUME NEW x \in Keyed, phase[n] = x, RoundError(n) PROVE Move(n)
  BY <1>1, <1>2 DEF RoundError, Move, Publishes, Exchange
<1>3. CASE phase[n] = "confirm" /\ AggregateConfirm(n)
  BY <1>2, <1>3 DEF AggregateConfirm, Move, Publishes, Ends, Keyed
<1>4. ASSUME NEW x \in Keyed, phase[n] = x, Continue(n, x) PROVE Move(n)
  BY <1>3, <1>4 DEF Continue, Keyed, Move, Publishes
<1>5. CASE EventFinalize(n)
  BY <1>1, <1>5 DEF EventFinalize, Move, Ends, Exchange
<1>6. CASE Accumulate(n)
  <2>1. ASSUME Renew(n), fins' = [fins EXCEPT ![n] = <<>>], UNCHANGED born PROVE Move(n)
    BY <1>6, <2>1 DEF Accumulate, Move, Renewal
  <2> QED
    BY <1>1, <1>6, <2>1 DEF Accumulate, Move, Ends, Exchange
<1>7. CASE Timely(n)
  BY <1>4, <1>5, <1>6, <1>7 DEF Timely, Move, Publishes
<1>8. CASE Late(n)
  BY <1>2, <1>4, <1>8 DEF Late
<1>9. CASE Receive(n)
  BY <1>9 DEF Receive, Move, Receives, Pending
<1>10. CASE SyncerRun(n)
  <2>1. CASE SyncerBrings(n)
    BY <2>1 DEF SyncerBrings, Move, Linkable
  <2>2. CASE SyncerBringsNothing(n) \/ Restart(n)
    BY <2>2 DEF SyncerBringsNothing, Restart, Move, Renewal
  <2> QED
    BY <1>10, <2>1, <2>2 DEF SyncerRun
<1>11. CASE Mishap(n)
  BY <1>11 DEF Mishap, Move, Receives
<1> QED
  BY <1>7, <1>8, <1>9, <1>10, <1>11 DEF Step, Move, Ends

\* What is linked is final, and n has not linked before.
LEMMA LinkableIsFinal ==
  ASSUME TypeOK, ReceivedIsSent, LinkedOnce, NEW n \in Validators, NEW f, Linkable(n, f)
  PROVE  f \in finals /\ f \in Final /\ f # NoBlock /\ phase[n] # "linked"
<1>1. CASE phase[n] \in Exchange /\ Get(fins[n], Height).raised = "nothing"
           /\ f = Get(fins[n], Height).blk
  <2>1. fins[n] \in Seq(finals \cup OtherFinal)
    BY DEF ReceivedIsSent
  <2>2. f \in finals \cup OtherFinal /\ f.height = Height
    BY <1>1, <2>1, GetFacts
  <2>3. f \notin OtherFinal
    BY <2>2, HeightsAssumption DEF OtherFinal
  <2> QED
    BY <1>1, <2>2, <2>3, NoBlockAssumption DEF TypeOK, Exchange, Keyed
<1>2. CASE phase[n] \in {"sync", "crashed"}
           /\ \E m \in Validators : linked[m] # NoBlock /\ f = linked[m]
  BY <1>2, NoBlockAssumption DEF LinkedOnce, TypeOK
<1> QED
  BY <1>1, <1>2 DEF Linkable

\* What a step does to the variables that few actions change.
LEMMA Effects ==
  ASSUME TypeOK, NEW n \in Validators, Move(n)
  PROVE  /\ UNCHANGED voted \/ (phase[n] = "candidate" /\ SelectCandidate(n))
         /\ UNCHANGED signed \/ (phase[n] = "vote" /\ AggregateVote(n))
         /\ UNCHANGED finals \/ \E b \in Confirmed(n) \cap Held(n, "candidate") :
                                   phase[n] = "confirm" /\ MakeFinalize(n, b)
         /\ UNCHANGED linked \/ \E f : Linkable(n, f) /\ LinkBlock(n, f)
         /\ UNCHANGED <<attempt, born>> \/ Renewal(n)
         /\ UNCHANGED storage \/ storage' = EmptyStorage(n)
              \/ \E x \in Keyed, S \in SUBSET Validators : Process(x, n, S)
         /\ UNCHANGED ctx \/ ctx' = [ctx EXCEPT ![n] = Nothing]
              \/ (phase[n] = "vote" /\ AggregateVote(n))
         /\ UNCHANGED sel \/ (sel' = [sel EXCEPT ![n] = NoBlock] /\ phase'[n] # "vote")
              \/ (phase[n] = "candidate" /\ SelectCandidate(n))
<1> USE DEF Move, Publishes, Receives, Ends, Propose, SelectNothing, RepeatRound, AwaitFinalize,
            Process, ProcessFinalize, ProcessOtherFinal, ProcessStray, Lose, LinkBlock, Stop,
            StopListening, RewardNobody, AskSyncer, Crash, program, history
<1>1. UNCHANGED voted \/ (phase[n] = "candidate" /\ SelectCandidate(n))
  BY DEF AggregateVote, MakeFinalize, Renewal, Renew
<1>2. UNCHANGED signed \/ (phase[n] = "vote" /\ AggregateVote(n))
  BY DEF SelectCandidate, MakeFinalize, Renewal, Renew
<1>3. UNCHANGED finals \/ \E b \in Confirmed(n) \cap Held(n, "candidate") :
                             phase[n] = "confirm" /\ MakeFinalize(n, b)
  BY DEF SelectCandidate, AggregateVote, Renewal, Renew
<1>4. UNCHANGED linked \/ \E f : Linkable(n, f) /\ LinkBlock(n, f)
  BY DEF SelectCandidate, AggregateVote, MakeFinalize, Renewal, Renew
<1>5. UNCHANGED <<attempt, born>> \/ Renewal(n)
  BY DEF SelectCandidate, AggregateVote, MakeFinalize
<1>6. UNCHANGED storage \/ storage' = EmptyStorage(n)
        \/ \E x \in Keyed, S \in SUBSET Validators : Process(x, n, S)
  BY DEF SelectCandidate, AggregateVote, MakeFinalize, Renewal, Renew
<1>7. UNCHANGED ctx \/ ctx' = [ctx EXCEPT ![n] = Nothing] \/ (phase[n] = "vote" /\ AggregateVote(n))
  BY DEF SelectCandidate, MakeFinalize, Renewal, Renew
<1>8. UNCHANGED sel \/ (sel' = [sel EXCEPT ![n] = NoBlock] /\ phase'[n] # "vote")
        \/ (phase[n] = "candidate" /\ SelectCandidate(n))
  BY DEF AggregateVote, MakeFinalize, Renewal, Renew, TypeOK
<1> QED
  BY <1>1, <1>2, <1>3, <1>4, <1>5, <1>6, <1>7, <1>8

\* Where a step may lead.
LEMMA PhaseStep ==
  ASSUME TypeOK, NEW n \in Validators, Move(n)
  PROVE  \/ UNCHANGED phase
         \/ \E p \in Phase :
              /\ phase' = [phase EXCEPT ![n] = p]
              /\ p = "transaction" => Renewal(n)
              /\ p = "vote" => phase[n] = "candidate" /\ SelectCandidate(n)
              /\ p = "confirm" => phase[n] = "vote" /\ AggregateVote(n)
              /\ p = "halted" => \E b \in Confirmed(n) \cap Held(n, "candidate") :
                                    phase[n] = "confirm" /\ RewardNobody(n, b)
              /\ p = "linked" => \E f : Linkable(n, f) /\ LinkBlock(n, f)
              /\ p = "finalize" => /\ phase[n] = "confirm"
                                   /\ \E b \in Confirmed(n) \cap Held(n, "candidate") :
                                        MakeFinalize(n, b) \/ AwaitFinalize(n, b)
              /\ p = "sync" => phase[n] \in Exchange
              /\ p = "candidate" => phase[n] \in Keyed \cup {"transaction"}
              /\ p = "stopped" => phase[n] = "finalize"
              /\ phase[n] = "linked" => FALSE
              /\ p \in {"transaction", "candidate", "vote", "confirm", "finalize", "sync"}
                   => Listening(n) \/ Renewal(n)
              /\ p \in {"linked", "halted", "stopped", "crashed"} =>
                   net' = DeafNet(n) /\ storage' = EmptyStorage(n) /\ fins' = [fins EXCEPT ![n] = <<>>]
<1> USE DEF Phase, Exchange, Keyed, Listening
<1>1. CASE Publishes(n)
  BY <1>1 DEF Publishes, Propose, SelectCandidate, SelectNothing, AggregateVote, MakeFinalize,
              RepeatRound
<1>2. CASE Receives(n)
  BY <1>2 DEF Receives, Process, ProcessFinalize, ProcessOtherFinal, ProcessStray, Lose
<1>3. CASE Ends(n)
  BY <1>3 DEF Ends, RewardNobody, Stop, Crash, StopListening
<1>4. CASE Renewal(n)
  BY <1>4 DEF Renewal, Renew
<1>5. ASSUME NEW f, Linkable(n, f), LinkBlock(n, f)
      PROVE  phase[n] # "linked" /\ phase' = [phase EXCEPT ![n] = "linked"]
             /\ net' = DeafNet(n) /\ storage' = EmptyStorage(n) /\ fins' = [fins EXCEPT ![n] = <<>>]
  BY <1>5 DEF Linkable, LinkBlock, StopListening
<1>6. CASE phase[n] \in Exchange /\ AskSyncer(n)
  BY <1>6 DEF AskSyncer
<1>7. CASE \E b \in Confirmed(n) \cap Held(n, "candidate") :
              phase[n] = "confirm" /\ AwaitFinalize(n, b)
  BY <1>7 DEF AwaitFinalize
<1> QED
  BY <1>1, <1>2, <1>3, <1>4, <1>5, <1>6, <1>7 DEF Move

\* The other validators stay where they are.
LEMMA OthersStay ==
  ASSUME TypeOK, NEW n \in Validators, Move(n), NEW m \in Validators, m # n
  PROVE  phase'[m] = phase[m]
<1>1. UNCHANGED phase \/ \E p \in Phase : phase' = [phase EXCEPT ![n] = p]
  BY PhaseStep
<1> QED
  BY <1>1 DEF TypeOK

-----------------------------------------------------------------------------
\* What the waits lead to.

\* select_candidate returns one of the candidates it was given.
LEMMA SelectedIsHeld ==
  ASSUME TypeOK, NEW n \in Validators, SelectCandidate(n)
  PROVE  /\ Select(Held(n, "candidate")) \in Held(n, "candidate")
         /\ Select(Held(n, "candidate")) \in Block
<1>1. Held(n, "candidate") \in SUBSET Block
  BY DEF TypeOK, Held, Keyed
<1> QED
  BY <1>1, SelectAssumption DEF SelectCandidate

\* aggregate_vote_from_context returns the own choice or a block with enough votes.
LEMMA AggregatedIsVoted ==
  ASSUME TypeOK, SelectedIsVoted, NEW n \in Validators, phase[n] = "vote",
         NEW b \in Aggregated(storage["vote"][n], sel[n])
  PROVE  b \in Block /\ (b = sel[n] \/ Count(storage["vote"][n], b) >= AgreeCount)
<1> DEFINE votes == storage["vote"][n]
           others == {votes[s] : s \in Validators} \ {NoBlock, sel[n]}
<1>1. others \in SUBSET Block
  BY DEF TypeOK, Keyed
<1>2. b = sel[n] \/ \E k \in others : Count(votes, k) >= AgreeCount /\ b = k
  BY DEF Aggregated
<1>3. sel[n] \in Block
  BY DEF SelectedIsVoted, TypeOK
<1> QED
  BY <1>1, <1>2, <1>3

\* What a creator publishes is a final block.
LEMMA FinalOfIsFinal ==
  ASSUME TypeOK, NEW n \in Validators, NEW b \in Held(n, "candidate")
  PROVE  b \in Block /\ FinalOf(n, b) \in Final
<1>1. b \in Block
  BY DEF Held, TypeOK, Keyed
<1> QED
  BY <1>1 DEF FinalOf, Final, Rewarded, Senders

-----------------------------------------------------------------------------
\* Types.

\* The initial state is well typed.
LEMMA InitialType == Init => TypeOK
<1> <<>> \in Seq(Message) /\ <<>> \in Seq(Final \cup OtherFinal)
  BY EmptySeq
<1> QED
  BY BoundsAssumption DEF Init, TypeOK, Nothing, Clean, Phase, Exchange, Keyed

\* What is empty is well typed.
LEMMA EmptyType ==
  /\ Nothing \in [Validators -> Block \cup {NoBlock}]
  /\ Clean \in [Keyed -> 0..MaxStray]
  /\ <<>> \in Seq(AnyFinal)
BY EmptySeq, BoundsAssumption DEF Nothing, Clean

\* The queues keep their type, whatever is published or received.
LEMMA NetTypeStep ==
  ASSUME TypeOK, ReceivedIsSent, SelectedIsVoted, NEW n \in Validators, Move(n)
  PROVE  net' \in NetType
<1>1. CASE UNCHANGED net
  BY <1>1 DEF TypeOK, NetType
<1>2. CASE net' = DeafNet(n)
  BY <1>2, DeafNetEntries
<1>3. ASSUME NEW x \in Exchange, NEW b \in Message, net' = Published(n, x, b)
      PROVE  net' \in NetType
  BY <1>3, PublishedEntries
<1>4. CASE Propose(n) \/ SelectNothing(n) \/ RepeatRound(n)
  BY <1>3, <1>4, OwnIsBlock
     DEF Propose, SelectNothing, RepeatRound, Exchange, Keyed, Message
<1>5. CASE SelectCandidate(n)
  BY <1>3, <1>5, SelectedIsHeld DEF SelectCandidate, Exchange, Keyed, Message
<1>6. CASE phase[n] = "vote" /\ AggregateVote(n)
  <2>1. PICK b \in Aggregated(storage["vote"][n], sel[n]) : net' = Published(n, "confirm", b)
    BY <1>6 DEF AggregateVote
  <2>2. b \in Block
    BY <1>6, AggregatedIsVoted
  <2> QED
    BY <1>3, <2>1, <2>2 DEF Exchange, Keyed, Message
<1>7. ASSUME NEW b \in Held(n, "candidate"), MakeFinalize(n, b) PROVE net' \in NetType
  <2>1. FinalOf(n, b) \in Final
    BY FinalOfIsFinal
  <2> QED
    BY <1>3, <1>7, <2>1 DEF MakeFinalize, Exchange, Message
<1>8. CASE \E x \in Keyed, S \in SUBSET Validators : Process(x, n, S)
  BY <1>8, ProcessEntries
<1>9. CASE \/ \E s \in Validators : ProcessFinalize(n, s)
           \/ \E x \in Exchange, s \in Validators : Lose(x, s, n)
  <2>1. PICK x \in Exchange, s \in Validators :
          net[x][s][n] # <<>> /\ net' = [net EXCEPT ![x][s][n] = Tail(@)]
    BY <1>9 DEF ProcessFinalize, Lose, Exchange
  <2>2. Tail(net[x][s][n]) \in Seq(Message)
    BY <2>1, HeadTailProperties DEF TypeOK
  <2> QED
    BY <2>1, <2>2 DEF TypeOK, NetType
<1> QED
  BY <1>1, <1>2, <1>4, <1>5, <1>6, <1>7, <1>8, <1>9
     DEF Move, Publishes, Receives, Ends, Renewal, Renew, LinkBlock, RewardNobody, Stop, Crash,
         StopListening, AskSyncer, AwaitFinalize, ProcessOtherFinal, ProcessStray

\* So do the storages, the votes and confirms cast, and what a validator remembers.
LEMMA StorageTypeStep ==
  ASSUME TypeOK, ReceivedIsSent, NEW n \in Validators, Move(n)
  PROVE  storage' \in StorageType
<1>1. ASSUME NEW x \in Keyed, NEW S \in SUBSET Validators, Process(x, n, S)
      PROVE  storage' \in StorageType
  BY <1>1, ProcessEntries
<1>2. storage \in StorageType /\ EmptyStorage(n) \in StorageType
  BY EmptyStorageEntries DEF TypeOK, StorageType
<1> QED
  BY <1>1, <1>2, Effects

LEMMA CastTypeStep ==
  ASSUME TypeOK, SelectedIsVoted, NEW n \in Validators, Move(n)
  PROVE  /\ voted' \in [Validators -> SUBSET Block]
         /\ signed' \in [Validators -> SUBSET Block]
         /\ sel' \in [Validators -> Block \cup {NoBlock}]
         /\ ctx' \in [Validators -> [Validators -> Block \cup {NoBlock}]]
<1>1. ASSUME SelectCandidate(n)
      PROVE  /\ voted' \in [Validators -> SUBSET Block]
             /\ sel' \in [Validators -> Block \cup {NoBlock}]
  BY <1>1, SelectedIsHeld DEF SelectCandidate, TypeOK
<1>2. ASSUME phase[n] = "vote", AggregateVote(n)
      PROVE  /\ signed' \in [Validators -> SUBSET Block]
             /\ ctx' \in [Validators -> [Validators -> Block \cup {NoBlock}]]
  <2>1. PICK b \in Aggregated(storage["vote"][n], sel[n]) :
          signed' = [signed EXCEPT ![n] = @ \cup {b}]
    BY <1>2 DEF AggregateVote
  <2>2. b \in Block
    BY <1>2, AggregatedIsVoted
  <2>3. ctx' = [ctx EXCEPT ![n] = storage["vote"][n]]
    BY <1>2 DEF AggregateVote
  <2> QED
    BY <2>1, <2>2, <2>3 DEF TypeOK, Keyed
<1>3. voted' \in [Validators -> SUBSET Block]
  BY <1>1, Effects DEF TypeOK
<1>4. signed' \in [Validators -> SUBSET Block]
  BY <1>2, Effects DEF TypeOK
<1>5. sel' \in [Validators -> Block \cup {NoBlock}]
  BY <1>1, Effects DEF TypeOK
<1>6. ctx' \in [Validators -> [Validators -> Block \cup {NoBlock}]]
  BY <1>2, Effects, EmptyType DEF TypeOK
<1> QED
  BY <1>3, <1>4, <1>5, <1>6

\* A renewal is the only step to another attempt.
LEMMA AttemptStep ==
  ASSUME TypeOK, NEW n \in Validators, Move(n)
  PROVE  /\ attempt' \in [Validators -> 0..MaxRenewals]
         /\ born' \in [Validators -> 0..MaxRenewals]
         /\ \A m \in Validators : attempt[m] <= attempt'[m]
         /\ Renewal(n) => /\ attempt' = [attempt EXCEPT ![n] = attempt[n] + 1]
                          /\ attempt[n] < attempt'[n]
<1>1. CASE UNCHANGED <<attempt, born>> /\ ~Renewal(n)
  BY <1>1, BoundsAssumption DEF TypeOK
<1>2. CASE Renewal(n)
  <2>1. attempt[n] \in 0..MaxRenewals /\ attempt[n] + 1 \in 0..MaxRenewals
    BY <1>2, BoundsAssumption DEF Renewal, Renew, TypeOK
  <2>2. attempt' = [attempt EXCEPT ![n] = attempt[n] + 1]
    BY <1>2 DEF Renewal, Renew
  <2>3. attempt' \in [Validators -> 0..MaxRenewals] /\ attempt'[n] = attempt[n] + 1
    BY <2>1, <2>2 DEF TypeOK
  <2>4. born' \in [Validators -> 0..MaxRenewals]
    BY <1>2, <2>1, <2>3 DEF Renewal, TypeOK
  <2>5. \A m \in Validators : attempt[m] <= attempt'[m]
    BY <2>1, <2>2, BoundsAssumption DEF TypeOK
  <2> QED
    BY <2>1, <2>2, <2>3, <2>4, <2>5, BoundsAssumption
<1> QED
  BY <1>1, <1>2, Effects

\* What is linked and published is a final block.
LEMMA FinalTypeStep ==
  ASSUME TypeOK, ReceivedIsSent, LinkedOnce, NEW n \in Validators, Move(n)
  PROVE  /\ finals' \subseteq Final
         /\ linked' \in [Validators -> Final \cup {NoBlock}]
<1>1. finals' \subseteq Final
  <2>1. ASSUME NEW b \in Held(n, "candidate"), MakeFinalize(n, b)
        PROVE  finals' \subseteq Final
    BY <2>1, FinalOfIsFinal DEF MakeFinalize, TypeOK
  <2>2. CASE UNCHANGED finals
    BY <2>2 DEF TypeOK
  <2> QED
    BY <2>1, <2>2, Effects
<1>2. linked' \in [Validators -> Final \cup {NoBlock}]
  <2>1. ASSUME NEW f, Linkable(n, f), LinkBlock(n, f)
        PROVE  linked' \in [Validators -> Final \cup {NoBlock}]
    <3>1. f \in Final /\ linked' = [linked EXCEPT ![n] = f]
      BY <2>1, LinkableIsFinal DEF LinkBlock
    <3> QED
      BY <3>1 DEF TypeOK
  <2>2. CASE UNCHANGED linked
    BY <2>2 DEF TypeOK
  <2> QED
    BY <2>1, <2>2, Effects
<1> QED
  BY <1>1, <1>2

\* The list of final blocks is kept, emptied, left by get, or extended by a message
\* or by a block of another height.
LEMMA FinsStep ==
  ASSUME TypeOK, NEW n \in Validators, Move(n), NEW r \in Validators
  PROVE  \/ fins'[r] = fins[r]
         \/ fins'[r] = <<>>
         \/ Listening(r) /\ fins'[r] = Get(fins[r], Height).rest
         \/ Listening(r) /\ \E f \in OtherFinal : fins'[r] = Append(fins[r], f)
         \/ \E s \in Validators :
              /\ net["finalize"][s][r] # <<>>
              /\ fins'[r] = Append(fins[r], Head(net["finalize"][s][r]))
<1> USE DEF TypeOK
<1>1. CASE fins' \in {fins, [fins EXCEPT ![n] = <<>>]}
  BY <1>1
<1>2. CASE Receives(n)
  <2>1. ASSUME NEW s \in Validators, ProcessFinalize(n, s)
        PROVE  \/ fins'[r] = fins[r]
               \/ /\ net["finalize"][s][r] # <<>>
                  /\ fins'[r] = Append(fins[r], Head(net["finalize"][s][r]))
    BY <2>1 DEF ProcessFinalize
  <2>2. ASSUME NEW h \in OtherHeights, ProcessOtherFinal(n, h)
        PROVE  \/ fins'[r] = fins[r]
               \/ Listening(r) /\ \E f \in OtherFinal : fins'[r] = Append(fins[r], f)
    BY <2>2 DEF ProcessOtherFinal, OtherFinal
  <2>3. ASSUME NEW x \in Keyed, NEW S \in SUBSET Validators, Process(x, n, S)
        PROVE  UNCHANGED fins
    BY <2>3 DEF Process
  <2>4. ASSUME NEW x \in Exchange, NEW s \in Validators, ProcessStray(x, n) \/ Lose(x, s, n)
        PROVE  UNCHANGED fins
    BY <2>4 DEF ProcessStray, Lose
  <2>5. (\E x \in Keyed : ProcessStray(x, n)) => UNCHANGED fins
    BY DEF ProcessStray
  <2> QED
    BY <1>2, <2>1, <2>2, <2>3, <2>4, <2>5 DEF Receives
<1>3. CASE phase[n] \in Exchange /\ AskSyncer(n)
  BY <1>3 DEF AskSyncer, Listening, Exchange, Keyed
<1> QED
  BY <1>1, <1>2, <1>3
     DEF Move, Publishes, Ends, Propose, SelectCandidate, SelectNothing, AggregateVote,
         MakeFinalize, RepeatRound, RewardNobody, Stop, Crash, StopListening, Renewal, LinkBlock,
         AwaitFinalize, program, history

LEMMA FinsTypeStep ==
  ASSUME TypeOK, ReceivedIsSent, NEW n \in Validators, Move(n)
  PROVE  fins' \in [Validators -> Seq(AnyFinal)]
<1>1. DOMAIN fins' = Validators /\ fins' = [r \in Validators |-> fins'[r]]
  <2> USE DEF TypeOK
  <2>1. CASE Receives(n)
    BY <2>1 DEF Receives, Process, ProcessFinalize, ProcessOtherFinal, ProcessStray, Lose
  <2> QED
    BY <2>1
       DEF Move, Publishes, Ends, Propose, SelectCandidate, SelectNothing, AggregateVote,
           MakeFinalize, RepeatRound, RewardNobody, Stop, Crash, StopListening, Renewal,
           LinkBlock, AwaitFinalize, AskSyncer, program, history
<1>2. ASSUME NEW r \in Validators PROVE fins'[r] \in Seq(AnyFinal)
  <2>1. fins[r] \in Seq(AnyFinal) /\ <<>> \in Seq(AnyFinal)
    BY EmptySeq DEF TypeOK, AnyFinal
  <2>2. \A f \in AnyFinal : Append(fins[r], f) \in Seq(AnyFinal)
    BY <2>1, AppendProperties
  <2>3. Get(fins[r], Height).rest \in Seq(AnyFinal)
    BY <2>1, GetFacts
  <2>4. \A s \in Validators : net["finalize"][s][r] # <<>> =>
          Head(net["finalize"][s][r]) \in AnyFinal
    BY OldestIsSent DEF Sent, Exchange, TypeOK, AnyFinal
  <2> QED
    BY <2>1, <2>2, <2>3, <2>4, FinsStep DEF AnyFinal
<1> QED
  BY <1>1, <1>2

\* The types are preserved.
LEMMA TypeStep ==
  ASSUME TypeOK, ReceivedIsSent, SelectedIsVoted, LinkedOnce, NEW n \in Validators, Move(n)
  PROVE  TypeOK'
<1>1. phase' \in [Validators -> Phase]
  <2>1. UNCHANGED phase \/ \E p \in Phase : phase' = [phase EXCEPT ![n] = p]
    BY PhaseStep
  <2> QED
    BY <2>1 DEF TypeOK
<1>2. stray' \in [Validators -> [Keyed -> 0..MaxStray]]
  <2>1. ASSUME NEW x \in Keyed, ProcessStray(x, n)
        PROVE  stray' \in [Validators -> [Keyed -> 0..MaxStray]]
    <3>1. stray[n][x] + 1 \in 0..MaxStray
      BY <2>1, BoundsAssumption DEF ProcessStray, TypeOK
    <3> QED
      BY <2>1, <3>1 DEF ProcessStray, TypeOK
  <2>2. CASE UNCHANGED stray \/ stray' = [stray EXCEPT ![n] = Clean]
    BY <2>2, EmptyType DEF TypeOK
  <2> QED
    BY <2>1, <2>2
       DEF Move, Publishes, Receives, Ends, Propose, SelectCandidate, SelectNothing,
           AggregateVote, MakeFinalize, RepeatRound, RewardNobody, Stop, Crash, StopListening,
           Renewal, Renew, LinkBlock, AwaitFinalize, AskSyncer, Process, ProcessFinalize,
           ProcessOtherFinal, Lose
<1> QED
  BY <1>1, <1>2, NetTypeStep, StorageTypeStep, CastTypeStep, AttemptStep, FinalTypeStep,
     FinsTypeStep
     DEF TypeOK, NetType, StorageType, AnyFinal

-----------------------------------------------------------------------------
\* The effect of a step on the history, the queues and the storages.

\* Nothing that was published is ever taken back.
LEMMA SentGrows ==
  ASSUME TypeOK, NEW n \in Validators, Move(n)
  PROVE  /\ \A s \in Validators : voted[s] \subseteq voted'[s] /\ signed[s] \subseteq signed'[s]
         /\ finals \subseteq finals'
         /\ \A x \in Exchange, s \in Validators : Sent(x, s) \subseteq Sent(x, s)'
<1>1. \A s \in Validators : voted[s] \subseteq voted'[s]
  <2>1. CASE SelectCandidate(n)
    BY <2>1 DEF SelectCandidate, TypeOK
  <2>2. CASE UNCHANGED voted
    BY <2>2
  <2> QED
    BY <2>1, <2>2, Effects
<1>2. \A s \in Validators : signed[s] \subseteq signed'[s]
  <2>1. CASE AggregateVote(n)
    BY <2>1 DEF AggregateVote, TypeOK
  <2>2. CASE UNCHANGED signed
    BY <2>2
  <2> QED
    BY <2>1, <2>2, Effects
<1>3. finals \subseteq finals'
  BY Effects DEF MakeFinalize
<1> QED
  BY <1>1, <1>2, <1>3 DEF Sent, Exchange, Keyed

\* A queue is unchanged, emptied, shortened by its oldest message, or extended by
\* a message its sender publishes; a candidate it publishes is its current one.
LEMMA QueueStep ==
  ASSUME TypeOK, ReceivedIsSent, SelectedIsVoted, NEW n \in Validators, Move(n),
         NEW x \in Exchange, NEW s \in Validators, NEW r \in Validators
  PROVE  \/ net'[x][s][r] = net[x][s][r]
         \/ net'[x][s][r] = <<>>
         \/ net[x][s][r] # <<>> /\ net'[x][s][r] = Tail(net[x][s][r])
         \/ /\ Listening(r) /\ Listening(r)'
            /\ \E b \in Sent(x, s)' \cap Message :
                 /\ net'[x][s][r] = Append(net[x][s][r], b)
                 /\ x = "candidate" => b = Own(s) /\ Own(s)' = Own(s)
<1> DEFINE Goal ==
       \/ net'[x][s][r] = net[x][s][r]
       \/ net'[x][s][r] = <<>>
       \/ net[x][s][r] # <<>> /\ net'[x][s][r] = Tail(net[x][s][r])
       \/ /\ Listening(r) /\ Listening(r)'
          /\ \E b \in Sent(x, s)' \cap Message :
               /\ net'[x][s][r] = Append(net[x][s][r], b)
               /\ x = "candidate" => b = Own(s) /\ Own(s)' = Own(s)
<1>1. ASSUME NEW y \in Exchange, NEW b \in Message, net' = Published(n, y, b),
             b \in Sent(y, n)', y = "candidate" => b = Own(n), UNCHANGED attempt,
             \A q \in Validators : Listening(q) => Listening(q)'
      PROVE  Goal
  <2>1. Own(n)' = Own(n)
    BY <1>1 DEF Own
  <2> QED
    BY <1>1, <2>1, PublishedEntries
<1>2. ASSUME net' = DeafNet(n) PROVE Goal
  BY <1>2, DeafNetEntries
<1>3. ASSUME UNCHANGED net PROVE Goal
  BY <1>3
<1>4. ASSUME net' = Published(n, "candidate", Own(n)), UNCHANGED attempt,
             \A q \in Validators : Listening(q) => Listening(q)'
      PROVE  Goal
  <2>1. Own(n) \in Sent("candidate", n)'
    BY OwnIsBlock DEF Sent
  <2> QED
    BY <1>1, <1>4, <2>1, OwnIsBlock DEF Exchange, Keyed, Message
<1>5. ASSUME Propose(n) PROVE Goal
  BY <1>4, <1>5 DEF Propose, Listening, TypeOK, program
<1>6. ASSUME SelectNothing(n) PROVE Goal
  BY <1>4, <1>6 DEF SelectNothing, Listening, program
<1>7. ASSUME RepeatRound(n) PROVE Goal
  BY <1>4, <1>7 DEF RepeatRound, Listening, TypeOK
<1>8. ASSUME SelectCandidate(n) PROVE Goal
  <2>1. PICK b \in Block : net' = Published(n, "vote", b) /\ b \in voted'[n]
    BY <1>8, SelectedIsHeld DEF SelectCandidate, TypeOK
  <2>2. \A q \in Validators : Listening(q) => Listening(q)'
    BY <1>8 DEF SelectCandidate, Listening, TypeOK
  <2>3. UNCHANGED attempt
    BY <1>8 DEF SelectCandidate
  <2> QED
    BY <1>1, <2>1, <2>2, <2>3 DEF Sent, Exchange, Keyed, Message
<1>9. ASSUME phase[n] = "vote" /\ AggregateVote(n) PROVE Goal
  <2>1. PICK b \in Aggregated(storage["vote"][n], sel[n]) :
          net' = Published(n, "confirm", b) /\ b \in signed'[n] /\ UNCHANGED attempt
    BY <1>9 DEF AggregateVote, TypeOK
  <2>2. b \in Block
    BY <1>9, AggregatedIsVoted
  <2>3. \A q \in Validators : Listening(q) => Listening(q)'
    BY <1>9 DEF AggregateVote, Listening, TypeOK
  <2> QED
    BY <1>1, <2>1, <2>2, <2>3 DEF Sent, Exchange, Keyed, Message
<1>10. ASSUME NEW b \in Held(n, "candidate"), MakeFinalize(n, b) PROVE Goal
  <2>1. FinalOf(n, b) \in Message
    BY FinalOfIsFinal DEF Message
  <2>2. FinalOf(n, b) \in finals' /\ net' = Published(n, "finalize", FinalOf(n, b))
    BY <1>10 DEF MakeFinalize
  <2>3. \A q \in Validators : Listening(q) => Listening(q)'
    BY <1>10 DEF MakeFinalize, Listening, TypeOK
  <2>4. UNCHANGED attempt
    BY <1>10 DEF MakeFinalize, program
  <2> QED
    BY <1>1, <2>1, <2>2, <2>3, <2>4 DEF Sent, Exchange, Keyed
<1>11. ASSUME NEW y \in Keyed, NEW S \in SUBSET Validators, Process(y, n, S) PROVE Goal
  <2>1. \/ net'[x][s][r] = net[x][s][r]
        \/ net[x][s][r] # <<>> /\ net'[x][s][r] = Tail(net[x][s][r])
    BY <1>11, ProcessEntries
  <2> QED
    BY <2>1
<1>12. ASSUME NEW y \in Exchange, NEW t \in Validators, net[y][t][n] # <<>>,
              net' = [net EXCEPT ![y][t][n] = Tail(@)]
       PROVE  Goal
  <2>1. net \in NetType
    BY DEF TypeOK, NetType
  <2>2. net'[x][s][r] = IF x = y /\ s = t /\ r = n
                        THEN Tail(net[x][s][r]) ELSE net[x][s][r]
    BY <1>12, <2>1 DEF NetType
  <2> QED
    BY <1>12, <2>2
<1>13. ASSUME \E t \in Validators : ProcessFinalize(n, t) PROVE Goal
  BY <1>12, <1>13 DEF ProcessFinalize, Exchange
<1>14. ASSUME \E y \in Exchange, t \in Validators : Lose(y, t, n) PROVE Goal
  BY <1>12, <1>14 DEF Lose
<1>15. \/ net' = DeafNet(n) \/ UNCHANGED net
       \/ Propose(n) \/ SelectNothing(n) \/ RepeatRound(n) \/ SelectCandidate(n)
       \/ phase[n] = "vote" /\ AggregateVote(n)
       \/ \E b \in Held(n, "candidate") : MakeFinalize(n, b)
       \/ \E y \in Keyed, S \in SUBSET Validators : Process(y, n, S)
       \/ \E t \in Validators : ProcessFinalize(n, t)
       \/ \E y \in Exchange, t \in Validators : Lose(y, t, n)
  BY DEF Move, Publishes, Receives, Ends, Renewal, Renew, LinkBlock, RewardNobody, Stop, Crash,
         StopListening, AskSyncer, AwaitFinalize, ProcessOtherFinal, ProcessStray
<1> HIDE DEF Goal
<1>16. Goal
  BY <1>2, <1>3, <1>5, <1>6, <1>7, <1>8, <1>9, <1>10, <1>11, <1>13, <1>14, <1>15
<1> QED
  BY <1>16 DEF Goal

\* A storage entry is kept, dropped, or replaced by the oldest message.
LEMMA StorageStep ==
  ASSUME TypeOK, ReceivedIsSent, NEW n \in Validators, Move(n),
         NEW x \in Keyed, NEW s \in Validators, NEW r \in Validators
  PROVE  \/ storage'[x][r][s] = storage[x][r][s]
         \/ storage'[x][r][s] = NoBlock
         \/ net[x][s][r] # <<>> /\ storage'[x][r][s] = Head(net[x][s][r])
<1>1. CASE storage' = EmptyStorage(n)
  BY <1>1, EmptyStorageEntries
<1>2. CASE \E y \in Keyed, S \in SUBSET Validators : Process(y, n, S)
  BY <1>2, ProcessEntries
<1>3. CASE UNCHANGED storage
  BY <1>3
<1> QED
  BY <1>1, <1>2, <1>3, Effects

-----------------------------------------------------------------------------
\* The parts of the invariant are preserved.

\* What is received was sent: queues and storages only pass on.
LEMMA ReceivedIsSentStep ==
  ASSUME IInv, NEW n \in Validators, Move(n)
  PROVE  ReceivedIsSent'
<1> TypeOK /\ ReceivedIsSent /\ SelectedIsVoted
  BY DEF IInv
<1> SUFFICES ASSUME NEW r \in Validators, NEW s \in Validators
             PROVE  /\ \A x \in Exchange : net'[x][s][r] \in Seq(Sent(x, s)')
                    /\ \A x \in Keyed : storage'[x][r][s] \in Sent(x, s)' \cup {NoBlock}
                    /\ fins'[r] \in Seq(finals' \cup OtherFinal)
  BY DEF ReceivedIsSent
<1>1. ASSUME NEW x \in Exchange, NEW t \in Validators
      PROVE  /\ Sent(x, t) \subseteq Sent(x, t)' /\ net[x][t][r] \in Seq(Sent(x, t)')
             /\ net[x][t][r] # <<>> => /\ Head(net[x][t][r]) \in Sent(x, t)'
                                      /\ Tail(net[x][t][r]) \in Seq(Sent(x, t)')
  <2>1. Sent(x, t) \subseteq Sent(x, t)' /\ net[x][t][r] \in Seq(Sent(x, t))
    BY SentGrows DEF ReceivedIsSent
  <2> QED
    BY <2>1, SeqMonotonic, HeadTailProperties
<1>2. ASSUME NEW x \in Exchange
      PROVE  net'[x][s][r] \in Seq(Sent(x, s)')
  <2>1. ASSUME NEW b \in Sent(x, s)' PROVE Append(net[x][s][r], b) \in Seq(Sent(x, s)')
    BY <1>1, <2>1, AppendProperties
  <2>2. <<>> \in Seq(Sent(x, s)')
    BY EmptySeq
  <2>3. \/ net'[x][s][r] = net[x][s][r] \/ net'[x][s][r] = <<>>
        \/ net[x][s][r] # <<>> /\ net'[x][s][r] = Tail(net[x][s][r])
        \/ \E b \in Sent(x, s)' : net'[x][s][r] = Append(net[x][s][r], b)
    BY QueueStep
  <2> QED
    BY <1>1, <2>1, <2>2, <2>3
<1>3. ASSUME NEW x \in Keyed
      PROVE  storage'[x][r][s] \in Sent(x, s)' \cup {NoBlock}
  <2>1. x \in Exchange
    BY DEF Exchange
  <2>2. \/ storage'[x][r][s] = storage[x][r][s] \/ storage'[x][r][s] = NoBlock
        \/ net[x][s][r] # <<>> /\ storage'[x][r][s] = Head(net[x][s][r])
    BY StorageStep
  <2>3. storage[x][r][s] \in Sent(x, s) \cup {NoBlock}
    BY DEF ReceivedIsSent
  <2> QED
    BY <1>1, <2>1, <2>2, <2>3
<1>4. fins'[r] \in Seq(finals' \cup OtherFinal)
  <2> DEFINE S == finals' \cup OtherFinal
  <2>1. fins[r] \in Seq(finals \cup OtherFinal) /\ finals \cup OtherFinal \subseteq S
    BY SentGrows DEF ReceivedIsSent
  <2> HIDE DEF S
  <2>2. fins[r] \in Seq(S) /\ <<>> \in Seq(S)
    BY <2>1, SeqMonotonic, EmptySeq
  <2>3. Get(fins[r], Height).rest \in Seq(S)
    BY <2>2, GetFacts
  <2>4. \A f \in S : Append(fins[r], f) \in Seq(S)
    BY <2>2, AppendProperties
  <2>5. \A t \in Validators : net["finalize"][t][r] # <<>> => Head(net["finalize"][t][r]) \in S
    BY <1>1 DEF Sent, Exchange, S
  <2>6. OtherFinal \subseteq S
    BY DEF S
  <2>7. fins'[r] \in Seq(S)
    BY <2>2, <2>3, <2>4, <2>5, <2>6, FinsStep
  <2> QED
    BY <2>7 DEF S
<1> QED
  BY <1>2, <1>3, <1>4

\* The candidates of this process: a new process finds queues and storages empty.
LEMMA OwnIsOfProcessStep ==
  ASSUME IInv, NEW n \in Validators, Move(n)
  PROVE  OwnIsOfProcess'
<1> TypeOK /\ ReceivedIsSent /\ SelectedIsVoted /\ OwnIsOfProcess /\ DeafIsEmpty
  BY DEF IInv
<1> "candidate" \in Keyed /\ "candidate" \in Exchange
  BY DEF Keyed, Exchange
<1> SUFFICES ASSUME NEW m \in Validators
             PROVE  /\ born'[m] <= attempt'[m]
                    /\ storage'["candidate"][m][m] \in OfProcess(m)' \cup {NoBlock}
                    /\ net'["candidate"][m][m] \in Seq(OfProcess(m)')
  BY DEF OwnIsOfProcess
<1> DEFINE q == net["candidate"][m][m]
<1>1. /\ attempt[m] \in Nat /\ attempt'[m] \in Nat /\ born[m] \in Nat /\ born'[m] \in Nat
      /\ born[m] <= attempt[m] /\ attempt[m] <= attempt'[m]
  <2>1. attempt'[m] \in 0..MaxRenewals /\ born'[m] \in 0..MaxRenewals /\ attempt[m] <= attempt'[m]
    BY AttemptStep
  <2>2. attempt[m] \in 0..MaxRenewals /\ born[m] \in 0..MaxRenewals /\ born[m] <= attempt[m]
    BY DEF TypeOK, OwnIsOfProcess
  <2> QED
    BY <2>1, <2>2
<1>2. CASE born'[m] = born[m]
  <2>1. OfProcess(m) \subseteq OfProcess(m)'
    BY <1>1, <1>2 DEF OfProcess, Block
  <2>2. Own(m) \in OfProcess(m)
    BY <1>1, OwnIsBlock DEF OfProcess
  <2>3. q \in Seq(OfProcess(m)') /\ <<>> \in Seq(OfProcess(m)')
    BY <2>1, SeqMonotonic, EmptySeq DEF OwnIsOfProcess
  <2>4. /\ q # <<>> => Head(q) \in OfProcess(m)' /\ Tail(q) \in Seq(OfProcess(m)')
        /\ Append(q, Own(m)) \in Seq(OfProcess(m)')
    BY <2>1, <2>2, <2>3, HeadTailProperties, AppendProperties
  <2>5. storage'["candidate"][m][m] \in OfProcess(m)' \cup {NoBlock}
    BY <2>1, <2>4, StorageStep DEF OwnIsOfProcess
  <2>6. net'["candidate"][m][m] \in Seq(OfProcess(m)')
    BY <2>3, <2>4, QueueStep
  <2> QED
    BY <1>1, <1>2, <2>5, <2>6
<1>3. CASE born'[m] # born[m]
  <2>1. m = n /\ phase[n] = "crashed" /\ Renewal(n)
    <3>1. UNCHANGED <<attempt, born>> \/ Renewal(n)
      BY Effects
    <3>2. Renewal(n) /\ born' # born
      BY <1>3, <3>1
    <3>3. phase[n] = "crashed" /\ born' = [born EXCEPT ![n] = attempt'[n]]
      BY <3>2 DEF Renewal
    <3>4. born \in [Validators -> 0..MaxRenewals]
      BY DEF TypeOK
    <3> QED
      BY <1>3, <3>2, <3>3, <3>4
  <2>2. born'[m] = attempt'[m]
    BY <2>1 DEF Renewal, TypeOK
  <2>3. storage'["candidate"][m][m] = NoBlock /\ net'["candidate"][m][m] = <<>>
    BY <2>1 DEF Renewal, Renew, DeafIsEmpty, Listening
  <2> QED
    BY <1>1, <2>2, <2>3, EmptySeq
<1> QED
  BY <1>2, <1>3

\* What is selected, and what is rewarded, was voted for.
LEMMA SelectedIsVotedStep ==
  ASSUME IInv, NEW n \in Validators, Move(n)
  PROVE  SelectedIsVoted'
<1> TypeOK /\ ReceivedIsSent /\ SelectedIsVoted
  BY DEF IInv
<1> SUFFICES ASSUME NEW m \in Validators
             PROVE  /\ phase'[m] = "vote" => sel'[m] \in voted'[m]
                    /\ \A s \in Validators : ctx'[m][s] \in voted'[s] \cup {NoBlock}
  BY DEF SelectedIsVoted
<1>1. \A s \in Validators : voted[s] \subseteq voted'[s]
  BY SentGrows
<1>2. phase'[m] = "vote" => sel'[m] \in voted'[m]
  <2>1. CASE SelectCandidate(n)
    BY <1>1, <2>1 DEF SelectCandidate, SelectedIsVoted, TypeOK
  <2>2. CASE UNCHANGED sel /\ ~SelectCandidate(n)
    <3>1. phase'[m] = "vote" => phase[m] = "vote"
      BY <2>2, PhaseStep DEF TypeOK
    <3> QED
      BY <1>1, <2>2, <3>1 DEF SelectedIsVoted
  <2>3. CASE sel' = [sel EXCEPT ![n] = NoBlock] /\ phase'[n] # "vote"
    <3>1. m # n => phase'[m] = phase[m] /\ sel'[m] = sel[m]
      BY <2>3, OthersStay DEF TypeOK
    <3> QED
      BY <1>1, <2>3, <3>1 DEF SelectedIsVoted
  <2> QED
    BY <2>1, <2>2, <2>3, Effects
<1>3. \A s \in Validators : ctx'[m][s] \in voted'[s] \cup {NoBlock}
  <2>1. CASE AggregateVote(n)
    <3>1. \A s \in Validators : storage["vote"][n][s] \in voted[s] \cup {NoBlock}
      BY DEF ReceivedIsSent, Sent, Keyed
    <3>2. ctx' = [ctx EXCEPT ![n] = storage["vote"][n]]
      BY <2>1 DEF AggregateVote
    <3> QED
      BY <1>1, <3>1, <3>2 DEF SelectedIsVoted, TypeOK
  <2>2. CASE UNCHANGED ctx
    BY <1>1, <2>2 DEF SelectedIsVoted
  <2>3. CASE ctx' = [ctx EXCEPT ![n] = Nothing]
    BY <1>1, <2>3 DEF SelectedIsVoted, TypeOK, Nothing
  <2> QED
    BY <2>1, <2>2, <2>3, Effects
<1> QED
  BY <1>2, <1>3

\* Who stops listening drops everything, and nothing is sent to it afterwards.
LEMMA DeafIsEmptyStep ==
  ASSUME IInv, NEW n \in Validators, Move(n)
  PROVE  DeafIsEmpty'
<1> TypeOK /\ ReceivedIsSent /\ SelectedIsVoted /\ DeafIsEmpty
  BY DEF IInv
<1> SUFFICES ASSUME NEW m \in Validators, ~Listening(m)'
             PROVE  /\ \A x \in Exchange, s \in Validators : net'[x][s][m] = <<>>
                    /\ \A x \in Keyed, s \in Validators : storage'[x][m][s] = NoBlock
                    /\ fins'[m] = <<>>
  BY DEF DeafIsEmpty
<1>1. CASE ~Listening(m)
  <2>1. /\ \A x \in Exchange, s \in Validators : net[x][s][m] = <<>>
        /\ \A x \in Keyed, s \in Validators : storage[x][m][s] = NoBlock
        /\ fins[m] = <<>>
    BY <1>1 DEF DeafIsEmpty
  <2>2. \A x \in Exchange, s \in Validators : net'[x][s][m] = <<>>
    BY <1>1, <2>1, QueueStep
  <2>3. \A x \in Keyed, s \in Validators : storage'[x][m][s] = NoBlock
    BY <2>1, StorageStep DEF Exchange
  <2>4. fins'[m] = <<>>
    BY <1>1, <2>1, FinsStep DEF Exchange
  <2> QED
    BY <2>2, <2>3, <2>4
<1>2. CASE Listening(m)
  <2>1. /\ m = n /\ net' = DeafNet(n) /\ storage' = EmptyStorage(n)
        /\ fins' = [fins EXCEPT ![n] = <<>>]
    <3>1. m = n
      BY <1>2, OthersStay DEF Listening
    <3>2. UNCHANGED phase \/ \E p \in Phase :
            /\ phase' = [phase EXCEPT ![n] = p]
            /\ p \in {"linked", "halted", "stopped", "crashed"} =>
                 net' = DeafNet(n) /\ storage' = EmptyStorage(n) /\ fins' = [fins EXCEPT ![n] = <<>>]
      BY PhaseStep
    <3> QED
      BY <1>2, <3>1, <3>2 DEF TypeOK, Listening
  <2>2. \A x \in Exchange, s \in Validators : net'[x][s][m] = <<>>
    BY <2>1, DeafNetEntries
  <2>3. \A x \in Keyed, s \in Validators : storage'[x][m][s] = NoBlock
    BY <2>1, EmptyStorageEntries
  <2>4. fins'[m] = <<>>
    BY <2>1 DEF TypeOK
  <2> QED
    BY <2>2, <2>3, <2>4
<1> QED
  BY <1>1, <1>2

\* A candidate of its own that a validator holds is one of its process.
LEMMA HeldIsOfProcess ==
  ASSUME IInv, NEW n \in Validators, NEW b \in Held(n, "candidate"), b.creator = n
  PROVE  b \in OfProcess(n)
<1>1. PICK s \in Validators : storage["candidate"][n][s] = b /\ b # NoBlock
  BY DEF Held
<1>2. b.creator = s
  BY <1>1 DEF IInv, ReceivedIsSent, Sent, Keyed
<1> QED
  BY <1>1, <1>2 DEF IInv, OwnIsOfProcess

\* A candidate of the past does not come back as the current one.
LEMMA PastStays ==
  ASSUME TypeOK, NEW n \in Validators, Move(n), NEW b \in Block, Past(b)
  PROVE  Past(b)'
<1> DEFINE m == b.creator
           Passed == {"finalize", "sync", "linked", "stopped", "crashed"}
<1>1. /\ m \in Validators /\ b.attempt \in Int
      /\ attempt[m] \in Int /\ attempt'[m] \in Int /\ attempt[m] <= attempt'[m]
  <2>1. attempt'[m] \in 0..MaxRenewals /\ attempt[m] <= attempt'[m] /\ m \in Validators
    BY AttemptStep DEF Block
  <2> QED
    BY <2>1 DEF TypeOK, Block
<1>2. CASE b.attempt < attempt'[m]
  BY <1>2 DEF Past
<1>3. CASE ~(b.attempt < attempt'[m])
  <2>1. b.attempt = attempt[m] /\ attempt'[m] = attempt[m] /\ phase[m] \in Passed
    BY <1>1, <1>3 DEF Past
  <2>2. m = n => ~Renewal(n)
    BY <1>1, <2>1, AttemptStep DEF TypeOK
  <2>3. phase'[m] \in Passed
    <3>1. CASE m # n \/ UNCHANGED phase
      BY <1>1, <2>1, <3>1, OthersStay
    <3>2. CASE m = n /\ ~UNCHANGED phase
      <4>1. PICK p \in Phase :
              /\ phase' = [phase EXCEPT ![n] = p]
              /\ p # "transaction"
              /\ p = "vote" => phase[n] = "candidate"
              /\ p = "confirm" => phase[n] = "vote"
              /\ p = "halted" => phase[n] = "confirm"
              /\ p = "candidate" => phase[n] \in Keyed \cup {"transaction"}
        BY <2>2, <3>2, PhaseStep
      <4>2. p \in Passed
        BY <2>1, <3>2, <4>1 DEF Phase, Exchange, Keyed
      <4> QED
        BY <3>2, <4>1, <4>2 DEF TypeOK
    <3> QED
      BY <3>1, <3>2
  <2> QED
    BY <2>1, <2>3 DEF Past
<1> QED
  BY <1>2, <1>3

\* Only what is final is linked.
LEMMA LinkedOnceStep ==
  ASSUME IInv, NEW n \in Validators, Move(n)
  PROVE  LinkedOnce'
<1> TypeOK /\ ReceivedIsSent /\ LinkedOnce
  BY DEF IInv
<1>1. finals \subseteq finals'
  BY SentGrows
<1>2. ASSUME NEW f, Linkable(n, f), LinkBlock(n, f) PROVE LinkedOnce'
  <2>1. f \in finals /\ phase' = [phase EXCEPT ![n] = "linked"] /\ linked' = [linked EXCEPT ![n] = f]
    BY <1>2, LinkableIsFinal DEF LinkBlock, StopListening
  <2> QED
    BY <1>1, <2>1 DEF LinkedOnce, TypeOK
<1>3. CASE UNCHANGED linked
  <2>1. \A m \in Validators : phase[m] = "linked" => phase'[m] = "linked"
    BY PhaseStep DEF TypeOK
  <2> QED
    BY <1>1, <1>3, <2>1 DEF LinkedOnce
<1> QED
  BY <1>2, <1>3, Effects

\* Only a candidate of this process becomes final, and its creator goes on.
LEMMA FinalIsPastStep ==
  ASSUME IInv, NEW n \in Validators, Move(n)
  PROVE  FinalIsPast'
<1> TypeOK /\ FinalIsPast
  BY DEF IInv
<1>1. \A f \in finals : f.block \in Block /\ Past(f.block)'
  BY PastStays DEF FinalIsPast
<1>2. ASSUME NEW b \in Held(n, "candidate"), MakeFinalize(n, b)
      PROVE  FinalIsPast'
  <2>1. b \in OfProcess(n) /\ b \in Block /\ b.creator = n
    BY <1>2, HeldIsOfProcess DEF MakeFinalize, OfProcess
  <2>2. Past(b)'
    <3>1. b.attempt \in born[n]..attempt[n] /\ born[n] \in Int /\ attempt[n] \in Int
      BY <2>1 DEF OfProcess, TypeOK
    <3>2. phase'[n] = "finalize" /\ UNCHANGED attempt
      BY <1>2 DEF MakeFinalize, program, TypeOK
    <3> QED
      BY <2>1, <3>1, <3>2 DEF Past
  <2>3. finals' = finals \cup {FinalOf(n, b)} /\ FinalOf(n, b).block = b
    BY <1>2 DEF MakeFinalize, FinalOf
  <2> QED
    BY <1>1, <2>1, <2>2, <2>3 DEF FinalIsPast
<1>3. CASE UNCHANGED finals
  BY <1>1, <1>3 DEF FinalIsPast
<1> QED
  BY <1>2, <1>3, Effects

\* What is published once more is not the current candidate: with the current one its
\* creator has not passed the confirm wait.
LEMMA RepublishedIsRenewedStep ==
  ASSUME IInv, NEW n \in Validators, Move(n)
  PROVE  RepublishedIsRenewed'
<1> TypeOK /\ FinalIsPast /\ RepublishedIsRenewed
  BY DEF IInv
<1>1. ASSUME NEW b \in Block, b.attempt < attempt[b.creator]
      PROVE  b.attempt < attempt'[b.creator]
  <2>1. b.creator \in Validators /\ b.attempt \in Int
    BY DEF Block
  <2>2. /\ attempt'[b.creator] \in 0..MaxRenewals /\ attempt[b.creator] \in 0..MaxRenewals
        /\ attempt[b.creator] <= attempt'[b.creator]
    BY <2>1, AttemptStep DEF TypeOK
  <2> QED
    BY <1>1, <2>1, <2>2
<1>2. ASSUME NEW f \in finals, NEW g \in finals, f.block = g.block, f # g
      PROVE  f.block.attempt < attempt'[f.block.creator]
  BY <1>1, <1>2 DEF RepublishedIsRenewed, FinalIsPast
<1>3. ASSUME NEW b \in Held(n, "candidate"), phase[n] = "confirm", MakeFinalize(n, b),
             NEW g \in finals, g.block = b
      PROVE  b.attempt < attempt'[b.creator]
  <2>1. b.creator = n /\ b \in Block /\ Past(b)
    BY <1>3 DEF MakeFinalize, FinalIsPast
  <2>2. b.attempt < attempt[b.creator]
    BY <1>3, <2>1 DEF Past
  <2> QED
    BY <1>1, <2>1, <2>2
<1>4. CASE UNCHANGED finals
  BY <1>2, <1>4 DEF RepublishedIsRenewed
<1>5. ASSUME NEW b \in Held(n, "candidate"), phase[n] = "confirm", MakeFinalize(n, b)
      PROVE  RepublishedIsRenewed'
  <2>1. finals' = finals \cup {FinalOf(n, b)} /\ FinalOf(n, b).block = b
    BY <1>5 DEF MakeFinalize, FinalOf
  <2> QED
    BY <1>2, <1>3, <1>5, <2>1 DEF RepublishedIsRenewed
<1> QED
  BY <1>4, <1>5, Effects

\* The invariant holds at the start and after every step.
LEMMA Initially == Init => IInv
<1> SUFFICES ASSUME Init PROVE IInv
  OBVIOUS
<1>1. TypeOK
  BY InitialType
<1>2. ReceivedIsSent
  BY EmptySeq DEF Init, ReceivedIsSent, Nothing, Exchange, Keyed
<1>3. SelectedIsVoted /\ LinkedOnce /\ FinalIsPast /\ RepublishedIsRenewed
  BY DEF Init, SelectedIsVoted, LinkedOnce, FinalIsPast, RepublishedIsRenewed, Nothing
<1>4. OwnIsOfProcess
  BY EmptySeq DEF Init, OwnIsOfProcess, Nothing, Exchange, Keyed
<1>5. DeafIsEmpty
  BY DEF Init, DeafIsEmpty, Listening
<1> QED
  BY <1>1, <1>2, <1>3, <1>4, <1>5 DEF IInv

LEMMA Inductive == IInv /\ [Next]_vars => IInv'
<1> SUFFICES ASSUME IInv, [Next]_vars PROVE IInv'
  OBVIOUS
<1>1. CASE UNCHANGED vars
  <2>1. TypeOK'
    BY <1>1 DEF vars, IInv, TypeOK
  <2>2. ReceivedIsSent'
    BY <1>1 DEF vars, IInv, ReceivedIsSent, Sent
  <2>3. SelectedIsVoted'
    BY <1>1 DEF vars, IInv, SelectedIsVoted
  <2>4. OwnIsOfProcess'
    BY <1>1 DEF vars, IInv, OwnIsOfProcess, OfProcess
  <2>5. DeafIsEmpty'
    BY <1>1 DEF vars, IInv, DeafIsEmpty, Listening
  <2>6. LinkedOnce' /\ FinalIsPast' /\ RepublishedIsRenewed'
    BY <1>1 DEF vars, IInv, LinkedOnce, FinalIsPast, Past, RepublishedIsRenewed
  <2> QED
    BY <2>1, <2>2, <2>3, <2>4, <2>5, <2>6 DEF IInv
<1>2. ASSUME NEW n \in Validators, Move(n) PROVE IInv'
  <2>1. TypeOK'
    BY <1>2, TypeStep DEF IInv
  <2> QED
    BY <1>2, <2>1, ReceivedIsSentStep, SelectedIsVotedStep, OwnIsOfProcessStep, DeafIsEmptyStep,
       LinkedOnceStep, FinalIsPastStep, RepublishedIsRenewedStep
       DEF IInv
<1> QED
  BY <1>1, <1>2, NextIsMove

\* The inductive invariant holds in every state of LLFC.
THEOREM Invariance == Spec => []IInv
BY Initially, Inductive, PTL DEF Spec

-----------------------------------------------------------------------------
\* LLFC implements Finality.

\* The instance of Finality has its own copy of Cardinality.
LEMMA SameCardinality == ASSUME NEW S PROVE F!Cardinality(S) = Cardinality(S)
BY DEF F!Cardinality, Cardinality

\* A count of votes in a storage is a count of validators that voted.
LEMMA CountedVoted ==
  ASSUME IInv, NEW n \in Validators, NEW b \in Block, NEW k \in Nat,
         Count(storage["vote"][n], b) >= k
  PROVE  Cardinality(F!Voters(b)) >= k
<1> DEFINE S == Senders(storage["vote"][n], b)
           T == F!Voters(b)
<1>1. S \in SUBSET T /\ IsFiniteSet(T)
  <2>1. T \in SUBSET Validators
    BY DEF F!Voters
  <2>2. \A s \in S : b \in voted[s] /\ s \in Validators
    BY NoBlockAssumption DEF Senders, IInv, ReceivedIsSent, Sent, Keyed
  <2> QED
    BY <2>1, <2>2, FS_Subset, ValidatorsAssumption DEF F!Voters
<1>2. Cardinality(S) <= Cardinality(T) /\ Cardinality(S) \in Nat /\ Cardinality(T) \in Nat
  BY <1>1, FS_Subset, FS_CardinalityType
<1> QED
  BY <1>2 DEF Count

\* A count of confirms in a storage is a count of validators that confirmed.
LEMMA CountedSigned ==
  ASSUME IInv, NEW n \in Validators, NEW b \in Block, NEW k \in Nat,
         Count(storage["confirm"][n], b) >= k
  PROVE  Cardinality(F!Signers(b)) >= k
<1> DEFINE S == Senders(storage["confirm"][n], b)
           T == F!Signers(b)
<1>1. S \in SUBSET T /\ IsFiniteSet(T)
  <2>1. T \in SUBSET Validators
    BY DEF F!Signers
  <2>2. \A s \in S : b \in signed[s] /\ s \in Validators
    BY NoBlockAssumption DEF Senders, IInv, ReceivedIsSent, Sent, Keyed
  <2> QED
    BY <2>1, <2>2, FS_Subset, ValidatorsAssumption DEF F!Signers
<1>2. Cardinality(S) <= Cardinality(T) /\ Cardinality(S) \in Nat /\ Cardinality(T) \in Nat
  BY <1>1, FS_Subset, FS_CardinalityType
<1> QED
  BY <1>2 DEF Count

\* Initial states of LLFC are initial states of Finality; its steps are steps of
\* Finality (Vote, Sign, Certify, Link) or leave its variables alone.
LEMMA InitSimulates == Init => F!Init
BY DEF Init, F!Init

LEMMA VoteSimulates ==
  ASSUME IInv, NEW n \in Validators, SelectCandidate(n)
  PROVE  F!Next
<1>1. Select(Held(n, "candidate")) \in Block
  BY SelectedIsHeld DEF IInv
<1> QED
  BY <1>1 DEF SelectCandidate, F!Next, F!Vote

LEMMA SignSimulates ==
  ASSUME IInv, NEW n \in Validators, phase[n] = "vote", AggregateVote(n)
  PROVE  F!Next
<1>1. PICK b \in Aggregated(storage["vote"][n], sel[n]) :
        /\ signed' = [signed EXCEPT ![n] = @ \cup {b}]
        /\ UNCHANGED <<voted, finals, linked>>
  BY DEF AggregateVote
<1>2. sel[n] \in voted[n]
  BY DEF IInv, SelectedIsVoted
<1>3. b \in Block /\ (b = sel[n] \/ Count(storage["vote"][n], b) >= AgreeCount)
  BY AggregatedIsVoted DEF IInv
<1>4. b \in voted[n] \/ Cardinality(F!Voters(b)) >= AgreeCount
  BY <1>2, <1>3, CountedVoted, CountsAssumption
<1>5. F!Sign(n, b)
  BY <1>1, <1>4, SameCardinality DEF F!Sign
<1> QED
  BY <1>3, <1>5 DEF F!Next

LEMMA CertifySimulates ==
  ASSUME IInv, NEW n \in Validators, NEW b \in Confirmed(n) \cap Held(n, "candidate"),
         MakeFinalize(n, b)
  PROVE  F!Next
<1>1. b \in Block
  BY FinalOfIsFinal DEF IInv
<1>2. Rewarded(n, b) \in SUBSET F!Voters(b) /\ Rewarded(n, b) # {}
  <2>1. \A s \in Validators : ctx[n][s] \in voted[s] \cup {NoBlock}
    BY DEF IInv, SelectedIsVoted
  <2>2. b # NoBlock
    BY <1>1, NoBlockAssumption
  <2> QED
    BY <2>1, <2>2 DEF Rewarded, Senders, F!Voters, MakeFinalize
<1>3. Cardinality(F!Signers(b)) >= ConfirmTerms
  BY <1>1, CountedSigned, CountsAssumption DEF Confirmed
<1>4. F!Certify(b, Rewarded(n, b))
  BY <1>3, SameCardinality DEF F!Certify, MakeFinalize, FinalOf
<1> QED
  BY <1>1, <1>2, <1>4 DEF F!Next

LEMMA LinkSimulates ==
  ASSUME IInv, NEW n \in Validators, NEW f, Linkable(n, f), LinkBlock(n, f)
  PROVE  F!Next
<1>1. f \in finals /\ phase[n] # "linked"
  BY LinkableIsFinal DEF IInv
<1>2. F!Link(n, f)
  BY <1>1 DEF IInv, LinkedOnce, F!Link, LinkBlock
<1> QED
  BY <1>1, <1>2 DEF F!Next

LEMMA StepSimulates == IInv /\ [Next]_vars => [F!Next]_F!vars
<1> SUFFICES ASSUME IInv, [Next]_vars PROVE [F!Next]_F!vars
  OBVIOUS
<1>1. CASE UNCHANGED <<voted, signed, finals, linked>>
  BY <1>1 DEF F!vars
<1>2. ASSUME NEW n \in Validators, Move(n) PROVE [F!Next]_F!vars
  <2>1. \/ UNCHANGED voted \/ (phase[n] = "candidate" /\ SelectCandidate(n))
    BY <1>2, Effects DEF IInv
  <2>2. \/ UNCHANGED signed \/ (phase[n] = "vote" /\ AggregateVote(n))
    BY <1>2, Effects DEF IInv
  <2>3. \/ UNCHANGED finals
        \/ \E b \in Confirmed(n) \cap Held(n, "candidate") : MakeFinalize(n, b)
    BY <1>2, Effects DEF IInv
  <2>4. \/ UNCHANGED linked \/ \E f : Linkable(n, f) /\ LinkBlock(n, f)
    BY <1>2, Effects DEF IInv
  <2> QED
    BY <1>1, <2>1, <2>2, <2>3, <2>4, VoteSimulates, SignSimulates, CertifySimulates,
       LinkSimulates
<1> QED
  BY <1>1, <1>2, NextIsMove DEF vars

\* LLFC implements Finality: validators vote, confirm, publish and link as it allows.
THEOREM Refinement == Spec => Implements
<1>1. Init => F!Init
  BY InitSimulates
<1>2. IInv /\ [Next]_vars => [F!Next]_F!vars
  BY StepSimulates
<1> QED
  BY <1>1, <1>2, Invariance, PTL DEF Spec, Implements, F!Spec

-----------------------------------------------------------------------------
\* What follows from the inductive invariant.

\* Type correctness of LLFC.
THEOREM TypeCorrect == Spec => []TypeOK
<1>1. IInv => TypeOK
  BY DEF IInv
<1> QED
  BY <1>1, Invariance, PTL

\* No vote or confirm is attributed to a validator that did not publish it: who publishes
\* a final block has read the votes in it, and votes are never taken back.
LEMMA VotersVoted ==
  ASSUME IInv, NEW n \in Validators, NEW b \in Held(n, "candidate"), NEW s \in Rewarded(n, b)
  PROVE  b \in voted[s]
<1>1. b \in Block /\ s \in Validators /\ ctx[n][s] = b
  BY FinalOfIsFinal DEF IInv, Rewarded, Senders
<1>2. ctx[n][s] \in voted[s] \cup {NoBlock}
  BY <1>1 DEF IInv, SelectedIsVoted
<1> QED
  BY <1>1, <1>2, NoBlockAssumption

VotersHaveVoted == \A f \in finals : \A s \in f.voters : f.block \in voted[s]

LEMMA VotersHaveVotedStep ==
  ASSUME IInv, VotersHaveVoted, NEW n \in Validators, Move(n)
  PROVE  VotersHaveVoted'
<1>1. \A s \in Validators : voted[s] \subseteq voted'[s]
  BY SentGrows DEF IInv
<1>2. \A f \in finals : f.voters \in SUBSET Validators
  BY DEF IInv, TypeOK, Final
<1>3. \A f \in finals : \A s \in f.voters : f.block \in voted'[s]
  BY <1>1, <1>2 DEF VotersHaveVoted
<1>4. ASSUME NEW b \in Held(n, "candidate"), MakeFinalize(n, b)
      PROVE  VotersHaveVoted'
  <2>1. finals' = finals \cup {FinalOf(n, b)}
    BY <1>4 DEF MakeFinalize
  <2>2. FinalOf(n, b).block = b /\ FinalOf(n, b).voters = Rewarded(n, b)
    BY DEF FinalOf
  <2>3. \A s \in Rewarded(n, b) : b \in voted'[s]
    BY <1>1, VotersVoted DEF Rewarded, Senders
  <2> QED
    BY <1>3, <2>1, <2>2, <2>3 DEF VotersHaveVoted
<1>5. CASE UNCHANGED finals
  BY <1>3, <1>5 DEF VotersHaveVoted
<1> QED
  BY <1>4, <1>5, Effects DEF IInv

\* No storage and no final block names a validator for what it never published.
THEOREM NoForgery == Spec => []NothingForged
<1>1. Init => VotersHaveVoted
  BY DEF Init, VotersHaveVoted
<1>2. IInv /\ VotersHaveVoted /\ [Next]_vars => VotersHaveVoted'
  <2> SUFFICES ASSUME IInv, VotersHaveVoted, [Next]_vars PROVE VotersHaveVoted'
    OBVIOUS
  <2>1. CASE UNCHANGED vars
    BY <2>1 DEF vars, VotersHaveVoted
  <2> QED
    BY <2>1, NextIsMove, VotersHaveVotedStep
<1>3. IInv /\ VotersHaveVoted => NothingForged
  BY DEF IInv, ReceivedIsSent, NothingForged, VotersHaveVoted, Sent, Keyed
<1> QED
  BY <1>1, <1>2, <1>3, Invariance, PTL DEF Spec

\* What a validator holds as its own candidate was proposed by its process, and not
\* before a crash.
THEOREM NoOldCandidate == Spec => []OwnCandidateIsOfThisProcess
<1>1. IInv => OwnCandidateIsOfThisProcess
  BY NoBlockAssumption DEF IInv, OwnIsOfProcess, OfProcess, OwnCandidateIsOfThisProcess
<1> QED
  BY <1>1, Invariance, PTL

\* The votes in a final block change only once its creator has proposed another one.
THEOREM NoOtherVotes == Spec => []RepublishedIsRenewed
<1>1. IInv => RepublishedIsRenewed
  BY DEF IInv
<1> QED
  BY <1>1, Invariance, PTL

\* The quorum of confirms behind a block does not shrink.
LEMMA SignersStay ==
  ASSUME TypeOK, NEW n \in Validators, Move(n), NEW b \in Block,
         Cardinality(F!Signers(b)) >= ConfirmTerms
  PROVE  Cardinality(F!Signers(b)') >= ConfirmTerms
<1> DEFINE S == F!Signers(b)
           T == F!Signers(b)'
<1>1. S \in SUBSET T /\ T \in SUBSET Validators
  BY SentGrows DEF F!Signers
<1>2. IsFiniteSet(T)
  BY <1>1, FS_Subset, ValidatorsAssumption
<1>3. Cardinality(S) <= Cardinality(T) /\ Cardinality(S) \in Nat /\ Cardinality(T) \in Nat
  BY <1>1, <1>2, FS_Subset, FS_CardinalityType
<1> QED
  BY <1>3, CountsAssumption

\* Who starts to wait has counted ConfirmTerms confirms.
LEMMA AwaitsCertifiedStep ==
  ASSUME IInv, AwaitsCertified, NEW n \in Validators, Move(n)
  PROVE  AwaitsCertified'
<1> TypeOK
  BY DEF IInv
<1> SUFFICES ASSUME NEW m \in Validators, phase'[m] = "finalize"
             PROVE  \E b \in Block : Cardinality(F!Signers(b)') >= ConfirmTerms
  BY SameCardinality DEF AwaitsCertified
<1>1. CASE phase[m] = "finalize"
  <2>1. \E b \in Block : Cardinality(F!Signers(b)) >= ConfirmTerms
    BY <1>1, SameCardinality DEF AwaitsCertified
  <2> QED
    BY <2>1, SignersStay
<1>2. CASE phase[m] # "finalize"
  <2>1. PICK p \in Phase :
          /\ phase' = [phase EXCEPT ![n] = p]
          /\ p = "finalize" => Confirmed(n) \cap Held(n, "candidate") # {}
    BY <1>2, PhaseStep
  <2>2. p = "finalize"
    BY <1>2, <2>1 DEF TypeOK
  <2>3. PICK b \in Confirmed(n) \cap Held(n, "candidate") : TRUE
    BY <2>1, <2>2
  <2>4. b \in Block
    BY DEF Held, TypeOK, Keyed
  <2>5. Cardinality(F!Signers(b)) >= ConfirmTerms
    BY <2>4, CountedSigned, CountsAssumption DEF Confirmed
  <2> QED
    BY <2>4, <2>5, SignersStay
<1> QED
  BY <1>1, <1>2

\* Nobody waits for a final block without a confirmed one.
THEOREM NoVainWait == Spec => []AwaitsCertified
<1>1. Init => AwaitsCertified
  BY DEF Init, AwaitsCertified
<1>2. IInv /\ AwaitsCertified /\ [Next]_vars => AwaitsCertified'
  <2> SUFFICES ASSUME IInv, AwaitsCertified, [Next]_vars PROVE AwaitsCertified'
    OBVIOUS
  <2>1. CASE UNCHANGED vars
    BY <2>1 DEF vars, AwaitsCertified, F!Signers
  <2> QED
    BY <2>1, NextIsMove, AwaitsCertifiedStep
<1> QED
  BY <1>1, <1>2, Invariance, PTL DEF Spec

-----------------------------------------------------------------------------
\* What LLFC inherits from Finality.

P == INSTANCE FinalityProof

\* The assumptions of Finality follow from those of LLFC.
LEMMA FinalityAssumptions ==
  P!ValidatorsAssumption /\ P!NoBlockAssumption /\ P!CountsAssumption
<1>1. P!ValidatorsAssumption
  BY ValidatorsAssumption DEF P!ValidatorsAssumption, P!IsFiniteSet, IsFiniteSet
<1>2. P!NoBlockAssumption
  BY NoBlockAssumption DEF P!NoBlockAssumption, P!Final, Final
<1> QED
  BY <1>1, <1>2, CountsAssumption DEF P!CountsAssumption

\* Finality and the copy of it that FinalityProof is about.
LEMMA SameCount == ASSUME NEW S PROVE F!Cardinality(S) = P!Cardinality(S)
BY DEF F!Cardinality, P!Cardinality

LEMMA SameFinality == F!Spec => P!Spec
<1>1. F!Init => P!Init
  BY DEF F!Init, P!Init
<1>2. [F!Next]_F!vars => [P!Next]_P!vars
  BY SameCount
     DEF F!Next, F!vars, F!Vote, F!Sign, F!Link, F!Certify, F!Voters, F!Signers,
         P!Next, P!vars, P!Vote, P!Sign, P!Link, P!Certify, P!Voters, P!Signers
<1> QED
  BY <1>1, <1>2, PTL DEF F!Spec, P!Spec

\* Every final block of LLFC has ConfirmTerms confirms behind it.
THEOREM BackedByQuorum == Spec => []FinalBackedByQuorum
<1>1. P!Spec => []P!IInv
  BY FinalityAssumptions, P!Invariance
<1>2. P!IInv => F!FinalBackedByQuorum
  BY SameCount
     DEF P!IInv, P!FinalBackedByQuorum, F!FinalBackedByQuorum, F!IsFinal, F!Signers, P!IsFinal,
         P!Signers
<1> QED
  BY <1>1, <1>2, Refinement, SameFinality, PTL DEF Implements, FinalBackedByQuorum

\* Every final block of LLFC has AgreeCount or ConfirmTerms votes behind it.
THEOREM VotedByQuorum == Spec => []FinalVotedByQuorum
<1>1. P!Spec => []P!FinalVotedByQuorum
  BY FinalityAssumptions, P!VotedByQuorum
<1>2. P!FinalVotedByQuorum => F!FinalVotedByQuorum
  BY SameCount
     DEF P!FinalVotedByQuorum, F!FinalVotedByQuorum, F!IsFinal, F!Voters, P!IsFinal, P!Voters
<1> QED
  BY <1>1, <1>2, Refinement, SameFinality, PTL DEF Implements, FinalVotedByQuorum

\* A fork of LLFC needs a quorum overlap of validators that confirmed both blocks.
THEOREM ForkOverlap == Spec => []ForkAccountability
<1>1. P!Spec => []P!ForkAccountability
  BY FinalityAssumptions, P!ForkOverlap
<1>2. P!ForkAccountability => F!ForkAccountability
  BY SameCount
     DEF P!ForkAccountability, F!ForkAccountability, F!IsFinal, F!Signers, P!IsFinal, P!Signers
<1> QED
  BY <1>1, <1>2, Refinement, SameFinality, PTL DEF Implements, ForkAccountability

\* LLFC forks only where a validator confirmed two blocks.
THEOREM NoForkUnlessReconfirmed == Spec => []F!AgreementUnlessReconfirmed
<1>1. P!Spec => []P!AgreementUnlessReconfirmed
  BY FinalityAssumptions, P!NoForkUnlessReconfirmed
<1>2. P!AgreementUnlessReconfirmed => F!AgreementUnlessReconfirmed
  BY SameCount DEF P!AgreementUnlessReconfirmed, F!AgreementUnlessReconfirmed
<1> QED
  BY <1>1, <1>2, Refinement, SameFinality, PTL DEF Implements

-----------------------------------------------------------------------------
\* Those that select from all candidates.

\* Recording who is hasty constrains no step of LLFC.
LEMMA TimelyIsLLFC == TimelySpec => Spec
<1>1. TimelyInit => Init
  BY DEF TimelyInit
<1>2. [TimelyNext]_timelyvars => [Next]_vars
  BY DEF TimelyNext, timelyvars
<1> QED
  BY <1>1, <1>2, PTL DEF TimelySpec, Spec

HastyType == hasty \in [{"candidate", "vote"} -> SUBSET Validators]

\* The hasty stay hasty, and a second candidate stays a second one.
LEMMA HastyGrows ==
  ASSUME TypeOK, HastyType, NEW n \in Validators, Move(n), Record
  PROVE  /\ HastyType'
         /\ \A x \in {"candidate", "vote"} : hasty[x] \subseteq hasty'[x]
         /\ FewAreHasty' => FewAreHasty
<1>1. HastyType' /\ \A x \in {"candidate", "vote"} : hasty[x] \subseteq hasty'[x]
  BY DEF Record, HastyType
<1>2. ASSUME FewAreHasty' PROVE FewAreHasty
  <2> DEFINE S == hasty["candidate"]
             T == hasty'["candidate"]
  <2>1. S \in SUBSET T /\ T \in SUBSET Validators
    BY <1>1 DEF HastyType
  <2>2. IsFiniteSet(T) /\ IsFiniteSet(S)
    BY <2>1, FS_Subset, ValidatorsAssumption
  <2>3. Cardinality(S) <= Cardinality(T) /\ Cardinality(S) \in Nat /\ Cardinality(T) \in Nat
    BY <2>1, <2>2, FS_Subset, FS_CardinalityType
  <2>4. Cardinality(T) < AgreeCount /\ Cardinality(T) < ConfirmTerms
    BY <1>2 DEF FewAreHasty
  <2>5. \A m \in Validators : attempt[m] = 0
    <3> SUFFICES ASSUME NEW m \in Validators PROVE attempt[m] = 0
      OBVIOUS
    <3>1. attempt[m] <= attempt'[m] /\ attempt'[m] = 0
      BY <1>2, AttemptStep DEF FewAreHasty
    <3>2. attempt[m] \in Nat
      BY DEF TypeOK
    <3> QED
      BY <3>1, <3>2
  <2> QED
    BY <2>3, <2>4, <2>5, CountsAssumption DEF FewAreHasty
<1> QED
  BY <1>1, <1>2

\* A validator whose first candidate is its last has published that one only.
LEMMA FirstIsOnlyStep ==
  ASSUME IInv, FirstIsOnly, NEW n \in Validators, Move(n)
  PROVE  FirstIsOnly'
<1> TypeOK /\ ReceivedIsSent /\ SelectedIsVoted
  BY DEF IInv
<1> "candidate" \in Keyed /\ "candidate" \in Exchange
  BY DEF Keyed, Exchange
<1> SUFFICES ASSUME NEW r \in Validators, NEW s \in Validators, attempt'[s] = 0
             PROVE  /\ storage'["candidate"][r][s] \in {First(s), NoBlock}
                    /\ net'["candidate"][s][r] \in Seq({First(s)})
  BY DEF FirstIsOnly, First
<1> DEFINE q == net["candidate"][s][r]
<1>1. attempt[s] = 0
  <2>1. attempt[s] <= attempt'[s]
    BY AttemptStep
  <2>2. attempt[s] \in Nat
    BY DEF TypeOK
  <2> QED
    BY <2>1, <2>2
<1>2. Own(s) = First(s)
  BY <1>1 DEF Own, First
<1>3. q \in Seq({First(s)}) /\ <<>> \in Seq({First(s)})
  BY <1>1, EmptySeq DEF FirstIsOnly
<1>4. /\ q # <<>> => Head(q) = First(s) /\ Tail(q) \in Seq({First(s)})
      /\ Append(q, First(s)) \in Seq({First(s)})
  BY <1>3, HeadTailProperties, AppendProperties
<1>5. storage'["candidate"][r][s] \in {First(s), NoBlock}
  BY <1>1, <1>4, StorageStep DEF FirstIsOnly
<1>6. net'["candidate"][s][r] \in Seq({First(s)})
  <2>1. \/ net'["candidate"][s][r] = q \/ net'["candidate"][s][r] = <<>>
        \/ q # <<>> /\ net'["candidate"][s][r] = Tail(q)
        \/ \E b : b = Own(s) /\ net'["candidate"][s][r] = Append(q, b)
    BY QueueStep
  <2> QED
    BY <1>2, <1>3, <1>4, <2>1
<1> QED
  BY <1>5, <1>6

\* Who selects from all candidates selects the favourite.
LEMMA PatientSelects ==
  ASSUME TypeOK, FirstIsOnly, FewAreHasty, NEW n \in Validators,
         \A s \in Validators : storage["candidate"][n][s] # NoBlock
  PROVE  Select(Held(n, "candidate")) = Favourite
<1>1. \A s \in Validators : storage["candidate"][n][s] = First(s)
  BY DEF FirstIsOnly, FewAreHasty
<1>2. \A s \in Validators : First(s) # NoBlock
  BY <1>1
<1>3. Held(n, "candidate") = {First(s) : s \in Validators}
  BY <1>1, <1>2 DEF Held
<1> QED
  BY <1>3 DEF Favourite

\* The favourite is the first candidate of some validator.
LEMMA FavouriteIsBlock ==
  Favourite \in Block /\ Favourite.creator \in Validators /\ Favourite = First(Favourite.creator)
<1>1. {First(s) : s \in Validators} \in SUBSET Block /\ {First(s) : s \in Validators} # {}
  <2>1. 0 \in 0..MaxRenewals
    BY BoundsAssumption
  <2>2. \A s \in Validators : First(s) \in Block
    BY <2>1 DEF First, Block
  <2> QED
    BY <2>2, ValidatorsAssumption
<1>2. PICK s \in Validators : Favourite = First(s)
  BY <1>1, SelectAssumption DEF Favourite
<1> QED
  BY <1>1, <1>2 DEF First, Block

\* Another block has the votes and the confirms of hasty validators only.
LEMMA OthersAreFew ==
  ASSUME HastyType, FewAreHasty, NEW S \in SUBSET hasty["candidate"]
  PROVE  Cardinality(S) < AgreeCount /\ Cardinality(S) < ConfirmTerms
<1>1. IsFiniteSet(hasty["candidate"])
  BY FS_Subset, ValidatorsAssumption DEF HastyType
<1>2. /\ Cardinality(S) <= Cardinality(hasty["candidate"])
      /\ Cardinality(S) \in Nat /\ Cardinality(hasty["candidate"]) \in Nat
  BY <1>1, FS_Subset, FS_CardinalityType
<1> QED
  BY <1>2, CountsAssumption DEF FewAreHasty

LEMMA OthersAreHasty ==
  ASSUME IInv, HastyType, FewAreHasty, PatientAgree, NEW b \in Block, b # Favourite
  PROVE  /\ \A n \in Validators : /\ Count(storage["vote"][n], b) < AgreeCount
                                  /\ Count(storage["confirm"][n], b) < ConfirmTerms
         /\ Cardinality(F!Signers(b)) < ConfirmTerms
<1>1. \A s \in Validators : b \in voted[s] \/ b \in signed[s] => s \in hasty["candidate"]
  BY DEF PatientAgree, Patient
<1>2. \A n, s \in Validators : /\ storage["vote"][n][s] = b => b \in voted[s]
                               /\ storage["confirm"][n][s] = b => b \in signed[s]
  <2>1. \A n, s \in Validators : /\ storage["vote"][n][s] \in voted[s] \cup {NoBlock}
                                 /\ storage["confirm"][n][s] \in signed[s] \cup {NoBlock}
    BY DEF IInv, ReceivedIsSent, Sent, Keyed
  <2> QED
    BY <2>1, NoBlockAssumption
<1>3. \A n \in Validators : /\ Senders(storage["vote"][n], b) \in SUBSET hasty["candidate"]
                            /\ Senders(storage["confirm"][n], b) \in SUBSET hasty["candidate"]
  BY <1>1, <1>2 DEF Senders
<1>4. F!Signers(b) \in SUBSET hasty["candidate"]
  BY <1>1 DEF F!Signers
<1> QED
  BY <1>3, <1>4, OthersAreFew DEF Count

\* aggregate_vote_from_context does not lead a patient validator away.
LEMMA PatientAggregates ==
  ASSUME IInv, HastyType, FewAreHasty, PatientAgree, NEW n \in Patient("candidate"),
         phase[n] = "vote", NEW b \in Aggregated(storage["vote"][n], sel[n])
  PROVE  b = Favourite
<1> n \in Validators
  BY DEF Patient
<1>1. sel[n] = Favourite
  BY DEF IInv, SelectedIsVoted, PatientAgree
<1>2. b \in Block /\ (b = sel[n] \/ Count(storage["vote"][n], b) >= AgreeCount)
  BY <1>1, FavouriteIsBlock, AggregatedIsVoted DEF IInv
<1>3. ASSUME b # Favourite PROVE FALSE
  <2>1. Count(storage["vote"][n], b) < AgreeCount /\ Count(storage["vote"][n], b) >= AgreeCount
    BY <1>1, <1>2, <1>3, OthersAreHasty
  <2>2. IsFiniteSet(Senders(storage["vote"][n], b))
    BY FS_Subset, ValidatorsAssumption DEF Senders
  <2>3. Count(storage["vote"][n], b) \in Nat
    BY <2>2, FS_CardinalityType DEF Count
  <2> QED
    BY <2>1, <2>3, CountsAssumption
<1> QED
  BY <1>3

\* Only the favourite is ever confirmed, by anybody.
LEMMA ConfirmedIsFavourite ==
  ASSUME IInv, HastyType, FewAreHasty, PatientAgree, NEW n \in Validators,
         NEW b \in Confirmed(n)
  PROVE  b = Favourite
<1>1. b \in Block /\ Count(storage["confirm"][n], b) >= ConfirmTerms
  BY DEF Confirmed, Held, IInv, TypeOK, Keyed
<1>2. IsFiniteSet(Senders(storage["confirm"][n], b))
  BY FS_Subset, ValidatorsAssumption DEF Senders
<1>3. Count(storage["confirm"][n], b) \in Nat
  BY <1>2, FS_CardinalityType DEF Count
<1>4. b # Favourite => Count(storage["confirm"][n], b) < ConfirmTerms
  BY <1>1, OthersAreHasty
<1> QED
  BY <1>1, <1>3, <1>4, CountsAssumption

\* Somebody is patient.
LEMMA SomebodyIsPatient ==
  ASSUME IInv, HastyType, FewAreHasty, NEW n \in Validators, NEW b \in Confirmed(n)
  PROVE  Patient("candidate") # {}
<1>1. Count(storage["confirm"][n], b) >= ConfirmTerms
  BY DEF Confirmed
<1>2. ASSUME Patient("candidate") = {} PROVE FALSE
  <2>1. Senders(storage["confirm"][n], b) \in SUBSET hasty["candidate"]
    BY <1>2 DEF Patient, Senders
  <2>2. Count(storage["confirm"][n], b) < ConfirmTerms
    BY <2>1, OthersAreFew DEF Count
  <2>3. IsFiniteSet(Senders(storage["confirm"][n], b))
    BY FS_Subset, ValidatorsAssumption DEF Senders
  <2>4. Count(storage["confirm"][n], b) \in Nat
    BY <2>3, FS_CardinalityType DEF Count
  <2> QED
    BY <1>1, <2>2, <2>4, CountsAssumption
<1> QED
  BY <1>2

\* Votes and confirms of the patient: one for each way to get a new one.
LEMMA PatientAgreeStep ==
  ASSUME IInv, TimelyInv, FewAreHasty, NEW n \in Validators, Move(n), Record
  PROVE  PatientAgree'
<1> TypeOK /\ HastyType /\ FirstIsOnly /\ PatientAgree
  BY DEF IInv, TimelyInv, HastyType
<1> SUFFICES ASSUME NEW m \in Validators, m \notin hasty'["candidate"]
             PROVE  voted'[m] \subseteq {Favourite} /\ signed'[m] \subseteq {Favourite}
  BY DEF PatientAgree, Patient, Favourite, First
<1>1. m \in Patient("candidate")
  BY HastyGrows DEF Patient
<1>2. voted[m] \subseteq {Favourite} /\ signed[m] \subseteq {Favourite}
  BY <1>1 DEF PatientAgree
<1>3. voted'[m] \subseteq {Favourite}
  <2>1. CASE UNCHANGED voted
    BY <1>2, <2>1
  <2>2. CASE phase[n] = "candidate" /\ SelectCandidate(n)
    <3>1. voted' = [voted EXCEPT ![n] = @ \cup {Select(Held(n, "candidate"))}]
      BY <2>2 DEF SelectCandidate
    <3>2. CASE m # n
      BY <1>2, <3>1, <3>2 DEF TypeOK
    <3>3. CASE m = n
      <4>1. phase'[n] = "vote"
        BY <2>2 DEF SelectCandidate, TypeOK
      <4>2. ~GoesOn(n, "candidate")
        BY <3>3 DEF Record
      <4>3. \A s \in Validators : storage["candidate"][n][s] # NoBlock
        BY <2>2, <4>1, <4>2 DEF GoesOn, Successor
      <4>4. Select(Held(n, "candidate")) = Favourite
        BY <4>3, PatientSelects
      <4> QED
        BY <1>2, <3>1, <3>3, <4>4 DEF TypeOK
    <3> QED
      BY <3>2, <3>3
  <2>3. UNCHANGED voted \/ (phase[n] = "candidate" /\ SelectCandidate(n))
    BY Effects
  <2> QED
    BY <2>1, <2>2, <2>3
<1>4. signed'[m] \subseteq {Favourite}
  <2>1. CASE UNCHANGED signed
    BY <1>2, <2>1
  <2>2. CASE phase[n] = "vote" /\ AggregateVote(n)
    <3>1. PICK b \in Aggregated(storage["vote"][n], sel[n]) :
            signed' = [signed EXCEPT ![n] = @ \cup {b}]
      BY <2>2 DEF AggregateVote
    <3>2. m = n => b = Favourite
      BY <1>1, <2>2, PatientAggregates
    <3> QED
      BY <1>2, <3>1, <3>2 DEF TypeOK
  <2>3. UNCHANGED signed \/ (phase[n] = "vote" /\ AggregateVote(n))
    BY Effects
  <2> QED
    BY <2>1, <2>2, <2>3
<1> QED
  BY <1>3, <1>4

\* The votes a patient creator finds, and what becomes of them.
LEMMA PatientRewardStep ==
  ASSUME IInv, TimelyInv, FewAreHasty, NEW n \in Validators, Move(n), Record
  PROVE  PatientReward'
<1> TypeOK /\ HastyType /\ PatientAgree /\ PatientReward
  BY DEF IInv, TimelyInv, HastyType
<1> DEFINE All == Patient("candidate")
           Read(m, c) == \A s \in All : c[m][s] = Favourite
           Paid(fs) == \A f \in fs : f.block = Favourite => All \subseteq f.voters
<1> SUFFICES ASSUME NEW m \in Validators, m \notin hasty'["vote"]
             PROVE  /\ phase'[m] # "halted"
                    /\ m = Favourite.creator =>
                        /\ phase'[m] = "confirm" => Read(m, ctx')
                        /\ Paid(finals')
  <2>1. Patient("candidate")' \subseteq All
    BY HastyGrows DEF Patient
  <2>2. Patient("vote")' = Validators \ hasty'["vote"] /\ Favourite' = Favourite
    BY DEF Patient, Favourite, First
  <2> QED
    BY <2>1, <2>2 DEF PatientReward
<1>1. m \in Patient("vote")
  BY HastyGrows DEF Patient
<1>2. /\ phase[m] # "halted"
      /\ m = Favourite.creator =>
          /\ phase[m] = "confirm" => Read(m, ctx)
          /\ Paid(finals)
  BY <1>1 DEF PatientReward
<1>3. \A b \in Confirmed(n) : b = Favourite /\ All # {}
  BY ConfirmedIsFavourite, SomebodyIsPatient
<1>4. All \subseteq Validators
  BY DEF Patient
<1>5. phase'[m] # "halted"
  <2> SUFFICES ASSUME phase'[m] = "halted" PROVE FALSE
    OBVIOUS
  <2>1. m = n
    BY <1>2, OthersStay
  <2>2. ~UNCHANGED phase
    BY <1>2
  <2>3. PICK p \in Phase : /\ phase' = [phase EXCEPT ![n] = p]
                           /\ p = "halted" => \E b \in Confirmed(n) \cap Held(n, "candidate") :
                                                phase[n] = "confirm" /\ RewardNobody(n, b)
    BY <2>2, PhaseStep
  <2>4. p = "halted"
    BY <2>1, <2>3 DEF TypeOK
  <2>5. PICK b \in Confirmed(n) : phase[n] = "confirm" /\ RewardNobody(n, b)
    BY <2>3, <2>4
  <2>6. b = Favourite /\ n = Favourite.creator /\ Rewarded(n, Favourite) = {}
    BY <1>3, <2>5 DEF RewardNobody
  <2>7. \A s \in All : s \in Rewarded(n, Favourite)
    BY <1>2, <1>4, <2>1, <2>5, <2>6 DEF Rewarded, Senders
  <2> QED
    BY <1>3, <2>5, <2>6, <2>7
<1>6. ASSUME m = Favourite.creator, phase'[m] = "confirm"
      PROVE  Read(m, ctx')
  <2>1. CASE m = n /\ phase[n] = "vote" /\ AggregateVote(n)
    <3>1. ~GoesOn(n, "vote")
      BY <2>1 DEF Record
    <3>2. \A s \in Validators : storage["vote"][n][s] # NoBlock
      BY <1>6, <2>1, <3>1 DEF GoesOn, Successor
    <3>3. \A s \in Validators : storage["vote"][n][s] \in voted[s] \cup {NoBlock}
      BY DEF IInv, ReceivedIsSent, Sent, Keyed
    <3>4. \A s \in All : storage["vote"][n][s] = Favourite
      BY <1>4, <3>2, <3>3 DEF PatientAgree
    <3>5. ctx' = [ctx EXCEPT ![n] = storage["vote"][n]]
      BY <2>1 DEF AggregateVote
    <3>6. ctx'[n] = storage["vote"][n]
      BY <3>5 DEF TypeOK
    <3> QED
      BY <2>1, <3>4, <3>6
  <2>2. CASE phase[m] = "confirm" /\ ctx'[m] = ctx[m]
    BY <1>2, <1>6, <2>2
  <2>3. CASE m # n
    <3>1. phase[m] = "confirm"
      BY <1>6, <2>3, OthersStay
    <3>2. \/ UNCHANGED ctx
          \/ ctx' = [ctx EXCEPT ![n] = Nothing]
          \/ AggregateVote(n)
      BY Effects
    <3>3. ctx'[m] = ctx[m]
      BY <2>3, <3>2 DEF AggregateVote, TypeOK
    <3> QED
      BY <2>2, <3>1, <3>3
  <2>4. CASE m = n /\ UNCHANGED phase
    <3>1. phase[n] = "confirm" /\ phase'[n] = "confirm"
      BY <1>6, <2>4
    <3>2. UNCHANGED ctx
      BY <3>1 DEF Move, Publishes, Receives, Ends, Propose, SelectCandidate, SelectNothing,
                  AggregateVote, MakeFinalize, RepeatRound, RewardNobody, Stop, Crash,
                  StopListening, Renewal, Renew, LinkBlock, AskSyncer, AwaitFinalize, Process,
                  ProcessFinalize, ProcessOtherFinal, ProcessStray, Lose, program, TypeOK
    <3> QED
      BY <2>2, <2>4, <3>1, <3>2
  <2>5. CASE m = n /\ ~UNCHANGED phase
    <3>1. PICK p \in Phase : /\ phase' = [phase EXCEPT ![n] = p]
                             /\ p = "confirm" => phase[n] = "vote" /\ AggregateVote(n)
      BY <2>5, PhaseStep
    <3>2. p = "confirm"
      BY <1>6, <2>5, <3>1 DEF TypeOK
    <3> QED
      BY <2>1, <2>5, <3>1, <3>2
  <2> QED
    BY <2>3, <2>4, <2>5
<1>7. ASSUME m = Favourite.creator PROVE Paid(finals')
  <2>1. CASE UNCHANGED finals
    BY <1>2, <1>7, <2>1
  <2>2. ASSUME NEW b \in Confirmed(n), phase[n] = "confirm", MakeFinalize(n, b)
        PROVE  Paid(finals')
    <3>1. b = Favourite /\ finals' = finals \cup {FinalOf(n, Favourite)} /\ n = m
      BY <1>3, <1>7, <2>2 DEF MakeFinalize
    <3>2. All \subseteq Rewarded(n, Favourite)
      BY <1>2, <1>4, <1>7, <2>2, <3>1 DEF Rewarded, Senders
    <3>3. FinalOf(n, Favourite).voters = Rewarded(n, Favourite)
      BY DEF FinalOf
    <3> QED
      BY <1>2, <1>7, <3>1, <3>2, <3>3
  <2>3. UNCHANGED finals \/ \E b \in Confirmed(n) \cap Held(n, "candidate") :
                               phase[n] = "confirm" /\ MakeFinalize(n, b)
    BY Effects
  <2> QED
    BY <2>1, <2>2, <2>3
<1> QED
  BY <1>5, <1>6, <1>7

LEMMA TimelyInitially == TimelyInit => TimelyInv
<1> SUFFICES ASSUME TimelyInit PROVE TimelyInv
  OBVIOUS
<1>1. hasty \in [{"candidate", "vote"} -> SUBSET Validators]
  BY DEF TimelyInit
<1>2. FirstIsOnly
  BY EmptySeq DEF TimelyInit, Init, FirstIsOnly, Nothing, Exchange, Keyed
<1>3. PatientAgree
  BY DEF TimelyInit, Init, PatientAgree, Patient
<1>4. PatientReward
  BY FavouriteIsBlock DEF TimelyInit, Init, PatientReward, Patient
<1> QED
  BY <1>1, <1>2, <1>3, <1>4 DEF TimelyInv

LEMMA TimelyInductive == IInv /\ TimelyInv /\ [TimelyNext]_timelyvars => TimelyInv'
<1> SUFFICES ASSUME IInv, TimelyInv, [TimelyNext]_timelyvars PROVE TimelyInv'
  OBVIOUS
<1>1. CASE UNCHANGED timelyvars
  <2>1. UNCHANGED <<phase, attempt, storage, ctx, net, finals, voted, signed, hasty>>
    BY <1>1 DEF timelyvars, vars
  <2>2. FirstIsOnly' = FirstIsOnly /\ PatientAgree' = PatientAgree
        /\ PatientReward' = PatientReward /\ FewAreHasty' = FewAreHasty
    BY <2>1
       DEF FirstIsOnly, PatientAgree, PatientReward, FewAreHasty, Patient, Favourite, First
  <2> QED
    BY <2>1, <2>2 DEF TimelyInv
<1>2. ASSUME NEW n \in Validators, Move(n), Record PROVE TimelyInv'
  <2> TypeOK /\ HastyType /\ FirstIsOnly
    BY DEF IInv, TimelyInv, HastyType
  <2>1. HastyType' /\ (FewAreHasty' => FewAreHasty)
    BY <1>2, HastyGrows
  <2>2. FirstIsOnly'
    BY <1>2, FirstIsOnlyStep
  <2>3. FewAreHasty => PatientAgree' /\ PatientReward'
    BY <1>2, PatientAgreeStep, PatientRewardStep
  <2> QED
    BY <2>1, <2>2, <2>3 DEF TimelyInv, HastyType
<1> QED
  BY <1>1, <1>2, NextIsMove DEF TimelyNext

\* The invariant about the patient holds in every state.
THEOREM TimelyInvariance == TimelySpec => []TimelyInv
<1>1. TimelySpec => []IInv
  BY TimelyIsLLFC, Invariance, PTL
<1> QED
  BY <1>1, TimelyInitially, TimelyInductive, PTL DEF TimelySpec

\* A final block is the favourite, and nobody has published it with other votes.
LEMMA FinalIsFavourite ==
  ASSUME IInv, HastyType, FewAreHasty, PatientAgree, FinalBackedByQuorum, NEW f \in finals
  PROVE  f.block = Favourite
<1>1. f \in Final /\ f.block \in Block
  BY DEF IInv, TypeOK, Final
<1>2. Cardinality(F!Signers(f.block)) >= ConfirmTerms
  BY <1>1, SameCardinality DEF FinalBackedByQuorum, F!FinalBackedByQuorum, F!IsFinal
<1>3. IsFiniteSet(F!Signers(f.block))
  BY FS_Subset, ValidatorsAssumption DEF F!Signers
<1>4. Cardinality(F!Signers(f.block)) \in Nat
  BY <1>3, FS_CardinalityType
<1> QED
  BY <1>1, <1>2, <1>4, OthersAreHasty, CountsAssumption

LEMMA FinalIsOne ==
  ASSUME IInv, HastyType, FewAreHasty, PatientAgree, FinalBackedByQuorum,
         NEW f \in finals, NEW g \in finals
  PROVE  f = g
<1>1. f.block = Favourite /\ g.block = Favourite
  BY FinalIsFavourite
<1>2. attempt[Favourite.creator] = 0 /\ Favourite.attempt = 0
  BY FavouriteIsBlock DEF FewAreHasty, First
<1> QED
  BY <1>1, <1>2 DEF IInv, RepublishedIsRenewed

\* No fork as long as enough validators select from all candidates.
THEOREM NoForkIfTimely == TimelySpec => []AgreementIfTimely
<1>1. TimelySpec => [](IInv /\ FinalBackedByQuorum)
  BY TimelyIsLLFC, Invariance, BackedByQuorum, PTL
<1>2. IInv /\ FinalBackedByQuorum /\ TimelyInv => AgreementIfTimely
  <2> SUFFICES ASSUME IInv, FinalBackedByQuorum, TimelyInv, FewAreHasty,
                      NEW m \in Validators, linked[m] # NoBlock,
                      NEW n \in Validators, linked[n] # NoBlock
               PROVE  linked[m] = linked[n]
    BY DEF AgreementIfTimely, Agreement
  <2>1. linked[m] \in finals /\ linked[n] \in finals
    BY DEF IInv, LinkedOnce
  <2> QED
    BY <2>1, FinalIsOne DEF TimelyInv, HastyType
<1> QED
  BY <1>1, <1>2, TimelyInvariance, PTL

\* Every patient creator survives and rewards all that selected from all candidates.
THEOREM FairRewardIfTimely == TimelySpec => []RewardIfTimely
<1>1. TimelySpec => [](IInv /\ FinalBackedByQuorum)
  BY TimelyIsLLFC, Invariance, BackedByQuorum, PTL
<1>2. IInv /\ FinalBackedByQuorum /\ TimelyInv => RewardIfTimely
  <2> SUFFICES ASSUME IInv, FinalBackedByQuorum, TimelyInv, FewAreHasty,
                      NEW n \in Patient("vote")
               PROVE  /\ phase[n] # "halted"
                      /\ \A f \in finals : f.block.creator = n =>
                            Patient("candidate") \subseteq f.voters
    BY DEF RewardIfTimely
  <2>1. \A f \in finals : f.block = Favourite
    BY FinalIsFavourite DEF TimelyInv, HastyType
  <2>2. n \in Validators
    BY DEF Patient
  <2> QED
    BY <2>1, <2>2 DEF TimelyInv, PatientReward
<1> QED
  BY <1>1, <1>2, TimelyInvariance, PTL

\* Nobody has worked on an incomplete set of candidates or votes, or made a second candidate.
Undisturbed == hasty["candidate"] = {} /\ hasty["vote"] = {} /\ \A n \in Validators : attempt[n] = 0

\* If all wait for all candidates and all votes, the linked block carries the votes of
\* everybody and no creator dies of it: what the code does wrong in the runs llfc_votes
\* and llfc_reward takes a wait that ended with something missing, or a second candidate.
THEOREM QuorumIfUndisturbed ==
  TimelySpec => [](Undisturbed => LinkedCarriesQuorum /\ CreatorSurvives /\ Agreement)
<1>1. TimelySpec => []IInv
  BY TimelyIsLLFC, Invariance, PTL
<1>2. IInv /\ TimelyInv /\ RewardIfTimely /\ AgreementIfTimely /\ Undisturbed
        => LinkedCarriesQuorum /\ CreatorSurvives /\ Agreement
  <2> SUFFICES ASSUME IInv, TimelyInv, RewardIfTimely, AgreementIfTimely, Undisturbed
               PROVE  LinkedCarriesQuorum /\ CreatorSurvives /\ Agreement
    OBVIOUS
  <2>1. FewAreHasty
    BY FS_EmptySet, CountsAssumption DEF Undisturbed, FewAreHasty
  <2>2. Patient("vote") = Validators /\ Patient("candidate") = Validators
    BY DEF Patient, Undisturbed
  <2>3. CreatorSurvives
    BY <2>1, <2>2 DEF RewardIfTimely, CreatorSurvives
  <2>4. ASSUME NEW n \in Validators, linked[n] # NoBlock
        PROVE  3 * Cardinality(linked[n].voters) > 2 * Cardinality(Validators)
    <3>1. linked[n] \in finals /\ linked[n] \in Final
      BY <2>4 DEF IInv, TypeOK, LinkedOnce
    <3>2. linked[n].block.creator \in Validators /\ linked[n].voters \in SUBSET Validators
      BY <3>1 DEF Final, Block
    <3>3. linked[n].voters = Validators
      BY <2>1, <2>2, <3>1, <3>2 DEF RewardIfTimely
    <3>4. Cardinality(Validators) \in Nat \ {0}
      BY ValidatorsAssumption, FS_CardinalityType, FS_EmptySet
    <3> QED
      BY <3>3, <3>4
  <2> QED
    BY <2>1, <2>3, <2>4 DEF LinkedCarriesQuorum, AgreementIfTimely
<1> QED
  BY <1>1, <1>2, TimelyInvariance, NoForkIfTimely, FairRewardIfTimely, PTL

=============================================================================

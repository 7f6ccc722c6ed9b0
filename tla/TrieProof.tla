------------------------------ MODULE TrieProof ------------------------------
(***************************************************************************)
(* The trie is a map with one root for every contents and no missing node, *)
(* for any keys, values and nibbles.                                       *)
(*                                                                         *)
(* A node is described by where it stands: at position p, the nibbles      *)
(* above it, it holds what a map has under the keys that begin with p.     *)
(***************************************************************************)
EXTENDS Trie, SequenceTheorems, WellFoundedInduction, TLAPS

Path == Seq(Nibble)

-----------------------------------------------------------------------------
(***************************************************************************)
(* Paths.                                                                  *)
(***************************************************************************)

\* A non-empty set of natural numbers has a least element.
LEMMA Least ==
  ASSUME NEW T \in SUBSET Nat, T # {}
  PROVE  \E x \in T : \A y \in T : x <= y
<1>1. PICK x \in T : \A y \in T : ~(<<y, x>> \in OpToRel(<, Nat))
  BY WFMin, NatLessThanWellFounded
<1>2. \A y \in T : ~(y < x)
  BY <1>1 DEF OpToRel
<1> QED BY <1>2

LEMMA PathFacts ==
  ASSUME NEW p \in Path
  PROVE  /\ Len(p) \in Nat
         /\ Len(p) = 0 <=> p = <<>>
         /\ \A i \in 1..Len(p) : p[i] \in Nibble
         /\ \A q \in Path : Len(p) = Len(q) /\ (\A i \in 1..Len(p) : p[i] = q[i]) => p = q
  BY SeqEqual, EmptySeq DEF Path

LEMMA Concat ==
  ASSUME NEW p \in Path, NEW q \in Path
  PROVE  /\ p \o q \in Path
         /\ Len(p \o q) = Len(p) + Len(q)
         /\ \A i \in 1..Len(p) : (p \o q)[i] = p[i]
         /\ \A i \in 1..Len(q) : (p \o q)[Len(p) + i] = q[i]
<1>1. /\ p \o q \in Path
      /\ Len(p \o q) = Len(p) + Len(q)
      /\ \A i \in 1..Len(p) + Len(q) :
           (p \o q)[i] = IF i <= Len(p) THEN p[i] ELSE q[i - Len(p)]
  BY ConcatProperties DEF Path
<1>2. Len(p) \in Nat /\ Len(q) \in Nat
  BY PathFacts
<1>3. \A i \in 1..Len(p) : (p \o q)[i] = p[i]
  BY <1>1, <1>2
<1>4. ASSUME NEW i \in 1..Len(q) PROVE (p \o q)[Len(p) + i] = q[i]
  <2>1. Len(p) + i \in 1..Len(p) + Len(q) /\ ~(Len(p) + i <= Len(p)) /\ (Len(p) + i) - Len(p) = i
    BY <1>2
  <2> QED BY <1>1, <2>1
<1> QED BY <1>1, <1>3, <1>4

LEMMA Associative ==
  ASSUME NEW p \in Path, NEW q \in Path, NEW r \in Path
  PROVE  p \o (q \o r) = (p \o q) \o r
  BY ConcatAssociative DEF Path

LEMMA Empty ==
  ASSUME NEW p \in Path
  PROVE  <<>> \in Path /\ p \o <<>> = p /\ <<>> \o p = p
  BY ConcatEmptySeq, EmptySeq DEF Path

LEMMA Cancel ==
  ASSUME NEW p \in Path, NEW q \in Path, NEW r \in Path, p \o q = p \o r
  PROVE  q = r
<1>1. Len(q) \in Nat /\ Len(r) \in Nat /\ Len(p) \in Nat
  BY PathFacts
<1>2. Len(q) = Len(r)
  BY <1>1, Concat
<1>3. ASSUME NEW i \in 1..Len(q) PROVE q[i] = r[i]
  <2>1. (p \o q)[Len(p) + i] = q[i]
    BY Concat
  <2>2. (p \o r)[Len(p) + i] = r[i]
    BY <1>2, Concat
  <2> QED BY <2>1, <2>2
<1> QED BY <1>2, <1>3, PathFacts

LEMMA Single ==
  ASSUME NEW i \in Nibble
  PROVE  <<i>> \in Path /\ Len(<<i>>) = 1 /\ <<i>>[1] = i
  BY DEF Path

LEMMA HeadAndTail ==
  ASSUME NEW p \in Path, p # <<>>
  PROVE  /\ p[1] \in Nibble
         /\ Tail(p) \in Path
         /\ Len(Tail(p)) = Len(p) - 1
         /\ p = <<p[1]>> \o Tail(p)
<1>1. Len(p) \in Nat /\ Len(p) # 0
  BY PathFacts
<1>2. p[1] \in Nibble
  BY <1>1, PathFacts
<1>3. /\ Tail(p) \in Path /\ Len(Tail(p)) = Len(p) - 1
      /\ \A i \in 1..Len(Tail(p)) : Tail(p)[i] = p[i + 1]
  BY HeadTailProperties DEF Path
<1>4. /\ <<p[1]>> \o Tail(p) \in Path
      /\ Len(<<p[1]>> \o Tail(p)) = Len(p)
      /\ (<<p[1]>> \o Tail(p))[1] = p[1]
      /\ \A i \in 1..Len(Tail(p)) : (<<p[1]>> \o Tail(p))[1 + i] = p[i + 1]
  BY <1>1, <1>2, <1>3, Single, Concat
<1>5. ASSUME NEW i \in 1..Len(p) PROVE p[i] = (<<p[1]>> \o Tail(p))[i]
  <2>1. CASE i = 1
    BY <1>4, <2>1
  <2>2. CASE i # 1
    <3>1. i - 1 \in 1..Len(Tail(p)) /\ 1 + (i - 1) = i /\ (i - 1) + 1 = i
      BY <1>1, <1>3, <2>2
    <3> QED BY <1>4, <3>1
  <2> QED BY <2>1, <2>2
<1> QED BY <1>2, <1>3, <1>4, <1>5, PathFacts

LEMMA Prepend ==
  ASSUME NEW S, NEW x \in S, NEW u \in Seq(S)
  PROVE  /\ (<<x>> \o u)[1] = x
         /\ Tail(<<x>> \o u) = u
         /\ <<x>> \o u # <<>>
<1> DEFINE t == <<x>> \o u
<1>1. <<x>> \in Seq(S) /\ Len(<<x>>) = 1 /\ <<x>>[1] = x /\ Len(u) \in Nat
  OBVIOUS
<1>2. t \in Seq(S) /\ Len(t) = 1 + Len(u)
      /\ \A i \in 1..1 + Len(u) : t[i] = IF i <= 1 THEN <<x>>[i] ELSE u[i - 1]
  BY <1>1, ConcatProperties
<1> HIDE DEF t
<1>3. t[1] = x /\ t # <<>>
  BY <1>1, <1>2
<1>4. /\ Tail(t) \in Seq(S) /\ Len(Tail(t)) = Len(t) - 1
      /\ \A i \in 1..Len(Tail(t)) : Tail(t)[i] = t[i + 1]
  BY <1>2, <1>3, HeadTailProperties
<1>5. Len(Tail(t)) = Len(u)
  BY <1>1, <1>2, <1>4
<1>6. ASSUME NEW i \in 1..Len(u) PROVE Tail(t)[i] = u[i]
  <2>1. i + 1 \in 1..1 + Len(u) /\ ~(i + 1 <= 1) /\ (i + 1) - 1 = i
    BY <1>1
  <2> QED BY <1>2, <1>4, <1>5, <2>1
<1>7. Tail(t) = u
  BY <1>4, <1>5, <1>6, SeqEqual
<1> QED BY <1>3, <1>7 DEF t

LEMMA TailOf ==
  ASSUME NEW i \in Nibble, NEW p \in Path
  PROVE  /\ (<<i>> \o p)[1] = i
         /\ Tail(<<i>> \o p) = p
         /\ <<i>> \o p # <<>>
  BY Prepend DEF Path

LEMMA SplitPath ==
  ASSUME NEW p \in Path, NEW c \in 0..Len(p)
  PROVE  /\ First(p, c) \in Path /\ Len(First(p, c)) = c
         /\ \A i \in 1..c : First(p, c)[i] = p[i]
         /\ Rest(p, c) \in Path /\ Len(Rest(p, c)) = Len(p) - c
         /\ \A i \in 1..(Len(p) - c) : Rest(p, c)[i] = p[c + i]
         /\ p = First(p, c) \o Rest(p, c)
<1>1. Len(p) \in Nat /\ \A i \in 1..Len(p) : p[i] \in Nibble
  BY PathFacts
<1>2. /\ First(p, c) \in Path /\ Len(First(p, c)) = c
      /\ \A i \in 1..c : First(p, c)[i] = p[i]
  <2>1. \A i \in 1..c : p[i] \in Nibble
    BY <1>1
  <2>2. /\ SubSeq(p, 1, c) \in Seq(Nibble)
        /\ Len(SubSeq(p, 1, c)) = IF 1 <= c THEN c - 1 + 1 ELSE 0
        /\ \A i \in 1..(c - 1 + 1) : SubSeq(p, 1, c)[i] = p[1 + i - 1]
    BY <2>1, SubSeqProperties
  <2>3. c - 1 + 1 = c /\ \A i \in 1..c : 1 + i - 1 = i
    OBVIOUS
  <2> QED BY <2>2, <2>3 DEF First, Path
<1>3. /\ Rest(p, c) \in Path /\ Len(Rest(p, c)) = Len(p) - c
      /\ \A i \in 1..(Len(p) - c) : Rest(p, c)[i] = p[c + i]
  <2>1. \A i \in (c + 1)..Len(p) : p[i] \in Nibble
    BY <1>1
  <2>2. /\ SubSeq(p, c + 1, Len(p)) \in Seq(Nibble)
        /\ Len(SubSeq(p, c + 1, Len(p))) = IF c + 1 <= Len(p) THEN Len(p) - (c + 1) + 1 ELSE 0
        /\ \A i \in 1..(Len(p) - (c + 1) + 1) : SubSeq(p, c + 1, Len(p))[i] = p[(c + 1) + i - 1]
    BY <1>1, <2>1, SubSeqProperties
  <2>3. Len(p) - (c + 1) + 1 = Len(p) - c /\ \A i \in 1..(Len(p) - c) : (c + 1) + i - 1 = c + i
    BY <1>1
  <2>4. ~(c + 1 <= Len(p)) => Len(p) - c = 0
    BY <1>1
  <2> QED BY <2>2, <2>3, <2>4 DEF Rest, Path
<1>4. p = First(p, c) \o Rest(p, c)
  <2> DEFINE f == First(p, c)
             r == Rest(p, c)
  <2> HIDE DEF f, r
  <2> SUFFICES p = f \o r
    BY DEF f, r
  <2>1. /\ f \in Path /\ Len(f) = c /\ \A i \in 1..c : f[i] = p[i]
        /\ r \in Path /\ Len(r) = Len(p) - c /\ \A i \in 1..(Len(p) - c) : r[i] = p[c + i]
    BY <1>2, <1>3 DEF f, r
  <2>2. /\ f \o r \in Path /\ Len(f \o r) = Len(p)
        /\ \A i \in 1..c : (f \o r)[i] = p[i]
        /\ \A i \in 1..(Len(p) - c) : (f \o r)[c + i] = p[c + i]
    BY <1>1, <2>1, Concat
  <2>3. ASSUME NEW i \in 1..Len(p) PROVE p[i] = (f \o r)[i]
    <3>1. CASE i <= c
      BY <2>2, <3>1
    <3>2. CASE ~(i <= c)
      <4>1. i - c \in 1..(Len(p) - c) /\ c + (i - c) = i
        BY <1>1, <3>2
      <4> QED BY <2>2, <4>1
    <3> QED BY <3>1, <3>2
  <2> QED BY <2>2, <2>3, PathFacts
<1> QED BY <1>2, <1>3, <1>4

\* Where the beginning ends, the rest begins.
LEMMA SplitConcat ==
  ASSUME NEW p \in Path, NEW q \in Path
  PROVE  First(p \o q, Len(p)) = p /\ Rest(p \o q, Len(p)) = q
<1> DEFINE c == Len(p)
           s == p \o q
<1>1. c \in 0..Len(s) /\ s \in Path /\ Len(s) = c + Len(q) /\ Len(q) \in Nat
  BY Concat, PathFacts
<1>2. /\ First(s, c) \in Path /\ Len(First(s, c)) = c
      /\ \A i \in 1..c : First(s, c)[i] = s[i]
      /\ Rest(s, c) \in Path
      /\ s = First(s, c) \o Rest(s, c)
  BY <1>1, SplitPath
<1>3. \A i \in 1..c : s[i] = p[i]
  BY Concat
<1>4. First(s, c) = p
  BY <1>2, <1>3, PathFacts
<1>5. Rest(s, c) = q
  BY <1>2, <1>4, Cancel
<1> QED BY <1>4, <1>5

LEMMA PrefixIsBeginning ==
  ASSUME NEW p \in Path, NEW q \in Path
  PROVE  /\ IsPrefix(p, q) => Rest(q, Len(p)) \in Path /\ q = p \o Rest(q, Len(p))
         /\ \A r \in Path : q = p \o r => IsPrefix(p, q)
<1>1. Len(p) \in Nat /\ Len(q) \in Nat
  BY PathFacts
<1>2. SubSeq(p, 1, Len(p)) = p
  BY SubSeqFull DEF Path
<1>3. ASSUME IsPrefix(p, q) PROVE Rest(q, Len(p)) \in Path /\ q = p \o Rest(q, Len(p))
  <2>1. Len(p) \in 0..Len(q) /\ First(q, Len(p)) = p
    BY <1>1, <1>2, <1>3 DEF IsPrefix, First
  <2> QED BY <2>1, SplitPath
<1>4. ASSUME NEW r \in Path, q = p \o r PROVE IsPrefix(p, q)
  <2>1. Len(p) <= Len(q)
    BY <1>1, <1>4, Concat, PathFacts
  <2>2. First(q, Len(p)) = p
    BY <1>4, SplitConcat
  <2> QED BY <1>2, <2>1, <2>2 DEF IsPrefix, First
<1> QED BY <1>3, <1>4

\* path is f and then rest.
Splits(path, f, rest) == f \in Path /\ rest \in Path /\ path = f \o rest

\* decode_common_range splits two paths where they part.
LEMMA CommonRangeFacts ==
  ASSUME NEW p \in Path, NEW q \in Path
  PROVE  LET c == CommonRange(p, q) IN
         /\ c \in 0..Len(p) /\ c \in 0..Len(q)
         /\ Splits(p, First(p, c), Rest(p, c)) /\ Splits(q, First(p, c), Rest(q, c))
         /\ Rest(p, c) # <<>> /\ Rest(q, c) # <<>> => Rest(p, c)[1] # Rest(q, c)[1]
<1> DEFINE T == {i \in 0..Len(p) : i = Len(p) \/ i = Len(q) \/ p[i + 1] # q[i + 1]}
           c == CommonRange(p, q)
<1>1. Len(p) \in Nat /\ Len(q) \in Nat
  BY PathFacts
<1>2. Len(p) \in T /\ T \in SUBSET Nat
  BY <1>1
<1>3. \E x \in T : \A y \in T : x <= y
  BY <1>2, Least
<1>4. c = CHOOSE x \in T : \A y \in T : x <= y
  BY DEF CommonRange, Min
<1>5. c \in T /\ \A y \in T : c <= y
  BY <1>3, <1>4
<1> HIDE DEF c
<1>6. c \in 0..Len(p)
  BY <1>5
<1>7. c \in 0..Len(q)
  <2> SUFFICES ASSUME c > Len(q) PROVE FALSE
    BY <1>1, <1>6
  <2>1. Len(q) \in T
    BY <1>1, <1>6
  <2> QED BY <1>1, <1>5, <1>6, <2>1
<1>8. \A i \in 1..c : p[i] = q[i]
  <2> SUFFICES ASSUME NEW i \in 1..c, p[i] # q[i] PROVE FALSE
    OBVIOUS
  <2>1. i - 1 \in 0..Len(p) /\ p[(i - 1) + 1] # q[(i - 1) + 1]
    BY <1>1, <1>6
  <2>2. i - 1 \in T
    BY <2>1
  <2>3. c <= i - 1
    BY <1>5, <2>2
  <2> QED BY <1>6, <2>3
<1>9. /\ First(p, c) \in Path /\ Len(First(p, c)) = c
      /\ \A i \in 1..c : First(p, c)[i] = p[i]
      /\ Rest(p, c) \in Path /\ Len(Rest(p, c)) = Len(p) - c
      /\ \A i \in 1..(Len(p) - c) : Rest(p, c)[i] = p[c + i]
      /\ p = First(p, c) \o Rest(p, c)
  BY <1>6, SplitPath
<1>10. /\ First(q, c) \in Path /\ Len(First(q, c)) = c
       /\ \A i \in 1..c : First(q, c)[i] = q[i]
       /\ Rest(q, c) \in Path /\ Len(Rest(q, c)) = Len(q) - c
       /\ \A i \in 1..(Len(q) - c) : Rest(q, c)[i] = q[c + i]
       /\ q = First(q, c) \o Rest(q, c)
  BY <1>7, SplitPath
<1>11. First(p, c) = First(q, c)
  BY <1>8, <1>9, <1>10, PathFacts
<1>12. ASSUME Rest(p, c) # <<>>, Rest(q, c) # <<>> PROVE Rest(p, c)[1] # Rest(q, c)[1]
  <2>1. Len(p) - c # 0 /\ Len(q) - c # 0
    BY <1>9, <1>10, <1>12, PathFacts
  <2>2. 1 \in 1..(Len(p) - c) /\ 1 \in 1..(Len(q) - c)
    BY <1>1, <1>6, <1>7, <2>1
  <2>3. Rest(p, c)[1] = p[c + 1] /\ Rest(q, c)[1] = q[c + 1]
    BY <1>9, <1>10, <2>2
  <2>4. p[c + 1] # q[c + 1]
    BY <1>1, <1>5, <1>6, <1>7, <2>1
  <2> QED BY <2>3, <2>4
<1>13. Splits(p, First(p, c), Rest(p, c)) /\ Splits(q, First(p, c), Rest(q, c))
  BY <1>9, <1>10, <1>11 DEF Splits
<1> QED BY <1>6, <1>7, <1>12, <1>13 DEF c

-----------------------------------------------------------------------------
(***************************************************************************)
(* Keys.                                                                   *)
(***************************************************************************)

\* What is left of the keys that begin with p.
Ends(p) == {m \in Path : p \o m \in Key}

LEMMA KeyFacts ==
  ASSUME NEW k \in Key, NEW m \in Key
  PROVE  k \in Path /\ k # <<>> /\ Len(k) = Len(m) /\ Len(k) \in Nat \ {0}
<1>1. k \in Path /\ k # <<>> /\ Len(k) = Len(m)
  BY KeysAreHashes DEF Path
<1> QED BY <1>1, PathFacts

LEMMA EndsFacts ==
  ASSUME NEW p \in Path, NEW m \in Ends(p)
  PROVE  /\ m \in Path /\ p \o m \in Key
         /\ \A n \in Ends(p) : Len(n) = Len(m)
<1>1. m \in Path /\ p \o m \in Key
  BY DEF Ends
<1>2. ASSUME NEW n \in Ends(p) PROVE Len(n) = Len(m)
  <2>1. n \in Path /\ p \o n \in Key
    BY DEF Ends
  <2>2. Len(p \o n) = Len(p \o m)
    BY <1>1, <2>1, KeyFacts
  <2>3. Len(p) \in Nat /\ Len(n) \in Nat /\ Len(m) \in Nat
    BY <1>1, <2>1, PathFacts
  <2> QED BY <1>1, <2>1, <2>2, <2>3, Concat
<1> QED BY <1>1, <1>2

LEMMA EndsBelow ==
  ASSUME NEW p \in Path, NEW q \in Path, NEW m \in Path
  PROVE  m \in Ends(p \o q) <=> q \o m \in Ends(p)
<1>1. p \o (q \o m) = (p \o q) \o m /\ q \o m \in Path
  BY Associative, Concat
<1> QED BY <1>1 DEF Ends

LEMMA EndsOfNothing == Ends(<<>>) = Key
<1>1. ASSUME NEW m \in Path PROVE <<>> \o m = m
  BY Empty
<1>2. Key \subseteq Path
  BY KeyFacts
<1> QED BY <1>1, <1>2 DEF Ends

\* No two keys differ in the last nibble only: below the place where two keys part
\* there is at least one nibble more.
LEMMA PartingKeys ==
  ASSUME NEW p \in Path, NEW i \in Nibble, NEW j \in Nibble, i # j,
         NEW r \in Ends(p \o <<i>>), NEW s \in Ends(p \o <<j>>)
  PROVE  r # <<>> /\ s # <<>>
<1>1. /\ <<i>> \in Path /\ <<j>> \in Path /\ Len(<<i>>) = 1 /\ Len(<<j>>) = 1
      /\ <<i>>[1] = i /\ <<j>>[1] = j
  BY Single
<1>2. /\ p \o <<i>> \in Path /\ Len(p \o <<i>>) = Len(p) + 1
      /\ p \o <<j>> \in Path /\ Len(p \o <<j>>) = Len(p) + 1
      /\ Len(p) \in Nat
  BY <1>1, Concat, PathFacts
<1>3. r \in Path /\ s \in Path /\ Len(r) \in Nat /\ Len(s) \in Nat
  BY PathFacts DEF Ends
<1>4. /\ (p \o <<i>>) \o r \in Key /\ Len((p \o <<i>>) \o r) = Len(p) + 1 + Len(r)
      /\ (p \o <<j>>) \o s \in Key /\ Len((p \o <<j>>) \o s) = Len(p) + 1 + Len(s)
  BY <1>2, <1>3, Concat DEF Ends
<1>5. Len(r) = Len(s)
  <2>1. Len((p \o <<i>>) \o r) = Len((p \o <<j>>) \o s)
    BY <1>4, KeyFacts
  <2> QED BY <1>2, <1>3, <1>4, <2>1
<1>6. ASSUME r = <<>> \/ s = <<>> PROVE FALSE
  <2>1. r = <<>> /\ s = <<>>
    BY <1>3, <1>5, <1>6, PathFacts
  <2>2. p \o <<i>> \in Key /\ p \o <<j>> \in Key
    BY <1>2, <1>4, <2>1, Empty
  <2>3. Front(p \o <<i>>) = p /\ Front(p \o <<j>>) = p
    <3>1. First(p \o <<i>>, Len(p)) = p /\ First(p \o <<j>>, Len(p)) = p
      BY <1>1, SplitConcat
    <3>2. Len(p) + 1 - 1 = Len(p)
      BY <1>2
    <3> QED BY <1>2, <3>1, <3>2 DEF First, Front
  <2>4. p \o <<i>> = p \o <<j>>
    BY <2>2, <2>3, KeysAreHashes
  <2>5. <<i>> = <<j>>
    BY <1>1, <2>4, Cancel
  <2> QED BY <1>1, <2>5
<1> QED BY <1>6

-----------------------------------------------------------------------------
(***************************************************************************)
(* Nodes.                                                                  *)
(***************************************************************************)

LEMMA PairFacts ==
  ASSUME NEW path \in Path, NEW type \in {"leaf", "extension"}, NEW value
  PROVE  /\ DecodeType(Pair(path, type, value)) = type
         /\ RemovePrefix(Pair(path, type, value).path) = path
         /\ Pair(path, type, value).value = value
         /\ Pair(path, type, value) # NoNode
<1> DEFINE S == Nibble \cup {0, 1, 2, 3}
           n == Pair(path, type, value)
<1>1. path \in Seq(S)
  BY SeqMonotonic DEF Path
<1>2. ASSUME NEW x \in S
      PROVE  (<<x>> \o path)[1] = x /\ Tail(<<x>> \o path) = path
  BY <1>1, Prepend
<1>3. ASSUME NEW x \in S
      PROVE  (<<x, 0>> \o path)[1] = x /\ Tail(Tail(<<x, 0>> \o path)) = path
  <2>1. /\ <<x>> \in Seq(S) /\ <<0>> \in Seq(S) /\ <<x, 0>> \in Seq(S)
        /\ <<x>> \o <<0>> = <<x, 0>>
    <3>1. /\ <<x>> \in Seq(S) /\ Len(<<x>>) = 1 /\ <<x>>[1] = x
          /\ <<0>> \in Seq(S) /\ Len(<<0>>) = 1 /\ <<0>>[1] = 0
          /\ <<x, 0>> \in Seq(S) /\ Len(<<x, 0>>) = 2 /\ <<x, 0>>[1] = x /\ <<x, 0>>[2] = 0
      OBVIOUS
    <3>2. /\ <<x>> \o <<0>> \in Seq(S)
          /\ Len(<<x>> \o <<0>>) = 2
          /\ (<<x>> \o <<0>>)[1] = x /\ (<<x>> \o <<0>>)[2] = 0
      BY <3>1, ConcatProperties
    <3>3. \A i \in 1..2 : (<<x>> \o <<0>>)[i] = <<x, 0>>[i]
      <4>1. \A i \in 1..2 : i = 1 \/ i = 2
        OBVIOUS
      <4> QED BY <3>1, <3>2, <4>1
    <3> QED BY <3>1, <3>2, <3>3, SeqEqual
  <2>2. <<x, 0>> \o path = <<x>> \o (<<0>> \o path) /\ <<0>> \o path \in Seq(S)
    BY <1>1, <2>1, ConcatAssociative, ConcatProperties
  <2> DEFINE u == <<0>> \o path
  <2>3. (<<x>> \o u)[1] = x /\ Tail(<<x>> \o u) = u
    BY <2>2, Prepend
  <2>4. Tail(u) = path
    BY <1>2
  <2> QED BY <2>2, <2>3, <2>4
<1>4. AddPrefix(path, type)[1] \in {0, 1} <=> type = "extension"
  <2>1. CASE type = "leaf"
    <3>1. AddPrefix(path, type) = IF Len(path) % 2 = 1 THEN <<3>> \o path ELSE <<2, 0>> \o path
      BY <2>1 DEF AddPrefix
    <3> QED BY <1>2, <1>3, <2>1, <3>1
  <2>2. CASE type = "extension"
    <3>1. AddPrefix(path, type) = IF Len(path) % 2 = 1 THEN <<1>> \o path ELSE <<0, 0>> \o path
      BY <2>2 DEF AddPrefix
    <3> QED BY <1>2, <1>3, <2>2, <3>1
  <2> QED BY <2>1, <2>2
<1>5. RemovePrefix(AddPrefix(path, type)) = path
  <2>1. ASSUME NEW x \in {1, 3} PROVE RemovePrefix(<<x>> \o path) = path
    <3>1. (<<x>> \o path)[1] \in {1, 3} /\ Tail(<<x>> \o path) = path
      BY <1>2
    <3> QED BY <3>1 DEF RemovePrefix
  <2>2. ASSUME NEW x \in {0, 2} PROVE RemovePrefix(<<x, 0>> \o path) = path
    <3>1. (<<x, 0>> \o path)[1] \notin {1, 3} /\ Tail(Tail(<<x, 0>> \o path)) = path
      BY <1>3
    <3> QED BY <3>1 DEF RemovePrefix
  <2>3. CASE type = "leaf"
    <3>1. AddPrefix(path, type) = IF Len(path) % 2 = 1 THEN <<3>> \o path ELSE <<2, 0>> \o path
      BY <2>3 DEF AddPrefix
    <3> QED BY <2>1, <2>2, <3>1
  <2>4. CASE type = "extension"
    <3>1. AddPrefix(path, type) = IF Len(path) % 2 = 1 THEN <<1>> \o path ELSE <<0, 0>> \o path
      BY <2>4 DEF AddPrefix
    <3> QED BY <2>1, <2>2, <3>1
  <2> QED BY <2>3, <2>4
<1> HIDE DEF S
<1>6. n = [path |-> AddPrefix(path, type), value |-> value]
  BY DEF Pair
<1>7. n # NoNode
  <2>1. DOMAIN n = {"path", "value"} /\ DOMAIN NoNode = {"type"}
    BY <1>6 DEF NoNode
  <2> QED BY <2>1
<1>8. "slots" \notin DOMAIN n
  BY <1>6
<1>9. n.path = AddPrefix(path, type) /\ n.value = value
  BY <1>6
<1>10. DecodeType(n) = type
  BY <1>4, <1>7, <1>8, <1>9 DEF DecodeType
<1> QED BY <1>5, <1>7, <1>9, <1>10

LEMMA BranchFacts ==
  ASSUME NEW slots, NEW value
  PROVE  /\ DecodeType(Branch(slots, value)) = "branch"
         /\ Branch(slots, value).slots = slots
         /\ Branch(slots, value).value = value
         /\ Branch(slots, value) # NoNode
<1> DEFINE n == Branch(slots, value)
<1>1. n = [slots |-> slots, value |-> value]
  BY DEF Branch
<1>2. n # NoNode
  <2>1. DOMAIN n = {"slots", "value"} /\ DOMAIN NoNode = {"type"}
    BY <1>1 DEF NoNode
  <2> QED BY <2>1
<1>3. "slots" \in DOMAIN n /\ n.slots = slots /\ n.value = value
  BY <1>1
<1>4. DecodeType(n) = "branch"
  BY <1>2, <1>3 DEF DecodeType
<1> QED BY <1>2, <1>3, <1>4

LEMMA NoNodeFacts == DecodeType(NoNode) = "none"
<1>1. DOMAIN NoNode = {"type"}
  BY DEF NoNode
<1>2. "slots" \notin DOMAIN NoNode
  BY <1>1
<1> QED BY <1>2 DEF DecodeType

-----------------------------------------------------------------------------
(***************************************************************************)
(* Trees.                                                                  *)
(***************************************************************************)

\* map has nothing under the keys that begin with p.
Vacant(map, p) == \A m \in Ends(p) : map[p \o m] = NoNode

\* Below p map and other are the same.
Agree(map, other, p) == \A m \in Ends(p) : map[p \o m] = other[p \o m]

\* node at p holds what map has below p, if the nodes it refers to do at the places
\* P gives them.
LeafAt(map, node, p) ==
    \E path \in Ends(p) :
        /\ node = Pair(path, "leaf", map[p \o path])
        /\ \A m \in Ends(p) \ {path} : map[p \o m] = NoNode

ExtensionAt(P, map, node, p) ==
    \E path \in Path \ {<<>>} : \E child :
        /\ node = Pair(path, "extension", child)
        /\ DecodeType(child) = "branch"
        /\ <<child, p \o path>> \in P
        /\ \A m \in Ends(p) : map[p \o m] # NoNode => \E n \in Path : m = path \o n

BranchAt(P, map, node, p) ==
    \E slots :
        /\ node = Branch(slots, NoNode)
        /\ slots = [i \in Nibble |-> slots[i]]
        /\ \A i \in Nibble : \/ slots[i] = NoNode /\ Vacant(map, p \o <<i>>)
                             \/ slots[i] # NoNode /\ <<slots[i], p \o <<i>>>> \in P
        /\ \E i, j \in Nibble : i # j /\ slots[i] # NoNode /\ slots[j] # NoNode

NodeAt(P, map, node, p) ==
    LeafAt(map, node, p) \/ ExtensionAt(P, map, node, p) \/ BranchAt(P, map, node, p)

\* The nodes of a store with the places at which they hold what map has there, all
\* the way down, inside the store.
Consistent(P, map) == \A x \in P : ~Vacant(map, x[2]) /\ NodeAt(P, map, x[1], x[2])

Trees(store, map) ==
    {x \in store \X Path : \E P \in SUBSET (store \X Path) : x \in P /\ Consistent(P, map)}

\* What a node holds depends on what is below it only.
LEMMA NodeAtFrame ==
  ASSUME NEW P, NEW Q, NEW map, NEW other, NEW node, NEW p \in Path,
         NodeAt(P, map, node, p),
         Agree(map, other, p),
         \A child : \A r \in Path : <<child, p \o r>> \in P => <<child, p \o r>> \in Q
  PROVE  NodeAt(Q, other, node, p)
<1>1. CASE LeafAt(map, node, p)
  <2>1. PICK path \in Ends(p) :
           /\ node = Pair(path, "leaf", map[p \o path])
           /\ \A m \in Ends(p) \ {path} : map[p \o m] = NoNode
    BY <1>1 DEF LeafAt
  <2>2. other[p \o path] = map[p \o path] /\ \A m \in Ends(p) : other[p \o m] = map[p \o m]
    BY DEF Agree
  <2>3. LeafAt(other, node, p)
    BY <2>1, <2>2 DEF LeafAt
  <2> QED BY <2>3 DEF NodeAt
<1>2. CASE ExtensionAt(P, map, node, p)
  <2>1. PICK path \in Path \ {<<>>} : \E child :
           /\ node = Pair(path, "extension", child)
           /\ DecodeType(child) = "branch"
           /\ <<child, p \o path>> \in P
           /\ \A m \in Ends(p) : map[p \o m] # NoNode => \E n \in Path : m = path \o n
    BY <1>2 DEF ExtensionAt
  <2>2. PICK child :
           /\ node = Pair(path, "extension", child)
           /\ DecodeType(child) = "branch"
           /\ <<child, p \o path>> \in P
           /\ \A m \in Ends(p) : map[p \o m] # NoNode => \E n \in Path : m = path \o n
    BY <2>1
  <2>3. <<child, p \o path>> \in Q
    BY <2>2
  <2>4. \A m \in Ends(p) : other[p \o m] # NoNode => \E n \in Path : m = path \o n
    BY <2>2 DEF Agree
  <2>5. ExtensionAt(Q, other, node, p)
    BY <2>2, <2>3, <2>4 DEF ExtensionAt
  <2> QED BY <2>5 DEF NodeAt
<1>3. CASE BranchAt(P, map, node, p)
  <2>1. PICK slots :
           /\ node = Branch(slots, NoNode)
           /\ slots = [i \in Nibble |-> slots[i]]
           /\ \A i \in Nibble : \/ slots[i] = NoNode /\ Vacant(map, p \o <<i>>)
                                \/ slots[i] # NoNode /\ <<slots[i], p \o <<i>>>> \in P
           /\ \E i, j \in Nibble : i # j /\ slots[i] # NoNode /\ slots[j] # NoNode
    BY <1>3 DEF BranchAt
  <2>2. ASSUME NEW i \in Nibble
        PROVE  \/ slots[i] = NoNode /\ Vacant(other, p \o <<i>>)
               \/ slots[i] # NoNode /\ <<slots[i], p \o <<i>>>> \in Q
    <3>1. <<i>> \in Path
      BY Single
    <3>2. CASE slots[i] = NoNode
      <4>1. Vacant(map, p \o <<i>>)
        BY <2>1, <3>2
      <4>2. ASSUME NEW m \in Ends(p \o <<i>>) PROVE other[(p \o <<i>>) \o m] = NoNode
        <5>1. m \in Path /\ <<i>> \o m \in Ends(p)
          BY <3>1, EndsBelow DEF Ends
        <5>2. p \o (<<i>> \o m) = (p \o <<i>>) \o m
          BY <3>1, <5>1, Associative
        <5>3. map[(p \o <<i>>) \o m] = NoNode
          BY <4>1 DEF Vacant
        <5> QED BY <5>1, <5>2, <5>3 DEF Agree
      <4> QED BY <3>2, <4>2 DEF Vacant
    <3>3. CASE slots[i] # NoNode
      BY <2>1, <3>1, <3>3
    <3> QED BY <3>2, <3>3
  <2>3. BranchAt(Q, other, node, p)
    BY <2>1, <2>2 DEF BranchAt
  <2> QED BY <2>3 DEF NodeAt
<1> QED BY <1>1, <1>2, <1>3 DEF NodeAt

LEMMA TreesAreConsistent ==
  ASSUME NEW store, NEW map
  PROVE  Consistent(Trees(store, map), map)
<1> SUFFICES ASSUME NEW x \in Trees(store, map)
             PROVE  ~Vacant(map, x[2]) /\ NodeAt(Trees(store, map), map, x[1], x[2])
  BY DEF Consistent
<1>1. PICK P \in SUBSET (store \X Path) : x \in P /\ Consistent(P, map)
  BY DEF Trees
<1>2. ~Vacant(map, x[2]) /\ NodeAt(P, map, x[1], x[2])
  BY <1>1 DEF Consistent
<1>3. P \subseteq Trees(store, map)
  BY <1>1 DEF Trees
<1>4. x[2] \in Path
  BY <1>1
<1>5. Agree(map, map, x[2])
  BY DEF Agree
<1> QED BY <1>2, <1>3, <1>4, <1>5, NodeAtFrame

LEMMA TreeFacts ==
  ASSUME NEW store, NEW map, NEW node, NEW p, <<node, p>> \in Trees(store, map)
  PROVE  /\ node \in store /\ p \in Path
         /\ ~Vacant(map, p)
         /\ NodeAt(Trees(store, map), map, node, p)
<1>1. node \in store /\ p \in Path
  BY DEF Trees
<1>2. ~Vacant(map, <<node, p>>[2]) /\ NodeAt(Trees(store, map), map, <<node, p>>[1], <<node, p>>[2])
  BY TreesAreConsistent DEF Consistent
<1> QED BY <1>1, <1>2

LEMMA Plant ==
  ASSUME NEW store, NEW map, NEW node \in store, NEW p \in Path,
         ~Vacant(map, p), NodeAt(Trees(store, map), map, node, p)
  PROVE  <<node, p>> \in Trees(store, map)
<1> DEFINE P == Trees(store, map) \cup {<<node, p>>}
<1>1. P \in SUBSET (store \X Path)
  BY DEF Trees
<1>2. Consistent(P, map)
  <2> SUFFICES ASSUME NEW x \in P PROVE ~Vacant(map, x[2]) /\ NodeAt(P, map, x[1], x[2])
    BY DEF Consistent
  <2>1. x[2] \in Path
    BY <1>1
  <2>2. ~Vacant(map, x[2]) /\ NodeAt(Trees(store, map), map, x[1], x[2])
    BY TreesAreConsistent DEF Consistent
  <2>3. Agree(map, map, x[2])
    BY DEF Agree
  <2>4. Trees(store, map) \subseteq P
    OBVIOUS
  <2> HIDE DEF P
  <2> QED BY <2>1, <2>2, <2>3, <2>4, NodeAtFrame
<1>3. <<node, p>> \in P /\ <<node, p>> \in store \X Path
  OBVIOUS
<1> HIDE DEF P
<1> QED BY <1>1, <1>2, <1>3 DEF Trees

LEMMA TreesGrow ==
  ASSUME NEW store, NEW larger, store \subseteq larger, NEW map
  PROVE  Trees(store, map) \subseteq Trees(larger, map)
<1> SUFFICES ASSUME NEW x \in Trees(store, map) PROVE x \in Trees(larger, map)
  OBVIOUS
<1>1. x \in store \X Path
  BY DEF Trees
<1>2. PICK P \in SUBSET (store \X Path) : x \in P /\ Consistent(P, map)
  BY DEF Trees
<1>3. P \in SUBSET (larger \X Path) /\ x \in larger \X Path
  BY <1>1, <1>2
<1> QED BY <1>2, <1>3 DEF Trees

LEMMA TreesFrame ==
  ASSUME NEW store, NEW map, NEW other, NEW node, NEW p,
         <<node, p>> \in Trees(store, map), Agree(map, other, p)
  PROVE  <<node, p>> \in Trees(store, other)
<1> DEFINE P == {x \in Trees(store, map) : \E r \in Path : x[2] = p \o r}
<1>1. P \in SUBSET (store \X Path) /\ p \in Path
  BY DEF Trees
<1>2. Consistent(P, other)
  <2> SUFFICES ASSUME NEW x \in P PROVE ~Vacant(other, x[2]) /\ NodeAt(P, other, x[1], x[2])
    BY DEF Consistent
  <2>1. PICK r \in Path : x[2] = p \o r
    OBVIOUS
  <2> DEFINE q == p \o r
  <2>2. q \in Path /\ x[2] = q
    BY <1>1, <2>1, Concat
  <2>3. ~Vacant(map, q) /\ NodeAt(Trees(store, map), map, x[1], q)
    BY <2>1, TreesAreConsistent DEF Consistent
  <2>4. ASSUME NEW m \in Ends(q) PROVE map[q \o m] = other[q \o m]
    <3>1. m \in Path /\ r \o m \in Ends(p)
      BY <1>1, EndsBelow DEF Ends
    <3>2. p \o (r \o m) = q \o m
      BY <1>1, <3>1, Associative
    <3>3. map[p \o (r \o m)] = other[p \o (r \o m)]
      BY <3>1 DEF Agree
    <3> QED BY <3>2, <3>3
  <2>5. Agree(map, other, q)
    BY <2>4 DEF Agree
  <2>6. ~Vacant(other, q)
    BY <2>3, <2>4 DEF Vacant
  <2>7. ASSUME NEW child, NEW s \in Path, <<child, q \o s>> \in Trees(store, map)
        PROVE  <<child, q \o s>> \in P
    <3>1. q \o s = p \o (r \o s)
      BY <1>1, Associative
    <3>2. r \o s \in Path
      BY Concat
    <3>3. <<child, q \o s>>[2] = p \o (r \o s)
      BY <3>1
    <3> QED BY <2>7, <3>2, <3>3
  <2> HIDE DEF P, q
  <2>8. NodeAt(P, other, x[1], q)
    BY <2>2, <2>3, <2>5, <2>7, NodeAtFrame
  <2> QED BY <2>2, <2>6, <2>8
<1>3. <<node, p>> \in P /\ <<node, p>> \in store \X Path
  <2>1. p = p \o <<>> /\ <<>> \in Path
    BY <1>1, Empty
  <2>2. <<node, p>> \in store \X Path
    BY DEF Trees
  <2> QED BY <2>1, <2>2
<1> HIDE DEF P
<1> QED BY <1>1, <1>2, <1>3 DEF Trees

-----------------------------------------------------------------------------
(***************************************************************************)
(* Stores without missing nodes.                                           *)
(***************************************************************************)

LEMMA ChildrenFacts ==
  ASSUME NEW P, NEW map, NEW node, NEW p, NodeAt(P, map, node, p)
  PROVE  /\ \A child \in Children(node) : \E q : <<child, q>> \in P
         /\ \A Q : (\A child \in Children(node) : \A q : <<child, q>> \in P => <<child, q>> \in Q)
                     => NodeAt(Q, map, node, p)
         /\ DecodeType(node) \in {"leaf", "extension", "branch"}
         /\ node # NoNode
<1>1. CASE LeafAt(map, node, p)
  <2>1. PICK path \in Ends(p) : node = Pair(path, "leaf", map[p \o path])
    BY <1>1 DEF LeafAt
  <2>2. DecodeType(node) = "leaf" /\ node # NoNode
    BY <2>1, PairFacts DEF Ends
  <2>3. Children(node) = {}
    BY <2>2 DEF Children
  <2> QED BY <1>1, <2>2, <2>3 DEF NodeAt
<1>2. CASE ExtensionAt(P, map, node, p)
  <2>1. PICK path \in Path \ {<<>>} : \E child :
           /\ node = Pair(path, "extension", child)
           /\ DecodeType(child) = "branch"
           /\ <<child, p \o path>> \in P
           /\ \A m \in Ends(p) : map[p \o m] # NoNode => \E n \in Path : m = path \o n
    BY <1>2 DEF ExtensionAt
  <2>2. PICK child :
           /\ node = Pair(path, "extension", child)
           /\ DecodeType(child) = "branch"
           /\ <<child, p \o path>> \in P
           /\ \A m \in Ends(p) : map[p \o m] # NoNode => \E n \in Path : m = path \o n
    BY <2>1
  <2>3. DecodeType(node) = "extension" /\ node # NoNode /\ node.value = child
    BY <2>2, PairFacts
  <2>4. Children(node) = {child}
    BY <2>3 DEF Children
  <2>5. ASSUME NEW Q, <<child, p \o path>> \in Q PROVE NodeAt(Q, map, node, p)
    <3>1. ExtensionAt(Q, map, node, p)
      BY <2>2, <2>5 DEF ExtensionAt
    <3> QED BY <3>1 DEF NodeAt
  <2> QED BY <2>2, <2>3, <2>4, <2>5
<1>3. CASE BranchAt(P, map, node, p)
  <2>1. PICK slots :
           /\ node = Branch(slots, NoNode)
           /\ slots = [i \in Nibble |-> slots[i]]
           /\ \A i \in Nibble : \/ slots[i] = NoNode /\ Vacant(map, p \o <<i>>)
                                \/ slots[i] # NoNode /\ <<slots[i], p \o <<i>>>> \in P
           /\ \E i, j \in Nibble : i # j /\ slots[i] # NoNode /\ slots[j] # NoNode
    BY <1>3 DEF BranchAt
  <2>2. DecodeType(node) = "branch" /\ node # NoNode /\ node.slots = slots
    BY <2>1, BranchFacts
  <2>3. Children(node) = {slots[i] : i \in Nibble} \ {NoNode}
    BY <2>2 DEF Children
  <2>4. \A child \in Children(node) : \E q : <<child, q>> \in P
    BY <2>1, <2>3
  <2>5. ASSUME NEW Q, \A child \in Children(node) : \A q : <<child, q>> \in P => <<child, q>> \in Q
        PROVE NodeAt(Q, map, node, p)
    <3>1. \A i \in Nibble : \/ slots[i] = NoNode /\ Vacant(map, p \o <<i>>)
                            \/ slots[i] # NoNode /\ <<slots[i], p \o <<i>>>> \in Q
      BY <2>1, <2>3, <2>5
    <3>2. BranchAt(Q, map, node, p)
      BY <2>1, <3>1 DEF BranchAt
    <3> QED BY <3>2 DEF NodeAt
  <2> QED BY <2>2, <2>4, <2>5
<1> QED BY <1>1, <1>2, <1>3 DEF NodeAt

\* Every node of the store holds something somewhere.
Closed(store) == \A node \in store : \E map, p : <<node, p>> \in Trees(store, map)

LEMMA ClosedFacts ==
  ASSUME NEW store, Closed(store), NEW node \in store
  PROVE  /\ Children(node) \subseteq store
         /\ DecodeType(node) \in {"leaf", "extension", "branch"}
         /\ node # NoNode
<1>1. PICK map, p : <<node, p>> \in Trees(store, map)
  BY DEF Closed
<1>2. NodeAt(Trees(store, map), map, node, p)
  BY <1>1, TreeFacts
<1>3. \A child, q : <<child, q>> \in Trees(store, map) => child \in store
  BY TreeFacts
<1> QED BY <1>2, <1>3, ChildrenFacts

LEMMA ClosedUnion ==
  ASSUME NEW store, NEW other, Closed(store), Closed(other)
  PROVE  Closed(store \cup other)
<1>1. /\ \A map : Trees(store, map) \subseteq Trees(store \cup other, map)
      /\ \A map : Trees(other, map) \subseteq Trees(store \cup other, map)
  BY TreesGrow
<1> QED BY <1>1 DEF Closed

\* What is in a store without missing nodes can be read there.
LEMMA TreesRestrict ==
  ASSUME NEW store, NEW larger, store \subseteq larger, Closed(store),
         NEW map, NEW node \in store, NEW p, <<node, p>> \in Trees(larger, map)
  PROVE  <<node, p>> \in Trees(store, map)
<1> DEFINE P == {x \in Trees(larger, map) : x[1] \in store}
<1>1. P \in SUBSET (store \X Path) /\ p \in Path
  BY DEF Trees
<1>2. Consistent(P, map)
  <2> SUFFICES ASSUME NEW x \in P PROVE ~Vacant(map, x[2]) /\ NodeAt(P, map, x[1], x[2])
    BY DEF Consistent
  <2>1. ~Vacant(map, x[2]) /\ NodeAt(Trees(larger, map), map, x[1], x[2])
    BY TreesAreConsistent DEF Consistent
  <2>2. Children(x[1]) \subseteq store
    BY ClosedFacts
  <2>3. \A child \in Children(x[1]) : \A q : <<child, q>> \in Trees(larger, map) => <<child, q>> \in P
    BY <2>2
  <2> HIDE DEF P
  <2> QED BY <2>1, <2>3, ChildrenFacts
<1>3. <<node, p>> \in P /\ <<node, p>> \in store \X Path
  BY <1>1
<1> HIDE DEF P
<1> QED BY <1>1, <1>2, <1>3 DEF Trees

-----------------------------------------------------------------------------
(***************************************************************************)
(* The recursion of get and put ends: the rest of the key gets shorter.    *)
(***************************************************************************)

LEMMA RemainderIsEnd ==
  ASSUME NEW m
  PROVE  m \in Remainder <=> \E p \in Path : m \in Ends(p)
<1>1. ASSUME m \in Remainder PROVE \E p \in Path : m \in Ends(p)
  <2>1. PICK k \in Key : m \in Suffixes(k)
    BY <1>1 DEF Remainder
  <2>2. k \in Path /\ Len(k) \in Nat
    BY KeyFacts
  <2>3. CASE m = <<>>
    <3>1. k \o <<>> = k /\ <<>> \in Path
      BY <2>2, Empty
    <3> QED BY <2>2, <2>3, <3>1 DEF Ends
  <2>4. CASE m # <<>>
    <3>1. PICK l \in 1..Len(k) : m = SubSeq(k, l, Len(k))
      BY <2>1, <2>4 DEF Suffixes
    <3>2. l - 1 \in 0..Len(k) /\ (l - 1) + 1 = l
      BY <2>2
    <3>3. m = Rest(k, l - 1)
      BY <3>1, <3>2 DEF Rest
    <3>4. First(k, l - 1) \in Path /\ m \in Path /\ k = First(k, l - 1) \o m
      BY <2>2, <3>2, <3>3, SplitPath
    <3> QED BY <3>4 DEF Ends
  <2> QED BY <2>3, <2>4
<1>2. ASSUME NEW p \in Path, m \in Ends(p) PROVE m \in Remainder
  <2> DEFINE k == p \o m
  <2>1. m \in Path /\ k \in Key /\ k \in Path
    BY <1>2, KeyFacts DEF Ends
  <2>2. m = Rest(k, Len(p)) /\ Len(k) = Len(p) + Len(m) /\ Len(p) \in Nat /\ Len(m) \in Nat
    BY <2>1, SplitConcat, Concat, PathFacts
  <2>3. m \in Suffixes(k)
    <3>1. CASE m = <<>>
      BY <3>1 DEF Suffixes
    <3>2. CASE m # <<>>
      <4>1. Len(m) # 0
        BY <2>1, <3>2, PathFacts
      <4>2. Len(p) + 1 \in 1..Len(k)
        BY <2>2, <4>1
      <4>3. m = SubSeq(k, Len(p) + 1, Len(k))
        BY <2>2 DEF Rest
      <4> HIDE DEF k
      <4> QED BY <4>2, <4>3 DEF Suffixes
    <3> QED BY <3>1, <3>2
  <2> QED BY <2>1, <2>3 DEF Remainder
<1> QED BY <1>1, <1>2

LEMMA RemainderBelow ==
  ASSUME NEW m \in Remainder, NEW path \in Path \ {<<>>}, NEW r \in Path, m = path \o r
  PROVE  r \in Remainder /\ Len(r) < Len(m)
<1>1. PICK p \in Path : m \in Ends(p)
  BY RemainderIsEnd
<1>2. r \in Ends(p \o path) /\ p \o path \in Path
  BY <1>1, EndsBelow, Concat
<1>3. Len(path) \in Nat /\ Len(path) # 0 /\ Len(r) \in Nat
  BY PathFacts
<1>4. Len(m) = Len(path) + Len(r)
  BY Concat
<1> QED BY <1>2, <1>3, <1>4, RemainderIsEnd

LEMMA RemainderFacts ==
  ASSUME NEW m \in Remainder
  PROVE  /\ m \in Path /\ Len(m) \in Nat
         /\ m # <<>> => Tail(m) \in Remainder /\ Len(Tail(m)) < Len(m)
         /\ \A path \in Path \ {<<>>} : IsPrefix(path, m) =>
              Rest(m, Len(path)) \in Remainder /\ Len(Rest(m, Len(path))) < Len(m)
         /\ \A k \in Key : Len(m) <= Len(k)
<1>1. PICK p \in Path : m \in Ends(p)
  BY RemainderIsEnd
<1>2. m \in Path /\ Len(m) \in Nat /\ p \o m \in Key
  BY <1>1, PathFacts DEF Ends
<1>4. ASSUME m # <<>> PROVE Tail(m) \in Remainder /\ Len(Tail(m)) < Len(m)
  <2>1. m[1] \in Nibble /\ Tail(m) \in Path /\ m = <<m[1]>> \o Tail(m)
    BY <1>2, <1>4, HeadAndTail
  <2>2. <<m[1]>> \in Path /\ <<m[1]>> # <<>>
    BY <2>1, Single
  <2> QED BY <2>1, <2>2, RemainderBelow
<1>5. ASSUME NEW path \in Path \ {<<>>}, IsPrefix(path, m)
      PROVE  Rest(m, Len(path)) \in Remainder /\ Len(Rest(m, Len(path))) < Len(m)
  <2>1. Rest(m, Len(path)) \in Path /\ m = path \o Rest(m, Len(path))
    BY <1>2, <1>5, PrefixIsBeginning
  <2> QED BY <2>1, RemainderBelow
<1>6. ASSUME NEW k \in Key PROVE Len(m) <= Len(k)
  <2>1. Len(p \o m) = Len(k) /\ Len(p \o m) = Len(p) + Len(m) /\ Len(p) \in Nat
    BY <1>2, KeyFacts, Concat, PathFacts
  <2> QED BY <1>2, <2>1
<1> QED BY <1>2, <1>4, <1>5, <1>6

LEMMA PathOfExtension ==
  ASSUME NEW store, Closed(store), NEW node \in store, DecodeType(node) = "extension"
  PROVE  RemovePrefix(node.path) \in Path \ {<<>>}
<1>1. PICK map, p : <<node, p>> \in Trees(store, map)
  BY DEF Closed
<1>2. NodeAt(Trees(store, map), map, node, p)
  BY <1>1, TreeFacts
<1>3. CASE LeafAt(map, node, p)
  <2>1. PICK path \in Ends(p) : node = Pair(path, "leaf", map[p \o path])
    BY <1>3 DEF LeafAt
  <2> QED BY <2>1, PairFacts DEF Ends
<1>4. CASE ExtensionAt(Trees(store, map), map, node, p)
  <2>1. PICK path \in Path \ {<<>>} : \E child : node = Pair(path, "extension", child)
    BY <1>4 DEF ExtensionAt
  <2>2. RemovePrefix(node.path) = path
    BY <2>1, PairFacts
  <2> QED BY <2>2
<1>5. CASE BranchAt(Trees(store, map), map, node, p)
  <2>1. PICK slots : node = Branch(slots, NoNode)
    BY <1>5 DEF BranchAt
  <2> QED BY <2>1, BranchFacts
<1> QED BY <1>2, <1>3, <1>4, <1>5 DEF NodeAt

LEMMA DecodeSame ==
  ASSUME NEW store, Closed(store), NEW node \in store \cup {NoNode}, NEW key \in Remainder,
         NEW f, NEW g, \A rest \in Remainder : Len(rest) < Len(key) => f[rest] = g[rest]
  PROVE  DecodeNode(store, f, node, key) = DecodeNode(store, g, node, key)
<1>1. CASE key = <<>>
  BY <1>1 DEF DecodeNode
<1>2. CASE key # <<>>
  <2>1. f[Tail(key)] = g[Tail(key)]
    BY <1>2, RemainderFacts
  <2>2. CASE DecodeType(node) = "extension" /\ IsPrefix(RemovePrefix(node.path), key)
    <3>1. RemovePrefix(node.path) \in Path \ {<<>>}
      BY <2>2, NoNodeFacts, PathOfExtension
    <3>2. f[Rest(key, Len(RemovePrefix(node.path)))] = g[Rest(key, Len(RemovePrefix(node.path)))]
      BY <2>2, <3>1, RemainderFacts
    <3> QED BY <1>2, <2>2, <3>2 DEF DecodeNode
  <2>3. CASE DecodeType(node) = "extension" /\ ~IsPrefix(RemovePrefix(node.path), key)
    BY <1>2, <2>3 DEF DecodeNode
  <2>4. CASE DecodeType(node) = "branch"
    BY <1>2, <2>1, <2>4 DEF DecodeNode
  <2>5. CASE DecodeType(node) \in {"leaf", "none"}
    BY <1>2, <2>5 DEF DecodeNode
  <2> QED BY <2>2, <2>3, <2>4, <2>5, ClosedFacts, NoNodeFacts
<1> QED BY <1>1, <1>2

\* The keys of at most n nibbles.
Short(n) == {key \in Remainder : Len(key) <= n}

LEMMA AllAreShort == \E n \in Nat : Short(n) = Remainder
<1>1. CASE Key = {}
  BY <1>1 DEF Short, Remainder
<1>2. CASE Key # {}
  <2>1. PICK k \in Key : TRUE
    BY <1>2
  <2>2. Len(k) \in Nat /\ \A m \in Remainder : Len(m) <= Len(k)
    BY KeyFacts, RemainderFacts
  <2> QED BY <2>2 DEF Short
<1> QED BY <1>1, <1>2

DecodeAll(store, get, key) ==
    [node \in store \cup {NoNode} |-> DecodeNode(store, get, node, key)]

LEMMA DecodeExists ==
  ASSUME NEW store, Closed(store), NEW n \in Nat
  PROVE  \E f : f = [key \in Short(n) |-> DecodeAll(store, f, key)]
<1> DEFINE Has(m) == \E f : f = [key \in Short(m) |-> DecodeAll(store, f, key)]
           T == {m \in Nat : ~Has(m)}
<1> SUFFICES ASSUME T # {} PROVE FALSE
  OBVIOUS
<1>1. PICK m \in T : \A j \in T : m <= j
  BY Least
<1>2. \E f : \A key \in Remainder : Len(key) < m => f[key] = DecodeAll(store, f, key)
  <2>1. CASE m = 0
    <3>1. \A key \in Remainder : ~(Len(key) < m)
      BY <2>1, RemainderFacts
    <3> QED BY <3>1
  <2>2. CASE m # 0
    <3>1. m - 1 \in Nat /\ m - 1 \notin T
      BY <1>1, <2>2
    <3>2. PICK f : f = [key \in Short(m - 1) |-> DecodeAll(store, f, key)]
      BY <3>1
    <3>3. \A key \in Remainder : Len(key) < m => key \in Short(m - 1)
      BY <3>1, RemainderFacts DEF Short
    <3>4. \A key \in Short(m - 1) : f[key] = DecodeAll(store, f, key)
      BY <3>2
    <3> QED BY <3>3, <3>4
  <2> QED BY <2>1, <2>2
<1>3. PICK f : \A key \in Remainder : Len(key) < m => f[key] = DecodeAll(store, f, key)
  BY <1>2
<1> DEFINE g == [key \in Short(m) |-> DecodeAll(store, f, key)]
<1>4. ASSUME NEW key \in Remainder, Len(key) < m PROVE g[key] = f[key]
  <2>1. key \in Short(m)
    BY <1>4, RemainderFacts DEF Short
  <2> QED BY <1>3, <1>4, <2>1
<1>5. ASSUME NEW key \in Short(m) PROVE DecodeAll(store, f, key) = DecodeAll(store, g, key)
  <2>1. key \in Remainder /\ Len(key) <= m /\ Len(key) \in Nat
    BY RemainderFacts DEF Short
  <2>2. \A rest \in Remainder : Len(rest) < Len(key) => f[rest] = g[rest]
    <3> SUFFICES ASSUME NEW rest \in Remainder, Len(rest) < Len(key) PROVE f[rest] = g[rest]
      OBVIOUS
    <3>1. Len(rest) < m
      BY <2>1, RemainderFacts
    <3> QED BY <1>4, <3>1
  <2> HIDE DEF g
  <2>3. \A node \in store \cup {NoNode} : DecodeNode(store, f, node, key) = DecodeNode(store, g, node, key)
    BY <2>1, <2>2, DecodeSame
  <2> QED BY <2>3 DEF DecodeAll
<1>6. g = [key \in Short(m) |-> DecodeAll(store, g, key)]
  <2> DEFINE h == [key \in Short(m) |-> DecodeAll(store, g, key)]
  <2>1. \A key \in Short(m) : g[key] = h[key]
    BY <1>5
  <2> QED BY <2>1
<1>7. Has(m)
  BY <1>6
<1> QED BY <1>1, <1>7

\* get_decode_node is what its body says.
LEMMA GetFacts ==
  ASSUME NEW store, Closed(store), NEW key \in Remainder, NEW node \in store \cup {NoNode}
  PROVE  GetDecodeNode(store)[key][node] = DecodeNode(store, GetDecodeNode(store), node, key)
<1> DEFINE get == GetDecodeNode(store)
<1>1. get = CHOOSE f : f = [k \in Remainder |-> DecodeAll(store, f, k)]
  BY DEF GetDecodeNode, DecodeAll
<1>2. \E f : f = [k \in Remainder |-> DecodeAll(store, f, k)]
  BY AllAreShort, DecodeExists
<1> HIDE DEF get
<1>3. get = [k \in Remainder |-> DecodeAll(store, get, k)]
  BY <1>1, <1>2
<1>4. get[key] = DecodeAll(store, get, key)
  BY <1>3
<1>5. get[key][node] = DecodeNode(store, get, node, key)
  BY <1>4 DEF DecodeAll
<1> QED BY <1>5 DEF get

LEMMA AddSame ==
  ASSUME NEW store, Closed(store), NEW node \in store \cup {NoNode}, NEW key \in Remainder,
         NEW f, NEW g, \A rest \in Remainder : Len(rest) < Len(key) => f[rest] = g[rest],
         NEW value
  PROVE  AddNode(store, f, node, key, value) = AddNode(store, g, node, key, value)
<1>1. CASE DecodeType(node) = "none"
  BY <1>1 DEF AddNode
<1>2. CASE DecodeType(node) = "branch"
  <2>1. AddBranch(store, f, node, key, value) = AddBranch(store, g, node, key, value)
    <3>1. CASE key = <<>>
      BY <3>1 DEF AddBranch
    <3>2. CASE key # <<>>
      <4>1. f[Tail(key)] = g[Tail(key)]
        BY <3>2, RemainderFacts
      <4> QED BY <3>2, <4>1 DEF AddBranch
    <3> QED BY <3>1, <3>2
  <2> QED BY <1>2, <2>1 DEF AddNode
<1>3. ASSUME NEW type \in {"leaf", "extension"}, DecodeType(node) = type
      PROVE  AddPair(store, f, type, node, key, value) = AddPair(store, g, type, node, key, value)
  <2> DEFINE path == RemovePrefix(node.path)
             c == CommonRange(path, key)
  <2>1. ASSUME Rest(path, c) = <<>>
        PROVE  AddBelow(store, f, type, node, Rest(key, c), value)
                 = AddBelow(store, g, type, node, Rest(key, c), value)
    <3>1. CASE type = "extension"
      <4>1. path \in Path \ {<<>>} /\ key \in Path
        BY <1>3, <3>1, NoNodeFacts, PathOfExtension, RemainderFacts
      <4>2. /\ First(path, c) \in Path /\ Rest(key, c) \in Path
            /\ path = First(path, c) \o Rest(path, c) /\ key = First(path, c) \o Rest(key, c)
        <5>1. Splits(path, First(path, c), Rest(path, c)) /\ Splits(key, First(path, c), Rest(key, c))
          BY <4>1, CommonRangeFacts
        <5> QED BY <5>1 DEF Splits
      <4>3. First(path, c) = path
        BY <2>1, <4>2, Empty
      <4>4. Rest(key, c) \in Remainder /\ Len(Rest(key, c)) < Len(key)
        BY <4>1, <4>2, <4>3, RemainderBelow
      <4> QED BY <3>1, <4>4 DEF AddBelow
    <3>2. CASE type = "leaf"
      BY <3>2 DEF AddBelow
    <3> QED BY <3>1, <3>2
  <2> QED BY <2>1 DEF AddPair
<1>4. CASE DecodeType(node) \in {"leaf", "extension"}
  <2>1. AddPair(store, f, DecodeType(node), node, key, value)
          = AddPair(store, g, DecodeType(node), node, key, value)
    BY <1>3, <1>4
  <2>2. /\ AddNode(store, f, node, key, value) = AddPair(store, f, DecodeType(node), node, key, value)
        /\ AddNode(store, g, node, key, value) = AddPair(store, g, DecodeType(node), node, key, value)
    BY <1>4 DEF AddNode
  <2> QED BY <2>1, <2>2
<1> QED BY <1>1, <1>2, <1>4, ClosedFacts, NoNodeFacts

AddAll(store, add, key, value) ==
    [node \in store \cup {NoNode} |-> AddNode(store, add, node, key, value)]

LEMMA AddExists ==
  ASSUME NEW store, Closed(store), NEW value, NEW n \in Nat
  PROVE  \E f : f = [key \in Short(n) |-> AddAll(store, f, key, value)]
<1> DEFINE Has(m) == \E f : f = [key \in Short(m) |-> AddAll(store, f, key, value)]
           T == {m \in Nat : ~Has(m)}
<1> SUFFICES ASSUME T # {} PROVE FALSE
  OBVIOUS
<1>1. PICK m \in T : \A j \in T : m <= j
  BY Least
<1>2. \E f : \A key \in Remainder : Len(key) < m => f[key] = AddAll(store, f, key, value)
  <2>1. CASE m = 0
    <3>1. \A key \in Remainder : ~(Len(key) < m)
      BY <2>1, RemainderFacts
    <3> QED BY <3>1
  <2>2. CASE m # 0
    <3>1. m - 1 \in Nat /\ m - 1 \notin T
      BY <1>1, <2>2
    <3>2. PICK f : f = [key \in Short(m - 1) |-> AddAll(store, f, key, value)]
      BY <3>1
    <3>3. \A key \in Remainder : Len(key) < m => key \in Short(m - 1)
      BY <3>1, RemainderFacts DEF Short
    <3>4. \A key \in Short(m - 1) : f[key] = AddAll(store, f, key, value)
      BY <3>2
    <3> QED BY <3>3, <3>4
  <2> QED BY <2>1, <2>2
<1>3. PICK f : \A key \in Remainder : Len(key) < m => f[key] = AddAll(store, f, key, value)
  BY <1>2
<1> DEFINE g == [key \in Short(m) |-> AddAll(store, f, key, value)]
<1>4. ASSUME NEW key \in Remainder, Len(key) < m PROVE g[key] = f[key]
  <2>1. key \in Short(m)
    BY <1>4, RemainderFacts DEF Short
  <2> QED BY <1>3, <1>4, <2>1
<1>5. ASSUME NEW key \in Short(m) PROVE AddAll(store, f, key, value) = AddAll(store, g, key, value)
  <2>1. key \in Remainder /\ Len(key) <= m /\ Len(key) \in Nat
    BY RemainderFacts DEF Short
  <2>2. \A rest \in Remainder : Len(rest) < Len(key) => f[rest] = g[rest]
    <3> SUFFICES ASSUME NEW rest \in Remainder, Len(rest) < Len(key) PROVE f[rest] = g[rest]
      OBVIOUS
    <3>1. Len(rest) < m
      BY <2>1, RemainderFacts
    <3> QED BY <1>4, <3>1
  <2> HIDE DEF g
  <2>3. ASSUME NEW node \in store \cup {NoNode}
        PROVE  AddNode(store, f, node, key, value) = AddNode(store, g, node, key, value)
    <3> HIDE DEF Has, T
    <3> QED BY <2>1, <2>2, AddSame
  <2> QED BY <2>3 DEF AddAll
<1>6. g = [key \in Short(m) |-> AddAll(store, g, key, value)]
  <2> DEFINE h == [key \in Short(m) |-> AddAll(store, g, key, value)]
  <2>1. \A key \in Short(m) : g[key] = h[key]
    BY <1>5
  <2> QED BY <2>1
<1>7. Has(m)
  BY <1>6
<1> QED BY <1>1, <1>7

\* add is what its body says.
LEMMA AddFacts ==
  ASSUME NEW store, Closed(store), NEW value,
         NEW key \in Remainder, NEW node \in store \cup {NoNode}
  PROVE  Add(store, value)[key][node] = AddNode(store, Add(store, value), node, key, value)
<1> DEFINE add == Add(store, value)
<1>1. add = CHOOSE f : f = [k \in Remainder |-> AddAll(store, f, k, value)]
  BY DEF Add, AddAll
<1>2. \E f : f = [k \in Remainder |-> AddAll(store, f, k, value)]
  BY AllAreShort, AddExists
<1> HIDE DEF add
<1>3. add = [k \in Remainder |-> AddAll(store, add, k, value)]
  BY <1>1, <1>2
<1>4. add[key] = AddAll(store, add, key, value)
  BY <1>3
<1>5. add[key][node] = AddNode(store, add, node, key, value)
  BY <1>4 DEF AddAll
<1> QED BY <1>5 DEF add

-----------------------------------------------------------------------------
(***************************************************************************)
(* get returns what the map has.                                           *)
(***************************************************************************)

\* A branch has two nibbles of every key below it.
LEMMA BranchTree ==
  ASSUME NEW store, NEW map, NEW node, NEW p, <<node, p>> \in Trees(store, map),
         DecodeType(node) = "branch"
  PROVE  /\ BranchAt(Trees(store, map), map, node, p)
         /\ \A m \in Ends(p) : 1 < Len(m)
<1>1. p \in Path /\ NodeAt(Trees(store, map), map, node, p)
  BY TreeFacts
<1>2. ASSUME LeafAt(map, node, p) PROVE FALSE
  <2>1. PICK path \in Ends(p) : node = Pair(path, "leaf", map[p \o path])
    BY <1>2 DEF LeafAt
  <2> QED BY <2>1, PairFacts DEF Ends
<1>3. ASSUME ExtensionAt(Trees(store, map), map, node, p) PROVE FALSE
  <2>1. PICK path \in Path \ {<<>>} : \E child : node = Pair(path, "extension", child)
    BY <1>3 DEF ExtensionAt
  <2> QED BY <2>1, PairFacts
<1>4. BranchAt(Trees(store, map), map, node, p)
  BY <1>1, <1>2, <1>3 DEF NodeAt
<1>5. PICK i \in Nibble, j \in Nibble :
         /\ i # j
         /\ \E slots : <<slots[i], p \o <<i>>>> \in Trees(store, map)
         /\ \E slots : <<slots[j], p \o <<j>>>> \in Trees(store, map)
  BY <1>4 DEF BranchAt
<1>6. ~Vacant(map, p \o <<i>>) /\ ~Vacant(map, p \o <<j>>)
  BY <1>5, TreeFacts
<1>7. PICK r \in Ends(p \o <<i>>), s \in Ends(p \o <<j>>) : TRUE
  BY <1>6 DEF Vacant
<1>8. r # <<>> /\ r \in Path
  BY <1>1, <1>5, PartingKeys DEF Ends
<1>9. <<i>> \o r \in Ends(p) /\ Len(<<i>> \o r) = 1 + Len(r) /\ Len(r) \in Nat /\ Len(r) # 0
  <2>1. <<i>> \in Path /\ Len(<<i>>) = 1
    BY Single
  <2>2. <<i>> \o r \in Ends(p)
    BY <1>1, <1>8, <2>1, EndsBelow
  <2> QED BY <1>8, <2>1, <2>2, Concat, PathFacts
<1>10. ASSUME NEW m \in Ends(p) PROVE 1 < Len(m)
  <2>1. Len(m) = Len(<<i>> \o r)
    BY <1>1, <1>9, EndsFacts
  <2> QED BY <1>9, <2>1
<1> QED BY <1>4, <1>10

\* An extension ends before the last two nibbles of every key.
LEMMA ExtensionTree ==
  ASSUME NEW store, NEW map, NEW p \in Path, NEW path \in Path, NEW child,
         <<child, p \o path>> \in Trees(store, map), DecodeType(child) = "branch",
         NEW m \in Ends(p)
  PROVE  Len(path) + 1 < Len(m)
<1>1. ~Vacant(map, p \o path) /\ \A r \in Ends(p \o path) : 1 < Len(r)
  BY TreeFacts, BranchTree
<1>2. PICK r \in Ends(p \o path) : 1 < Len(r)
  BY <1>1 DEF Vacant
<1>3. r \in Path /\ path \o r \in Ends(p)
  BY EndsBelow DEF Ends
<1>4. Len(path \o r) = Len(path) + Len(r) /\ Len(path) \in Nat /\ Len(r) \in Nat
  BY <1>3, Concat, PathFacts
<1>5. Len(m) = Len(path \o r)
  BY <1>3, EndsFacts
<1> QED BY <1>2, <1>4, <1>5

LEMMA GetNothing ==
  ASSUME NEW store, Closed(store), NEW m \in Remainder, m # <<>>
  PROVE  GetDecodeNode(store)[m][NoNode] = NoNode
<1>1. GetDecodeNode(store)[m][NoNode] = DecodeNode(store, GetDecodeNode(store), NoNode, m)
  BY GetFacts
<1> QED BY <1>1, NoNodeFacts DEF DecodeNode

\* What get returns for m at node, and what it should.
Reads(store, map, node, p, m) == GetDecodeNode(store)[m][node] = map[p \o m]

LEMMA GetStep ==
  ASSUME NEW store, Closed(store), NEW map, NEW node, NEW p,
         <<node, p>> \in Trees(store, map), NEW m \in Ends(p),
         \A q, child : \A r \in Ends(q) :
             Len(r) < Len(m) /\ <<child, q>> \in Trees(store, map) => Reads(store, map, child, q, r)
  PROVE  Reads(store, map, node, p, m)
<1> DEFINE get == GetDecodeNode(store)
           P == Trees(store, map)
<1>1. /\ node \in store /\ node # NoNode /\ p \in Path
      /\ NodeAt(P, map, node, p)
  BY TreeFacts, ChildrenFacts
<1>2. m \in Path /\ m \in Remainder /\ p \o m \in Key
  BY <1>1, RemainderIsEnd DEF Ends
<1>3. get[m][node] = DecodeNode(store, get, node, m)
  BY <1>1, <1>2, GetFacts
<1>4. ASSUME NEW child \in store PROVE Node(store, child) = child
  BY DEF Node
<1> SUFFICES DecodeNode(store, get, node, m) = map[p \o m]
  BY <1>3 DEF Reads
<1>5. ASSUME NEW path \in Path \ {<<>>}, NEW r \in Path, m = path \o r
      PROVE  r \in Ends(p \o path) /\ Len(r) < Len(m) /\ (p \o path) \o r = p \o m
  <2>1. Len(m) = Len(path) + Len(r) /\ Len(path) \in Nat /\ Len(path) # 0 /\ Len(r) \in Nat
    BY <1>5, Concat, PathFacts
  <2>2. r \in Ends(p \o path)
    BY <1>1, <1>5, EndsBelow
  <2>3. (p \o path) \o r = p \o m
    BY <1>1, <1>5, Associative
  <2> QED BY <2>1, <2>2, <2>3
<1>6. CASE LeafAt(map, node, p)
  <2>1. PICK path \in Ends(p) :
           /\ node = Pair(path, "leaf", map[p \o path])
           /\ \A n \in Ends(p) \ {path} : map[p \o n] = NoNode
    BY <1>6 DEF LeafAt
  <2>2. DecodeType(node) = "leaf" /\ RemovePrefix(node.path) = path /\ node.value = map[p \o path]
    BY <2>1, PairFacts DEF Ends
  <2>3. m = <<>> => path = m
    <3>1. Len(path) = Len(m) /\ path \in Path
      BY <1>1, EndsFacts
    <3> QED BY <1>2, <3>1, PathFacts
  <2>4. DecodeNode(store, get, node, m) = IF m = path THEN map[p \o path] ELSE NoNode
    <3>1. CASE m = <<>>
      BY <1>1, <2>2, <2>3, <3>1 DEF DecodeNode
    <3>2. CASE m # <<>>
      BY <2>2, <3>2 DEF DecodeNode
    <3> QED BY <3>1, <3>2
  <2> QED BY <2>1, <2>4
<1>7. CASE ExtensionAt(P, map, node, p)
  <2>1. PICK path \in Path \ {<<>>} : \E child :
           /\ node = Pair(path, "extension", child)
           /\ DecodeType(child) = "branch"
           /\ <<child, p \o path>> \in P
           /\ \A n \in Ends(p) : map[p \o n] # NoNode => \E r \in Path : n = path \o r
    BY <1>7 DEF ExtensionAt
  <2>2. PICK child :
           /\ node = Pair(path, "extension", child)
           /\ DecodeType(child) = "branch"
           /\ <<child, p \o path>> \in P
           /\ \A n \in Ends(p) : map[p \o n] # NoNode => \E r \in Path : n = path \o r
    BY <2>1
  <2>3. DecodeType(node) = "extension" /\ RemovePrefix(node.path) = path /\ node.value = child
    BY <2>2, PairFacts
  <2>4. m # <<>>
    <3>1. Len(path) + 1 < Len(m) /\ Len(path) \in Nat
      BY <1>1, <2>2, ExtensionTree, PathFacts
    <3>2. Len(m) # 0
      BY <3>1
    <3> QED BY <1>2, <3>2, PathFacts
  <2>5. Node(store, child) = child
    BY <1>4, <2>2, TreeFacts
  <2>6. CASE IsPrefix(path, m)
    <3> DEFINE r == Rest(m, Len(path))
    <3>1. r \in Path /\ m = path \o r
      BY <1>2, <2>6, PrefixIsBeginning
    <3> HIDE DEF r
    <3>2. r \in Ends(p \o path) /\ Len(r) < Len(m) /\ (p \o path) \o r = p \o m
      BY <1>5, <3>1
    <3>3. Reads(store, map, child, p \o path, r)
      BY <2>2, <3>2
    <3>4. get[r][child] = map[p \o m]
      BY <3>2, <3>3 DEF Reads
    <3>5. DecodeNode(store, get, node, m) = get[r][Node(store, child)]
      BY <2>3, <2>4, <2>6 DEF DecodeNode, r
    <3> QED BY <2>5, <3>4, <3>5
  <2>7. CASE ~IsPrefix(path, m)
    <3>1. DecodeNode(store, get, node, m) = NoNode
      BY <2>3, <2>4, <2>7 DEF DecodeNode
    <3>2. map[p \o m] = NoNode
      BY <1>2, <2>2, <2>7, PrefixIsBeginning
    <3> QED BY <3>1, <3>2
  <2> QED BY <2>6, <2>7
<1>8. CASE BranchAt(P, map, node, p)
  <2>1. PICK slots :
           /\ node = Branch(slots, NoNode)
           /\ slots = [i \in Nibble |-> slots[i]]
           /\ \A i \in Nibble : \/ slots[i] = NoNode /\ Vacant(map, p \o <<i>>)
                                \/ slots[i] # NoNode /\ <<slots[i], p \o <<i>>>> \in P
           /\ \E i, j \in Nibble : i # j /\ slots[i] # NoNode /\ slots[j] # NoNode
    BY <1>8 DEF BranchAt
  <2>2. DecodeType(node) = "branch" /\ node.slots = slots
    BY <2>1, BranchFacts
  <2>3. 1 < Len(m)
    BY <2>2, BranchTree
  <2>4. m # <<>>
    <3>1. Len(m) # 0
      BY <2>3
    <3> QED BY <1>2, <3>1, PathFacts
  <2> DEFINE i == m[1]
             r == Tail(m)
  <2>5. i \in Nibble /\ r \in Path /\ Len(r) = Len(m) - 1 /\ m = <<i>> \o r
    BY <1>2, <2>4, HeadAndTail
  <2>6. DecodeNode(store, get, node, m) = get[r][Node(store, slots[i])]
    BY <2>2, <2>4 DEF DecodeNode
  <2> HIDE DEF i, r
  <2>7. <<i>> \in Path \ {<<>>}
    BY <2>5, Single
  <2>8. r \in Ends(p \o <<i>>) /\ Len(r) < Len(m) /\ (p \o <<i>>) \o r = p \o m
    BY <1>5, <2>5, <2>7
  <2>9. CASE slots[i] = NoNode
    <3>1. Node(store, slots[i]) = NoNode
      BY <2>9 DEF Node
    <3>2. r # <<>>
      <4>1. Len(r) # 0
        BY <1>2, <2>3, <2>5, PathFacts
      <4> QED BY <2>5, <4>1, PathFacts
    <3>3. r \in Remainder
      <4>1. p \o <<i>> \in Path
        BY <1>1, <2>7, Concat
      <4> QED BY <2>8, <4>1, RemainderIsEnd
    <3>4. get[r][NoNode] = NoNode
      BY <3>2, <3>3, GetNothing
    <3>5. map[(p \o <<i>>) \o r] = NoNode
      BY <2>1, <2>5, <2>8, <2>9 DEF Vacant
    <3> QED BY <2>6, <2>8, <3>1, <3>4, <3>5
  <2>10. CASE slots[i] # NoNode
    <3>1. <<slots[i], p \o <<i>>>> \in P
      BY <2>1, <2>5, <2>10
    <3>2. Node(store, slots[i]) = slots[i]
      BY <1>4, <3>1, TreeFacts
    <3>3. Reads(store, map, slots[i], p \o <<i>>, r)
      BY <2>8, <3>1
    <3>4. get[r][slots[i]] = map[p \o m]
      BY <2>8, <3>3 DEF Reads
    <3> QED BY <2>6, <3>2, <3>4
  <2> QED BY <2>9, <2>10
<1> QED BY <1>1, <1>6, <1>7, <1>8 DEF NodeAt

LEMMA GetReads ==
  ASSUME NEW store, Closed(store), NEW map, NEW node, NEW p,
         <<node, p>> \in Trees(store, map), NEW m \in Ends(p)
  PROVE  Reads(store, map, node, p, m)
<1> DEFINE Right(n) == \A q, child : \A r \in Ends(q) :
               Len(r) = n /\ <<child, q>> \in Trees(store, map) => Reads(store, map, child, q, r)
           T == {n \in Nat : ~Right(n)}
<1>1. ASSUME T # {} PROVE FALSE
  <2>1. PICK n \in T : \A j \in T : n <= j
    BY <1>1, Least
  <2>2. PICK q, child : \E r \in Ends(q) :
          Len(r) = n /\ <<child, q>> \in Trees(store, map) /\ ~Reads(store, map, child, q, r)
    BY <2>1
  <2>3. PICK r \in Ends(q) :
          Len(r) = n /\ <<child, q>> \in Trees(store, map) /\ ~Reads(store, map, child, q, r)
    BY <2>2
  <2>4. ASSUME NEW q2, NEW child2, NEW r2 \in Ends(q2), Len(r2) < Len(r),
               <<child2, q2>> \in Trees(store, map)
        PROVE  Reads(store, map, child2, q2, r2)
    <3>1. Len(r2) \in Nat
      BY PathFacts DEF Ends
    <3>2. Len(r2) \notin T
      BY <2>1, <2>3, <2>4, <3>1
    <3> QED BY <2>4, <3>1, <3>2
  <2> HIDE DEF T
  <2>5. Reads(store, map, child, q, r)
    BY <2>3, <2>4, GetStep
  <2> QED BY <2>3, <2>5
<1>2. Len(m) \in Nat
  BY PathFacts DEF Ends
<1>3. Right(Len(m))
  BY <1>1, <1>2
<1> QED BY <1>3

-----------------------------------------------------------------------------
(***************************************************************************)
(* Planting nodes.                                                         *)
(***************************************************************************)

Maps == [Key -> Value \cup {NoNode}]

\* map with v under k.
Updated(map, k, v) == [map EXCEPT ![k] = v]

LEMMA UpdatedFacts ==
  ASSUME NEW map \in Maps, NEW k \in Key, NEW v \in Value
  PROVE  /\ Updated(map, k, v) \in Maps
         /\ Updated(map, k, v)[k] = v
         /\ \A m \in Key \ {k} : Updated(map, k, v)[m] = map[m]
         /\ v # NoNode
  BY NoneIsNoValue DEF Maps, Updated

\* A key that does not begin with q changes nothing below q.
LEMMA UpdatedElsewhere ==
  ASSUME NEW map \in Maps, NEW k \in Key, NEW v \in Value, NEW q \in Path,
         \A m \in Ends(q) : q \o m # k
  PROVE  Agree(map, Updated(map, k, v), q)
<1>1. ASSUME NEW m \in Ends(q) PROVE map[q \o m] = Updated(map, k, v)[q \o m]
  <2>1. q \o m \in Key \ {k}
    BY DEF Ends
  <2> QED BY <2>1, UpdatedFacts
<1> QED BY <1>1 DEF Agree

\* A path that parts from others after f: f, then i, then the rest.
Through(f, i, n) == f \o (<<i>> \o n)

LEMMA Via ==
  ASSUME NEW p \in Path, NEW f \in Path, NEW i \in Nibble, NEW n \in Path
  PROVE  /\ Through(f, i, n) \in Path
         /\ ((p \o f) \o <<i>>) \o n = p \o Through(f, i, n)
         /\ n \in Ends((p \o f) \o <<i>>) <=> Through(f, i, n) \in Ends(p)
<1>1. <<i>> \in Path /\ p \o f \in Path
  BY Single, Concat
<1>2. <<i>> \o n \in Path
  BY <1>1, Concat
<1>3. f \o (<<i>> \o n) \in Path
  BY <1>2, Concat
<1>4. ((p \o f) \o <<i>>) \o n = (p \o f) \o (<<i>> \o n)
  BY <1>1, Associative
<1>5. (p \o f) \o (<<i>> \o n) = p \o (f \o (<<i>> \o n))
  BY <1>2, Associative
<1>6. n \in Ends((p \o f) \o <<i>>) <=> <<i>> \o n \in Ends(p \o f)
  BY <1>1, EndsBelow
<1>7. <<i>> \o n \in Ends(p \o f) <=> f \o (<<i>> \o n) \in Ends(p)
  BY <1>2, EndsBelow
<1> QED BY <1>3, <1>4, <1>5, <1>6, <1>7 DEF Through

LEMMA ViaApart ==
  ASSUME NEW f \in Path, NEW i \in Nibble, NEW j \in Nibble, NEW m \in Path, NEW n \in Path,
         Through(f, i, m) = Through(f, j, n)
  PROVE  i = j /\ m = n
<1>1. <<i>> \in Path /\ <<j>> \in Path
  BY Single
<1>2. <<i>> \o m \in Path /\ <<j>> \o n \in Path
  BY <1>1, Concat
<1>3. <<i>> \o m = <<j>> \o n
  BY <1>2, Cancel DEF Through
<1>4. i = j
  BY <1>3, TailOf
<1>5. m = n
  BY <1>1, <1>3, <1>4, Cancel
<1> QED BY <1>4, <1>5

\* m begins with path.
Beyond(m, path) == \E z \in Path : m = path \o z

\* The keys below p for which map has something begin with path.
Confined(map, p, path) == \A m \in Ends(p) : map[p \o m] # NoNode => Beyond(m, path)

LEMMA InhabitedAbove ==
  ASSUME NEW map, NEW p \in Path, NEW q \in Path, ~Vacant(map, p \o q)
  PROVE  ~Vacant(map, p)
<1>1. PICK m \in Ends(p \o q) : map[(p \o q) \o m] # NoNode
  BY DEF Vacant
<1>2. m \in Path /\ q \o m \in Ends(p)
  BY EndsBelow DEF Ends
<1>3. p \o (q \o m) = (p \o q) \o m
  BY <1>2, Associative
<1> QED BY <1>1, <1>2, <1>3 DEF Vacant

LEMMA NewLeaf ==
  ASSUME NEW map, NEW p \in Path, NEW m \in Ends(p), map[p \o m] # NoNode,
         \A n \in Ends(p) \ {m} : map[p \o n] = NoNode,
         NEW store, Pair(m, "leaf", map[p \o m]) \in store
  PROVE  <<Pair(m, "leaf", map[p \o m]), p>> \in Trees(store, map)
<1> DEFINE node == Pair(m, "leaf", map[p \o m])
<1>1. LeafAt(map, node, p)
  BY DEF LeafAt
<1>2. ~Vacant(map, p)
  BY DEF Vacant
<1>3. NodeAt(Trees(store, map), map, node, p)
  BY <1>1 DEF NodeAt
<1> HIDE DEF node
<1>4. node \in store
  BY DEF node
<1>5. <<node, p>> \in Trees(store, map)
  BY <1>2, <1>3, <1>4, Plant
<1> QED BY <1>5 DEF node

LEMMA NewExtension ==
  ASSUME NEW map, NEW p \in Path, NEW path \in Path, path # <<>>, NEW store, NEW child,
         <<child, p \o path>> \in Trees(store, map), DecodeType(child) = "branch",
         Confined(map, p, path),
         Pair(path, "extension", child) \in store
  PROVE  <<Pair(path, "extension", child), p>> \in Trees(store, map)
<1> DEFINE node == Pair(path, "extension", child)
<1>1. ExtensionAt(Trees(store, map), map, node, p)
  BY DEF ExtensionAt, Confined, Beyond
<1>2. ~Vacant(map, p)
  BY TreeFacts, InhabitedAbove
<1>3. NodeAt(Trees(store, map), map, node, p)
  BY <1>1 DEF NodeAt
<1> HIDE DEF node
<1>4. node \in store
  BY DEF node
<1>5. <<node, p>> \in Trees(store, map)
  BY <1>2, <1>3, <1>4, Plant
<1> QED BY <1>5 DEF node

LEMMA NewBranch ==
  ASSUME NEW map, NEW p \in Path, NEW store, NEW slots,
         slots = [i \in Nibble |-> slots[i]],
         \A i \in Nibble : \/ slots[i] = NoNode /\ Vacant(map, p \o <<i>>)
                           \/ slots[i] # NoNode /\ <<slots[i], p \o <<i>>>> \in Trees(store, map),
         NEW a \in Nibble, NEW b \in Nibble, a # b, slots[a] # NoNode, slots[b] # NoNode,
         Branch(slots, NoNode) \in store
  PROVE  <<Branch(slots, NoNode), p>> \in Trees(store, map)
<1> DEFINE node == Branch(slots, NoNode)
<1>1. BranchAt(Trees(store, map), map, node, p)
  BY DEF BranchAt
<1>2. ~Vacant(map, p)
  <2>1. <<slots[a], p \o <<a>>>> \in Trees(store, map) /\ <<a>> \in Path
    BY Single
  <2> QED BY <2>1, TreeFacts, InhabitedAbove
<1>3. NodeAt(Trees(store, map), map, node, p)
  BY <1>1 DEF NodeAt
<1> HIDE DEF node
<1>4. node \in store
  BY DEF node
<1>5. <<node, p>> \in Trees(store, map)
  BY <1>2, <1>3, <1>4, Plant
<1> QED BY <1>5 DEF node

\* What add returns: the node that holds map at p, in a store that has grown.
Grown(store, result) == store \cup result.made \cup {result.node}

Planted(store, map, p, result) ==
    /\ <<result.node, p>> \in Trees(Grown(store, result), map)
    /\ \A x \in result.made : \E q : <<x, q>> \in Trees(Grown(store, result), map)

\* The last step of add_encode_node: what is below the common prefix gets an
\* extension, if there is a prefix.
LEMMA Wrap ==
  ASSUME NEW store, NEW map, NEW p \in Path, NEW f \in Path, NEW next,
         Planted(store, map, p \o f, next), DecodeType(next.node) = "branch",
         Confined(map, p, f)
  PROVE  Planted(store, map, p,
             IF f = <<>> THEN next
             ELSE [node |-> Pair(f, "extension", next.node), made |-> next.made \cup {next.node}])
<1>1. CASE f = <<>>
  <2>1. p \o f = p
    BY <1>1, Empty
  <2> QED BY <1>1, <2>1
<1>2. CASE f # <<>>
  <2> DEFINE node == Pair(f, "extension", next.node)
             result == [node |-> node, made |-> next.made \cup {next.node}]
             larger == Grown(store, result)
  <2>1. Grown(store, next) \subseteq larger /\ node \in larger
    BY DEF Grown
  <2>2. Trees(Grown(store, next), map) \subseteq Trees(larger, map)
    BY <2>1, TreesGrow
  <2>3. <<next.node, p \o f>> \in Trees(larger, map)
    BY <2>2 DEF Planted
  <2>4. \A x \in result.made : \E q : <<x, q>> \in Trees(larger, map)
    BY <2>2, <2>3 DEF Planted
  <2> HIDE DEF larger
  <2>5. <<node, p>> \in Trees(larger, map)
    BY <1>2, <2>1, <2>3, NewExtension
  <2>6. result.node = node
    OBVIOUS
  <2> HIDE DEF result, node
  <2>7. Planted(store, map, p, result)
    BY <2>4, <2>5, <2>6 DEF Planted, larger
  <2> QED BY <1>2, <2>7 DEF result, node
<1> QED BY <1>1, <1>2

\* A new key f, b, y below p leaves the path f, a, x, which all keys of map below p
\* follow; other is the map with the new key.
Fork(map, other, p, f, a, x, b, y, value) ==
    /\ map \in Maps /\ value \in Value
    /\ p \in Path /\ f \in Path /\ x \in Path /\ y \in Path
    /\ a \in Nibble /\ b \in Nibble /\ a # b
    /\ Through(f, b, y) \in Ends(p)
    /\ Confined(map, p, Through(f, a, x))
    /\ other = Updated(map, p \o Through(f, b, y), value)

LEMMA ForkKeys ==
  ASSUME NEW map, NEW other, NEW p, NEW f, NEW a, NEW x, NEW b, NEW y, NEW value,
         Fork(map, other, p, f, a, x, b, y, value),
         NEW i \in Nibble, NEW n \in Ends((p \o f) \o <<i>>)
  PROVE  /\ n \in Path /\ Through(f, i, n) \in Ends(p)
         /\ ((p \o f) \o <<i>>) \o n = p \o Through(f, i, n)
         /\ i = b /\ n = y => other[((p \o f) \o <<i>>) \o n] = value
         /\ ~(i = b /\ n = y) =>
              /\ other[((p \o f) \o <<i>>) \o n] = map[p \o Through(f, i, n)]
              /\ other[((p \o f) \o <<i>>) \o n] # NoNode => i = a /\ Beyond(n, x)
<1> DEFINE e == Through(f, i, n)
           new == Through(f, b, y)
<1>1. /\ map \in Maps /\ value \in Value
      /\ p \in Path /\ f \in Path /\ x \in Path /\ y \in Path
      /\ a \in Nibble /\ b \in Nibble /\ a # b
      /\ new \in Ends(p)
      /\ Confined(map, p, Through(f, a, x))
      /\ other = Updated(map, p \o new, value)
  BY DEF Fork
<1>2. n \in Path
  BY DEF Ends
<1>3. e \in Path /\ ((p \o f) \o <<i>>) \o n = p \o e /\ e \in Ends(p)
  <2>1. p \in Path /\ f \in Path
    BY <1>1
  <2> QED BY <1>2, <2>1, Via
<1>4. new \in Path /\ p \o new \in Key /\ p \o e \in Key
  BY <1>1, <1>3 DEF Ends
<1>5. /\ other[p \o new] = value
      /\ \A k \in Key \ {p \o new} : other[k] = map[k]
  BY <1>1, <1>4, UpdatedFacts
<1>6. ASSUME e = new PROVE i = b /\ n = y
  BY <1>1, <1>2, <1>6, ViaApart
<1>7. ASSUME p \o e = p \o new PROVE e = new
  <2> HIDE DEF e, new
  <2> QED BY <1>1, <1>3, <1>4, <1>7, Cancel
<1>8. ASSUME ~(i = b /\ n = y) PROVE other[p \o e] = map[p \o e]
  <2>1. p \o e \in Key \ {p \o new}
    BY <1>4, <1>6, <1>7, <1>8
  <2> QED BY <1>5, <2>1
<1>9. ASSUME map[p \o e] # NoNode PROVE i = a /\ Beyond(n, x)
  <2>1. PICK z \in Path : e = Through(f, a, x) \o z
    BY <1>1, <1>3, <1>9 DEF Confined, Beyond
  <2>2. f \in Path /\ a \in Nibble /\ x \in Path /\ z \in Path
    BY <1>1, <2>1
  <2>3. <<a>> \in Path /\ x \o z \in Path
    BY <2>2, Single, Concat
  <2>4. <<a>> \o x \in Path
    BY <2>2, <2>3, Concat
  <2>5. (f \o (<<a>> \o x)) \o z = f \o ((<<a>> \o x) \o z)
    BY <2>2, <2>4, Associative
  <2>6. (<<a>> \o x) \o z = <<a>> \o (x \o z)
    BY <2>2, <2>3, Associative
  <2> DEFINE w == x \o z
  <2>7. Through(f, a, x) \o z = Through(f, a, w)
    BY <2>5, <2>6 DEF Through
  <2>8. w \in Path
    BY <2>3
  <2> HIDE DEF w
  <2>9. Through(f, i, n) = Through(f, a, w)
    BY <2>1, <2>7
  <2>10. i = a /\ n = w
    BY <1>2, <2>2, <2>8, <2>9, ViaApart
  <2> QED BY <2>2, <2>10 DEF w, Beyond
<1>10. ASSUME i = b, n = y PROVE e = new
  BY <1>10
<1> HIDE DEF e, new
<1>11. /\ i = b /\ n = y => other[p \o e] = value
       /\ ~(i = b /\ n = y) => /\ other[p \o e] = map[p \o e]
                               /\ other[p \o e] # NoNode => i = a /\ Beyond(n, x)
  BY <1>5, <1>8, <1>9, <1>10
<1> QED BY <1>2, <1>3, <1>11 DEF e

LEMMA ForkFacts ==
  ASSUME NEW map, NEW other, NEW p, NEW f, NEW a, NEW x, NEW b, NEW y, NEW value,
         Fork(map, other, p, f, a, x, b, y, value)
  PROVE  /\ map \in Maps /\ value \in Value /\ value # NoNode
         /\ p \in Path /\ f \in Path /\ x \in Path /\ y \in Path
         /\ a \in Nibble /\ b \in Nibble /\ a # b
         /\ p \o f \in Path /\ (p \o f) \o <<a>> \in Path /\ (p \o f) \o <<b>> \in Path
<1>1. /\ map \in Maps /\ value \in Value
      /\ p \in Path /\ f \in Path /\ x \in Path /\ y \in Path
      /\ a \in Nibble /\ b \in Nibble /\ a # b
  BY DEF Fork
<1>2. value # NoNode
  BY <1>1, NoneIsNoValue
<1>3. p \o f \in Path /\ <<a>> \in Path /\ <<b>> \in Path
  BY <1>1, Single, Concat
<1>4. (p \o f) \o <<a>> \in Path /\ (p \o f) \o <<b>> \in Path
  BY <1>3, Concat
<1> QED BY <1>1, <1>2, <1>3, <1>4

\* What goes to the slot of the new key.
LEMMA ForkNew ==
  ASSUME NEW map, NEW other, NEW p, NEW f, NEW a, NEW x, NEW b, NEW y, NEW value,
         Fork(map, other, p, f, a, x, b, y, value),
         NEW store, Pair(y, "leaf", value) \in store
  PROVE  <<Pair(y, "leaf", value), (p \o f) \o <<b>>>> \in Trees(store, other)
<1> DEFINE q == (p \o f) \o <<b>>
<1>1. /\ p \in Path /\ f \in Path /\ y \in Path /\ b \in Nibble /\ value # NoNode
      /\ q \in Path
  BY ForkFacts
<1>2. y \in Ends(q)
  <2>1. Through(f, b, y) \in Ends(p)
    BY DEF Fork
  <2> QED BY <1>1, <2>1, Via
<1>3. other[q \o y] = value
  BY <1>1, <1>2, ForkKeys
<1>4. ASSUME NEW n \in Ends(q) \ {y} PROVE other[q \o n] = NoNode
  <2>1. other[q \o n] # NoNode => b = a
    BY <1>1, <1>4, ForkKeys
  <2> QED BY <2>1, ForkFacts
<1> HIDE DEF q
<1>5. Pair(y, "leaf", other[q \o y]) = Pair(y, "leaf", value)
  BY <1>3
<1>6. <<Pair(y, "leaf", other[q \o y]), q>> \in Trees(store, other)
  BY <1>1, <1>2, <1>3, <1>4, <1>5, NewLeaf
<1>7. <<Pair(y, "leaf", value), q>> \in Trees(store, other)
  BY <1>5, <1>6
<1> QED BY <1>7 DEF q

\* What goes to the slot of a leaf that was there.
LEMMA ForkLeaf ==
  ASSUME NEW map, NEW other, NEW p, NEW f, NEW a, NEW x, NEW b, NEW y, NEW value,
         Fork(map, other, p, f, a, x, b, y, value),
         Through(f, a, x) \in Ends(p),
         NEW was, was = map[p \o Through(f, a, x)], was # NoNode,
         \A n \in Ends(p) \ {Through(f, a, x)} : map[p \o n] = NoNode,
         NEW store, Pair(x, "leaf", was) \in store
  PROVE  <<Pair(x, "leaf", was), (p \o f) \o <<a>>>> \in Trees(store, other)
<1> DEFINE q == (p \o f) \o <<a>>
<1>1. /\ p \in Path /\ f \in Path /\ x \in Path /\ a \in Nibble /\ a # b
      /\ q \in Path
  BY ForkFacts
<1>2. x \in Ends(q)
  BY <1>1, Via
<1>3. other[q \o x] = was
  <2>1. other[q \o x] = map[p \o Through(f, a, x)]
    BY <1>1, <1>2, ForkKeys
  <2> QED BY <2>1
<1>4. ASSUME NEW n \in Ends(q) \ {x} PROVE other[q \o n] = NoNode
  <2>1. n \in Path /\ Through(f, a, n) \in Ends(p)
    BY <1>1, ForkKeys
  <2>2. other[q \o n] = map[p \o Through(f, a, n)]
    BY <1>1, ForkKeys
  <2>3. Through(f, a, n) # Through(f, a, x)
    BY <1>1, <2>1, ViaApart
  <2>4. Through(f, a, n) \in Ends(p) \ {Through(f, a, x)}
    BY <2>1, <2>3
  <2> QED BY <2>2, <2>4
<1> HIDE DEF q
<1>5. Pair(x, "leaf", other[q \o x]) = Pair(x, "leaf", was)
  BY <1>3
<1>6. <<Pair(x, "leaf", other[q \o x]), q>> \in Trees(store, other)
  BY <1>1, <1>2, <1>3, <1>4, <1>5, NewLeaf
<1>7. <<Pair(x, "leaf", was), q>> \in Trees(store, other)
  BY <1>5, <1>6
<1> QED BY <1>7 DEF q

\* What the node at p has that is going to the fork: the value of a leaf, the branch
\* below an extension.
ForkOf(store, map, p, path, type, was) ==
    \/ /\ type = "leaf" /\ path \in Ends(p)
       /\ was = map[p \o path] /\ was # NoNode
       /\ \A n \in Ends(p) \ {path} : map[p \o n] = NoNode
    \/ /\ type = "extension" /\ DecodeType(was) = "branch"
       /\ <<was, p \o path>> \in Trees(store, map)

\* What the fork keeps of it, below the nibble where the new key leaves.
Kept(type, x, was) == IF type = "extension" /\ x = <<>> THEN was ELSE Pair(x, type, was)

\* What goes to the slot of an extension that was there: the child alone, or with what
\* is left of the path.
LEMMA ForkExtension ==
  ASSUME NEW map, NEW other, NEW p, NEW f, NEW a, NEW x, NEW b, NEW y, NEW value,
         Fork(map, other, p, f, a, x, b, y, value),
         NEW child, NEW store, ForkOf(store, map, p, Through(f, a, x), "extension", child),
         NEW larger, store \subseteq larger,
         x # <<>> => Kept("extension", x, child) \in larger
  PROVE  /\ <<Kept("extension", x, child), (p \o f) \o <<a>>>> \in Trees(larger, other)
         /\ Kept("extension", x, child) # NoNode
<1> DEFINE q == (p \o f) \o <<a>>
           r == p \o Through(f, a, x)
           old == Kept("extension", x, child)
           new == Through(f, b, y)
<1>0. /\ <<child, r>> \in Trees(store, map) /\ DecodeType(child) = "branch"
      /\ old = IF x = <<>> THEN child ELSE Pair(x, "extension", child)
  BY DEF ForkOf, Kept
<1> HIDE DEF old
<1>1. /\ map \in Maps /\ value \in Value
      /\ p \in Path /\ f \in Path /\ x \in Path /\ y \in Path
      /\ a \in Nibble /\ b \in Nibble /\ a # b
      /\ q \in Path /\ r \in Path
  <2> HIDE DEF r
  <2> QED BY <1>0, ForkFacts, TreeFacts
<1>2. q \o x = r
  <2>1. p \in Path /\ f \in Path /\ x \in Path /\ a \in Nibble
    BY <1>1
  <2>2. ((p \o f) \o <<a>>) \o x = p \o Through(f, a, x)
    BY <2>1, Via
  <2> QED BY <2>2
<1> HIDE DEF r
<1>3. new \in Path /\ p \o new \in Key /\ other = Updated(map, p \o new, value)
  BY <1>1 DEF Fork, Ends
<1>4. ASSUME NEW m \in Ends(r), r \o m = p \o new PROVE FALSE
  <2> DEFINE n == x \o m
  <2>1. m \in Path /\ n \in Path
    BY <1>1, Concat DEF Ends
  <2>0. p \in Path /\ f \in Path /\ x \in Path /\ q \in Path /\ a \in Nibble
    BY <1>1
  <2>2. q \o n = r \o m
    <3> HIDE DEF q
    <3>1. q \o (x \o m) = (q \o x) \o m
      BY <2>0, <2>1, Associative
    <3> QED BY <1>2, <3>1
  <2> HIDE DEF n
  <2>9. n \in Path /\ p \in Path /\ f \in Path /\ a \in Nibble
    BY <2>0, <2>1 DEF n
  <2>3. /\ Through(f, a, n) \in Path
        /\ ((p \o f) \o <<a>>) \o n = p \o Through(f, a, n)
    BY <2>9, Via
  <2> DEFINE e == Through(f, a, n)
  <2>5. e \in Path /\ p \o e = p \o new
    BY <1>4, <2>2, <2>3
  <2> HIDE DEF e, new
  <2>6. e = new
    BY <1>1, <1>3, <2>5, Cancel
  <2> QED BY <1>1, <2>1, <2>6, ViaApart DEF e, new
<1>5. Agree(map, other, r)
  <2> DEFINE k == p \o new
  <2>1. \A m \in Ends(r) : r \o m # k
    BY <1>4
  <2>2. k \in Key /\ other = Updated(map, k, value)
    BY <1>3
  <2> HIDE DEF k
  <2> QED BY <1>1, <2>1, <2>2, UpdatedElsewhere
<1>6. <<child, r>> \in Trees(larger, other) /\ child # NoNode
  <2>1. <<child, r>> \in Trees(store, other)
    BY <1>0, <1>5, TreesFrame
  <2>2. <<child, r>> \in Trees(larger, other)
    BY <2>1, TreesGrow
  <2> QED BY <1>0, <2>2, NoNodeFacts
<1>7. ASSUME x # <<>> PROVE Confined(other, q, x)
  <2> SUFFICES ASSUME NEW n \in Ends(q), other[q \o n] # NoNode
               PROVE  Beyond(n, x)
    BY DEF Confined
  <2>1. a \in Nibble /\ ~(a = b /\ n = y)
    BY <1>1
  <2>2. n \in Ends((p \o f) \o <<a>>) /\ other[((p \o f) \o <<a>>) \o n] # NoNode
    OBVIOUS
  <2> QED BY <2>1, <2>2, ForkKeys
<1>8. CASE x = <<>>
  <2>1. q \o x = q /\ old = child
    BY <1>0, <1>1, <1>8, Empty
  <2>2. q = r
    BY <1>2, <2>1
  <2> QED BY <1>6, <2>1, <2>2 DEF old
<1>9. CASE x # <<>>
  <2> HIDE DEF q
  <2>1. old = Pair(x, "extension", child) /\ old \in larger
    BY <1>0, <1>9 DEF old
  <2>2. old # NoNode
    BY <1>1, <2>1, PairFacts
  <2>3. <<child, q \o x>> \in Trees(larger, other)
    BY <1>2, <1>6
  <2>4. Pair(x, "extension", child) \in larger
    BY <2>1
  <2>5. <<Pair(x, "extension", child), q>> \in Trees(larger, other)
    BY <1>0, <1>1, <1>7, <1>9, <2>3, <2>4, NewExtension
  <2>6. <<old, q>> \in Trees(larger, other)
    BY <2>1, <2>5
  <2> QED BY <2>2, <2>6 DEF q, old
<1> QED BY <1>8, <1>9

\* Where no key goes.
LEMMA ForkElsewhere ==
  ASSUME NEW map, NEW other, NEW p, NEW f, NEW a, NEW x, NEW b, NEW y, NEW value,
         Fork(map, other, p, f, a, x, b, y, value),
         NEW i \in Nibble, i # a, i # b
  PROVE  Vacant(other, (p \o f) \o <<i>>)
<1> SUFFICES ASSUME NEW n \in Ends((p \o f) \o <<i>>)
             PROVE  other[((p \o f) \o <<i>>) \o n] = NoNode
  BY DEF Vacant
<1> QED BY ForkKeys

\* The branch of a fork: old and new in their slots.
LEMMA ForkBranch ==
  ASSUME NEW map, NEW other, NEW p, NEW f, NEW a, NEW x, NEW b, NEW y, NEW value,
         Fork(map, other, p, f, a, x, b, y, value),
         NEW s, NEW old, <<old, (p \o f) \o <<a>>>> \in Trees(s, other), old # NoNode,
         NEW new, new = Pair(y, "leaf", value), new \in s,
         NEW slots, slots = [[NoSlots EXCEPT ![a] = old] EXCEPT ![b] = new],
         Branch(slots, NoNode) \in s
  PROVE  <<Branch(slots, NoNode), p \o f>> \in Trees(s, other)
<1> DEFINE q == p \o f
<1>1. a \in Nibble /\ b \in Nibble /\ a # b /\ q \in Path /\ y \in Path
  BY ForkFacts
<1>2. <<new, q \o <<b>>>> \in Trees(s, other)
  BY ForkNew
<1>3. new # NoNode
  BY <1>1, PairFacts
<1>4. /\ slots = [i \in Nibble |-> slots[i]]
      /\ slots[a] = old /\ slots[b] = new
      /\ \A i \in Nibble \ {a, b} : slots[i] = NoNode
  BY <1>1 DEF NoSlots
<1>5. \A i \in Nibble \ {a, b} : Vacant(other, q \o <<i>>)
  BY ForkElsewhere
<1> HIDE DEF q
<1>6. ASSUME NEW i \in Nibble
      PROVE  \/ slots[i] = NoNode /\ Vacant(other, q \o <<i>>)
             \/ slots[i] # NoNode /\ <<slots[i], q \o <<i>>>> \in Trees(s, other)
  <2>1. CASE i = a
    <3>1. <<old, q \o <<a>>>> \in Trees(s, other)
      BY DEF q
    <3> QED BY <1>4, <2>1, <3>1
  <2>2. CASE i = b
    BY <1>2, <1>3, <1>4, <2>2
  <2>3. CASE i \in Nibble \ {a, b}
    BY <1>4, <1>5, <2>3
  <2> QED BY <2>1, <2>2, <2>3
<1>7. slots[a] # NoNode /\ slots[b] # NoNode
  BY <1>3, <1>4
<1>8. slots = [i \in Nibble |-> slots[i]]
  BY <1>4
<1>9. <<Branch(slots, NoNode), q>> \in Trees(s, other)
  BY <1>1, <1>6, <1>7, <1>8, NewBranch
<1> QED BY <1>9 DEF q

\* next has a branch below f that holds the map with the new key.
Branches(store, map, p, m, value, f, next) ==
    /\ Planted(store, Updated(map, p \o m, value), p \o f, next)
    /\ DecodeType(next.node) = "branch"

\* Where the new key leaves the path of a leaf or an extension, a branch with what was
\* there and a new leaf holds the map with the new key.
LEMMA AddNewBranchGrows ==
  ASSUME NEW store, NEW map \in Maps, NEW p \in Path, NEW f,
         NEW parent, parent # <<>>, NEW current, current # <<>>, parent[1] # current[1],
         NEW value \in Value,
         NEW m \in Ends(p), Splits(m, f, current), NEW path, Splits(path, f, parent),
         Confined(map, p, path),
         NEW type \in {"leaf", "extension"}, NEW node,
         ForkOf(store, map, p, path, type, node.value)
  PROVE  Branches(store, map, p, m, value, f, AddNewBranch(type, node, parent, current, value))
<1> DEFINE a == parent[1]
           x == Tail(parent)
           b == current[1]
           y == Tail(current)
           q == p \o f
           k == p \o m
           other == Updated(map, k, value)
           direct == type = "extension" /\ Len(parent) = 1
           was == node.value
           old == IF direct THEN was ELSE Pair(x, type, was)
           new == Pair(y, "leaf", value)
           slots == [[NoSlots EXCEPT ![a] = old] EXCEPT ![b] = new]
           next == AddNewBranch(type, node, parent, current, value)
           s == Grown(store, next)
<1>1. /\ a \in Nibble /\ x \in Path /\ Len(x) = Len(parent) - 1 /\ parent = <<a>> \o x
      /\ b \in Nibble /\ y \in Path /\ current = <<b>> \o y
      /\ a # b
  BY HeadAndTail DEF Splits
<1>2. /\ next.node = Branch(slots, NoNode)
      /\ next.made = (IF direct THEN {} ELSE {old}) \cup {new}
  BY DEF AddNewBranch
<1>3. direct <=> type = "extension" /\ x = <<>>
  <2> HIDE DEF a, x, b, y, next
  <2>1. Len(parent) \in Nat /\ Len(x) = Len(parent) - 1
    BY <1>1, PathFacts DEF Splits
  <2>2. Len(x) = 0 <=> x = <<>>
    BY <1>1, PathFacts
  <2>3. Len(parent) = 1 <=> x = <<>>
    BY <2>1, <2>2
  <2> QED BY <2>3
<1>4. /\ store \subseteq s /\ Branch(slots, NoNode) \in s /\ new \in s
      /\ ~direct => old \in s
  <2> HIDE DEF next, old, new, slots, direct
  <2> QED BY <1>2 DEF Grown
<1> HIDE DEF a, x, b, y
<1>5. path = Through(f, a, x) /\ m = Through(f, b, y)
  BY <1>1 DEF Through, Splits
<1>6. Fork(map, other, p, f, a, x, b, y, value)
  <2>1. Through(f, b, y) \in Ends(p) /\ Confined(map, p, Through(f, a, x))
    BY <1>5
  <2>2. p \o Through(f, b, y) = k
    BY <1>5
  <2>3. other = Updated(map, p \o Through(f, b, y), value)
    BY <2>2
  <2> HIDE DEF other
  <2>4. f \in Path
    BY DEF Splits
  <2> QED BY <1>1, <2>1, <2>3, <2>4 DEF Fork
<1> HIDE DEF k, other, s, next
<1>7. <<old, (p \o f) \o <<a>>>> \in Trees(s, other) /\ old # NoNode
  <2>1. CASE type = "leaf"
    <3> DEFINE e == Through(f, a, x)
    <3>1. /\ e \in Ends(p) /\ was = map[p \o e] /\ was # NoNode
          /\ \A n \in Ends(p) \ {e} : map[p \o n] = NoNode
      BY <1>5, <2>1 DEF ForkOf
    <3>2. old = Pair(x, "leaf", was) /\ old \in s
      BY <1>4, <2>1
    <3>3. old # NoNode
      BY <1>1, <3>2, PairFacts
    <3> HIDE DEF was, old, direct
    <3>4. Pair(x, "leaf", was) \in s
      BY <3>2
    <3>5. <<Pair(x, "leaf", was), (p \o f) \o <<a>>>> \in Trees(s, other)
      BY <1>6, <3>1, <3>4, ForkLeaf
    <3> QED BY <3>2, <3>3, <3>5
  <2>2. CASE type = "extension"
    <3>1. ForkOf(store, map, p, Through(f, a, x), "extension", was)
      BY <1>5, <2>2
    <3>2. old = Kept("extension", x, was) /\ store \subseteq s
      BY <1>3, <1>4, <2>2 DEF Kept
    <3>3. x # <<>> => Kept("extension", x, was) \in s
      BY <1>3, <1>4, <3>2
    <3> HIDE DEF was, old, direct, new, slots, q
    <3>4. /\ <<Kept("extension", x, was), (p \o f) \o <<a>>>> \in Trees(s, other)
          /\ Kept("extension", x, was) # NoNode
      BY <1>6, <3>1, <3>2, <3>3, ForkExtension
    <3> QED BY <3>2, <3>4
  <2> QED BY <2>1, <2>2
<1> HIDE DEF old, was, direct
<1>8. <<Branch(slots, NoNode), p \o f>> \in Trees(s, other)
  <2>1. slots = [[NoSlots EXCEPT ![a] = old] EXCEPT ![b] = new]
    OBVIOUS
  <2>2. new = Pair(y, "leaf", value)
    OBVIOUS
  <2> HIDE DEF slots, new
  <2> QED BY <1>4, <1>6, <1>7, <2>1, <2>2, ForkBranch
<1>9. <<new, (p \o f) \o <<b>>>> \in Trees(s, other)
  <2>1. Pair(y, "leaf", value) \in s
    BY <1>4
  <2> QED BY <1>6, <2>1, ForkNew
<1> HIDE DEF new, slots, q
<1>10. \A z \in next.made : \E r : <<z, r>> \in Trees(s, other)
  BY <1>2, <1>7, <1>9
<1>11. Planted(store, other, p \o f, next)
  BY <1>2, <1>8, <1>10 DEF Planted, s
<1>12. DecodeType(next.node) = "branch"
  BY <1>2, BranchFacts
<1> QED BY <1>11, <1>12 DEF other, k, next, Branches

\* What is at p in a trie: a node that holds what map has below p, or none if that is
\* nothing.
Holds(store, map, node, p) ==
    \/ node = NoNode /\ Vacant(map, p)
    \/ <<node, p>> \in Trees(store, map)

LEMMA UpdatedBelow ==
  ASSUME NEW map \in Maps, NEW p \in Path, NEW m \in Ends(p), NEW value \in Value
  PROVE  /\ Updated(map, p \o m, value)[p \o m] = value
         /\ value # NoNode
         /\ \A n \in Ends(p) : n # m => Updated(map, p \o m, value)[p \o n] = map[p \o n]
<1> DEFINE k == p \o m
<1>1. k \in Key /\ m \in Path
  BY DEF Ends
<1>2. ASSUME NEW n \in Ends(p), n # m PROVE p \o n \in Key \ {k}
  <2>1. n \in Path /\ p \o n \in Key
    BY DEF Ends
  <2>2. p \o n # k
    BY <1>1, <1>2, <2>1, Cancel
  <2> QED BY <2>1, <2>2
<1> HIDE DEF k
<1>3. /\ Updated(map, k, value)[k] = value /\ value # NoNode
      /\ \A e \in Key \ {k} : Updated(map, k, value)[e] = map[e]
  BY <1>1, UpdatedFacts
<1>4. ASSUME NEW n \in Ends(p), n # m PROVE Updated(map, k, value)[p \o n] = map[p \o n]
  BY <1>2, <1>3, <1>4
<1> QED BY <1>3, <1>4 DEF k

LEMMA ConfinedAbove ==
  ASSUME NEW map \in Maps, NEW p \in Path, NEW f, NEW parent, NEW current,
         NEW value \in Value,
         NEW m \in Ends(p), Splits(m, f, current), NEW path, Splits(path, f, parent),
         Confined(map, p, path)
  PROVE  Confined(Updated(map, p \o m, value), p, f)
<1>1. SUFFICES ASSUME NEW n \in Ends(p), Updated(map, p \o m, value)[p \o n] # NoNode
               PROVE  Beyond(n, f)
  BY DEF Confined
<1>2. /\ f \in Path /\ parent \in Path /\ current \in Path
      /\ m = f \o current /\ path = f \o parent
  BY DEF Splits
<1>3. CASE n = m
  BY <1>2, <1>3 DEF Beyond
<1>4. CASE n # m
  <2>1. map[p \o n] # NoNode
    BY <1>1, <1>4, UpdatedBelow
  <2>2. PICK z \in Path : n = path \o z
    BY <2>1 DEF Confined, Beyond
  <2>3. (f \o parent) \o z = f \o (parent \o z)
    BY <1>2, <2>2, Associative
  <2>4. parent \o z \in Path
    BY <1>2, <2>2, Concat
  <2>5. n = f \o (parent \o z)
    BY <1>2, <2>2, <2>3
  <2> QED BY <2>4, <2>5 DEF Beyond
<1> QED BY <1>3, <1>4

\* put where nothing is.
LEMMA AddToNothing ==
  ASSUME NEW store, NEW map \in Maps, NEW p \in Path, NEW m \in Ends(p), NEW value \in Value,
         Vacant(map, p), NEW add
  PROVE  Planted(store, Updated(map, p \o m, value), p, AddNode(store, add, NoNode, m, value))
<1> DEFINE k == p \o m
           other == Updated(map, k, value)
           next == AddNode(store, add, NoNode, m, value)
           s == Grown(store, next)
<1>1. next = [node |-> Pair(m, "leaf", value), made |-> {}]
  BY NoNodeFacts DEF AddNode
<1>3. other[p \o m] = value /\ value # NoNode
  BY UpdatedBelow
<1>4. ASSUME NEW n \in Ends(p) \ {m} PROVE other[p \o n] = NoNode
  <2>1. map[p \o n] = NoNode
    BY DEF Vacant
  <2> QED BY <1>4, <2>1, UpdatedBelow
<1> HIDE DEF k, other, next
<1>6. Pair(m, "leaf", other[p \o m]) \in s
  BY <1>1, <1>3 DEF Grown
<1>7. <<Pair(m, "leaf", other[p \o m]), p>> \in Trees(s, other)
  BY <1>3, <1>4, <1>6, NewLeaf
<1>8. <<next.node, p>> \in Trees(s, other) /\ next.made = {}
  BY <1>1, <1>3, <1>7
<1>9. Planted(store, other, p, next)
  BY <1>8 DEF Planted
<1> QED BY <1>9 DEF other, k, next

\* put where the path of the node and the key part.
LEMMA AddPairForks ==
  ASSUME NEW store, NEW map \in Maps, NEW p \in Path, NEW m \in Ends(p), NEW value \in Value,
         NEW path \in Path, Confined(map, p, path),
         NEW type \in {"leaf", "extension"}, NEW node, RemovePrefix(node.path) = path,
         ForkOf(store, map, p, path, type, node.value),
         Rest(path, CommonRange(path, m)) # <<>>, Rest(m, CommonRange(path, m)) # <<>>,
         NEW add
  PROVE  Planted(store, Updated(map, p \o m, value), p, AddPair(store, add, type, node, m, value))
<1> DEFINE c == CommonRange(path, m)
           f == First(path, c)
           parent == Rest(path, c)
           current == Rest(m, c)
           next == AddNewBranch(type, node, parent, current, value)
           result == AddPair(store, add, type, node, m, value)
           k == p \o m
           other == Updated(map, k, value)
<1>1. m \in Path
  BY DEF Ends
<1>2. Splits(path, f, parent) /\ Splits(m, f, current)
  BY <1>1, CommonRangeFacts
<1>0. parent # <<>> /\ current # <<>> /\ parent[1] # current[1]
  BY <1>1, CommonRangeFacts
<1>3. result = IF f = <<>> THEN next
               ELSE [node |-> Pair(f, "extension", next.node), made |-> next.made \cup {next.node}]
  BY <1>0 DEF AddPair
<1> HIDE DEF c, f, parent, current, result
<1>4. Planted(store, other, p \o f, next) /\ DecodeType(next.node) = "branch"
  <2>1. Branches(store, map, p, m, value, f, next)
    BY <1>0, <1>2, AddNewBranchGrows
  <2> QED BY <2>1 DEF Branches
<1>5. Confined(other, p, f)
  BY <1>2, ConfinedAbove
<1> HIDE DEF next, k, other
<1>7. f \in Path
  BY <1>2 DEF Splits
<1>6. Planted(store, other, p, result)
  BY <1>7, <1>3, <1>4, <1>5, Wrap
<1> QED BY <1>6 DEF result, k, other

\* What add returns for m and a node, and what it should.
Adds(store, map, value, node, p, m) ==
    LET result == Add(store, value)[m][node] IN
    /\ Planted(store, Updated(map, p \o m, value), p, result)
    /\ DecodeType(node) = "branch" => DecodeType(result.node) = "branch"

\* put finds the leaf of the key, or the leaf of another.
LEMMA AddToLeaf ==
  ASSUME NEW store, NEW map \in Maps, NEW p \in Path, NEW m \in Ends(p), NEW value \in Value,
         NEW node, ~Vacant(map, p), LeafAt(map, node, p), NEW add
  PROVE  Planted(store, Updated(map, p \o m, value), p, AddNode(store, add, node, m, value))
<1>1. PICK path \in Ends(p) :
         /\ node = Pair(path, "leaf", map[p \o path])
         /\ \A n \in Ends(p) \ {path} : map[p \o n] = NoNode
  BY DEF LeafAt
<1>2. path \in Path /\ m \in Path /\ Len(path) = Len(m) /\ Len(m) \in Nat
  BY EndsFacts, PathFacts
<1>3. /\ DecodeType(node) = "leaf" /\ RemovePrefix(node.path) = path
      /\ node.value = map[p \o path] /\ node # NoNode
  BY <1>1, <1>2, PairFacts
<1>4. map[p \o path] # NoNode
  BY <1>1 DEF Vacant
<1> DEFINE next == AddPair(store, add, "leaf", node, m, value)
           other == Updated(map, p \o m, value)
           c == CommonRange(path, m)
<1>5. AddNode(store, add, node, m, value) = next
  BY <1>3 DEF AddNode
<1>6. /\ Splits(path, First(path, c), Rest(path, c)) /\ Splits(m, First(path, c), Rest(m, c))
      /\ c \in 0..Len(path) /\ c \in 0..Len(m)
  BY <1>2, CommonRangeFacts
<1>7. Rest(path, c) = <<>> <=> Rest(m, c) = <<>>
  <2>1. /\ Rest(path, c) \in Path /\ Len(Rest(path, c)) = Len(path) - c
        /\ Rest(m, c) \in Path /\ Len(Rest(m, c)) = Len(m) - c
    BY <1>2, <1>6, SplitPath
  <2>2. /\ Len(Rest(path, c)) = 0 <=> Rest(path, c) = <<>>
        /\ Len(Rest(m, c)) = 0 <=> Rest(m, c) = <<>>
    BY <2>1, PathFacts
  <2> QED BY <1>2, <2>1, <2>2
<1>8. CASE Rest(path, c) = <<>>
  <2>1. path = m
    <3>1. path = First(path, c) \o <<>> /\ m = First(path, c) \o <<>>
      BY <1>6, <1>7, <1>8 DEF Splits
    <3> QED BY <3>1
  <2>2. next = [node |-> Pair(path, "leaf", value), made |-> {}]
    BY <1>3, <1>7, <1>8 DEF AddPair
  <2>3. other[p \o m] = value /\ value # NoNode
    BY UpdatedBelow
  <2>4. ASSUME NEW n \in Ends(p) \ {m} PROVE other[p \o n] = NoNode
    <3>1. map[p \o n] = NoNode
      BY <1>1, <2>1
    <3> QED BY <2>4, <3>1, UpdatedBelow
  <2> HIDE DEF next, other
  <2>5. Pair(m, "leaf", other[p \o m]) \in Grown(store, next)
    BY <2>1, <2>2, <2>3 DEF Grown
  <2>6. <<Pair(m, "leaf", other[p \o m]), p>> \in Trees(Grown(store, next), other)
    BY <2>3, <2>4, <2>5, NewLeaf
  <2>7. <<next.node, p>> \in Trees(Grown(store, next), other) /\ next.made = {}
    BY <2>1, <2>2, <2>3, <2>6
  <2>8. Planted(store, other, p, next)
    BY <2>7 DEF Planted
  <2> QED BY <1>5, <2>8 DEF other
<1>9. CASE Rest(path, c) # <<>>
  <2>1. Confined(map, p, path)
    <3> SUFFICES ASSUME NEW n \in Ends(p), map[p \o n] # NoNode PROVE Beyond(n, path)
      BY DEF Confined
    <3>1. n = path /\ path = path \o <<>> /\ <<>> \in Path
      BY <1>1, <1>2, Empty
    <3> QED BY <3>1 DEF Beyond
  <2>2. ForkOf(store, map, p, path, "leaf", node.value)
    BY <1>1, <1>3, <1>4 DEF ForkOf
  <2>3. Planted(store, Updated(map, p \o m, value), p, next)
    BY <1>2, <1>3, <1>7, <1>9, <2>1, <2>2, AddPairForks
  <2> QED BY <1>5, <2>3
<1> QED BY <1>8, <1>9

\* put goes on below an extension, or leaves its path.
LEMMA AddToExtension ==
  ASSUME NEW store, NEW map \in Maps, NEW p \in Path, NEW m \in Ends(p), NEW value \in Value,
         NEW node, ExtensionAt(Trees(store, map), map, node, p),
         \A q \in Path : \A child : \A r \in Ends(q) :
             Len(r) < Len(m) /\ Holds(store, map, child, q) => Adds(store, map, value, child, q, r)
  PROVE  Planted(store, Updated(map, p \o m, value), p,
                 AddNode(store, Add(store, value), node, m, value))
<1>1. PICK path \in Path \ {<<>>} : \E child :
         /\ node = Pair(path, "extension", child)
         /\ DecodeType(child) = "branch"
         /\ <<child, p \o path>> \in Trees(store, map)
         /\ \A n \in Ends(p) : map[p \o n] # NoNode => \E r \in Path : n = path \o r
  BY DEF ExtensionAt
<1>2. PICK child :
         /\ node = Pair(path, "extension", child)
         /\ DecodeType(child) = "branch"
         /\ <<child, p \o path>> \in Trees(store, map)
         /\ \A n \in Ends(p) : map[p \o n] # NoNode => \E r \in Path : n = path \o r
  BY <1>1
<1>3. /\ DecodeType(node) = "extension" /\ RemovePrefix(node.path) = path
      /\ node.value = child /\ node # NoNode
  BY <1>2, PairFacts
<1>4. Confined(map, p, path)
  BY <1>2 DEF Confined, Beyond
<1>5. m \in Path /\ Len(path) + 1 < Len(m) /\ Len(path) \in Nat /\ Len(m) \in Nat
  BY <1>2, ExtensionTree, PathFacts DEF Ends
<1> DEFINE add == Add(store, value)
           next == AddPair(store, add, "extension", node, m, value)
           c == CommonRange(path, m)
           f == First(path, c)
           current == Rest(m, c)
<1>6. AddNode(store, add, node, m, value) = next
  BY <1>3 DEF AddNode
<1>7. /\ Splits(path, f, Rest(path, c)) /\ Splits(m, f, current)
      /\ c \in 0..Len(path) /\ c \in 0..Len(m)
  BY <1>5, CommonRangeFacts
<1>8. current # <<>>
  <2>1. current \in Path /\ Len(current) = Len(m) - c
    BY <1>5, <1>7, SplitPath
  <2>2. Len(current) # 0
    BY <1>5, <1>7, <2>1
  <2> HIDE DEF current
  <2> QED BY <2>1, <2>2, PathFacts
<1>9. CASE Rest(path, c) # <<>>
  <2>1. ForkOf(store, map, p, path, "extension", node.value)
    BY <1>2, <1>3 DEF ForkOf
  <2>2. Planted(store, Updated(map, p \o m, value), p, next)
    BY <1>3, <1>4, <1>8, <1>9, <2>1, AddPairForks
  <2> QED BY <1>6, <2>2
<1>10. CASE Rest(path, c) = <<>>
  <2> DEFINE below == add[current][child]
             other == Updated(map, p \o m, value)
  <2>1. f = path /\ f # <<>>
    <3> HIDE DEF f
    <3>1. path = f \o <<>> /\ f \in Path
      BY <1>7, <1>10 DEF Splits
    <3> QED BY <3>1, Empty
  <2>2. Node(store, child) = child
    BY <1>2, TreeFacts DEF Node
  <2>3. AddBelow(store, add, "extension", node, current, value) = below
    BY <1>3, <2>2 DEF AddBelow
  <2>4. next = [node |-> Pair(path, "extension", below.node), made |-> below.made \cup {below.node}]
    BY <1>3, <1>10, <2>1, <2>3 DEF AddPair
  <2>5. current \in Path /\ m = path \o current
    BY <1>7, <2>1 DEF Splits
  <2>6. current \in Ends(p \o path) /\ Len(current) < Len(m) /\ (p \o path) \o current = p \o m
    <3> HIDE DEF current
    <3>1. Len(m) = Len(path) + Len(current) /\ Len(path) # 0 /\ Len(current) \in Nat
      BY <2>5, Concat, PathFacts
    <3>2. current \in Ends(p \o path)
      BY <2>5, EndsBelow
    <3>3. (p \o path) \o current = p \o m
      BY <2>5, Associative
    <3> QED BY <1>5, <3>1, <3>2, <3>3
  <2>7. p \o path \in Path
    BY Concat
  <2>8. Adds(store, map, value, child, p \o path, current)
    <3>1. Holds(store, map, child, p \o path)
      BY <1>2 DEF Holds
    <3> HIDE DEF current
    <3> QED BY <2>6, <2>7, <3>1
  <2>9. /\ Planted(store, other, p \o path, below)
        /\ DecodeType(below.node) = "branch"
    <3> HIDE DEF current
    <3>1. Updated(map, (p \o path) \o current, value) = other
      BY <2>6
    <3> HIDE DEF other
    <3> QED BY <1>2, <2>8, <3>1 DEF Adds
  <2>10. Confined(other, p, path)
    <3>1. Splits(path, path, <<>>) /\ Splits(m, path, current)
      BY <2>5, Empty DEF Splits
    <3> HIDE DEF current
    <3> QED BY <1>4, <3>1, ConfinedAbove
  <2> HIDE DEF next, other, below
  <2>11. Planted(store, other, p, next)
    <3>1. Planted(store, other, p,
             IF path = <<>> THEN below
             ELSE [node |-> Pair(path, "extension", below.node), made |-> below.made \cup {below.node}])
      BY <2>9, <2>10, Wrap
    <3> QED BY <2>4, <3>1
  <2> QED BY <1>6, <2>11 DEF other
<1> QED BY <1>9, <1>10

\* put goes on below a branch.
LEMMA AddToBranch ==
  ASSUME NEW store, NEW map \in Maps, NEW p \in Path, NEW m \in Ends(p), NEW value \in Value,
         NEW node, <<node, p>> \in Trees(store, map), DecodeType(node) = "branch",
         \A q \in Path : \A child : \A r \in Ends(q) :
             Len(r) < Len(m) /\ Holds(store, map, child, q) => Adds(store, map, value, child, q, r)
  PROVE  LET result == AddNode(store, Add(store, value), node, m, value)
         IN  Planted(store, Updated(map, p \o m, value), p, result)
               /\ DecodeType(result.node) = "branch"
<1>1. PICK slots :
         /\ node = Branch(slots, NoNode)
         /\ slots = [i \in Nibble |-> slots[i]]
         /\ \A i \in Nibble : \/ slots[i] = NoNode /\ Vacant(map, p \o <<i>>)
                              \/ slots[i] # NoNode /\ <<slots[i], p \o <<i>>>> \in Trees(store, map)
         /\ \E i, j \in Nibble : i # j /\ slots[i] # NoNode /\ slots[j] # NoNode
  BY BranchTree DEF BranchAt
<1>2. node.slots = slots /\ node.value = NoNode
  BY <1>1, BranchFacts
<1> DEFINE add == Add(store, value)
           i == m[1]
           r == Tail(m)
           q == p \o <<i>>
           was == slots[i]
           below == add[r][was]
           now == [slots EXCEPT ![i] = below.node]
           result == AddNode(store, add, node, m, value)
           other == Updated(map, p \o m, value)
           s == Grown(store, result)
<1>3. m \in Path /\ m # <<>> /\ Len(m) \in Nat
  <2>1. m \in Path /\ Len(m) \in Nat /\ 1 < Len(m)
    BY BranchTree, PathFacts DEF Ends
  <2>2. Len(m) # 0
    BY <2>1
  <2> QED BY <2>1, <2>2, PathFacts
<1>4. i \in Nibble /\ r \in Path /\ m = <<i>> \o r /\ Len(r) < Len(m)
  BY <1>3, HeadAndTail
<1>5. Holds(store, map, was, q) /\ Node(store, was) = was
  <2>1. CASE was = NoNode
    <3>1. Vacant(map, q)
      BY <1>1, <1>4, <2>1
    <3>2. Node(store, was) = was
      BY <2>1 DEF Node
    <3> HIDE DEF was, q
    <3> QED BY <2>1, <3>1, <3>2 DEF Holds
  <2>2. CASE was # NoNode
    <3>1. <<was, q>> \in Trees(store, map)
      BY <1>1, <1>4, <2>2
    <3> HIDE DEF was, q
    <3>2. was \in store
      BY <3>1, TreeFacts
    <3> QED BY <3>1, <3>2 DEF Holds, Node
  <2> QED BY <2>1, <2>2
<1>6. result = [node |-> Branch(now, NoNode), made |-> below.made \cup {below.node}]
  BY <1>2, <1>3, <1>5 DEF AddNode, AddBranch
<1> HIDE DEF i, r, was, result
<1>7. q \in Path /\ r \in Ends(q) /\ q \o r = p \o m
  <2>1. <<i>> \in Path
    BY <1>4, Single
  <2>2. q \in Path
    BY <2>1, Concat
  <2>3. r \in Ends(q)
    BY <1>4, <2>1, EndsBelow
  <2>4. q \o r = p \o m
    BY <1>4, <2>1, Associative
  <2> QED BY <2>2, <2>3, <2>4
<1>8. Planted(store, other, q, below)
  <2> HIDE DEF q, other
  <2>1. Adds(store, map, value, was, q, r)
    BY <1>4, <1>5, <1>7
  <2>2. Planted(store, Updated(map, q \o r, value), q, below)
    BY <2>1 DEF Adds
  <2>3. Updated(map, q \o r, value) = other
    BY <1>7 DEF other
  <2> QED BY <2>2, <2>3
<1> HIDE DEF below
<1>9. /\ store \subseteq s /\ Grown(store, below) \subseteq s /\ Branch(now, NoNode) \in s
  <2> HIDE DEF now
  <2> QED BY <1>6 DEF Grown
<1>10. /\ <<below.node, q>> \in Trees(s, other) /\ below.node # NoNode
       /\ \A z \in below.made : \E e : <<z, e>> \in Trees(s, other)
  <2> HIDE DEF q, other, s
  <2>1. Trees(Grown(store, below), other) \subseteq Trees(s, other)
    BY <1>9, TreesGrow
  <2>2. <<below.node, q>> \in Trees(s, other)
    BY <1>8, <2>1 DEF Planted
  <2>3. below.node # NoNode
    BY <2>2, TreeFacts, ChildrenFacts
  <2> QED BY <1>8, <2>1, <2>2, <2>3 DEF Planted
<1>11. ASSUME NEW j \in Nibble, j # i PROVE Agree(map, other, p \o <<j>>)
  <2> SUFFICES ASSUME NEW n \in Ends(p \o <<j>>)
               PROVE  map[(p \o <<j>>) \o n] = other[(p \o <<j>>) \o n]
    BY DEF Agree
  <2>1. <<j>> \in Path /\ n \in Path
    BY Single DEF Ends
  <2>2. <<j>> \o n \in Ends(p)
    BY <2>1, EndsBelow
  <2>3. p \o (<<j>> \o n) = (p \o <<j>>) \o n
    BY <2>1, Associative
  <2>4. <<j>> \o n # m
    BY <1>4, <1>11, <2>1, TailOf
  <2> DEFINE e == <<j>> \o n
  <2>5. e \in Ends(p) /\ e # m
    BY <2>2, <2>4
  <2>6. p \o e = (p \o <<j>>) \o n
    BY <2>3
  <2> HIDE DEF e
  <2>7. other[p \o e] = map[p \o e]
    BY <2>5, UpdatedBelow
  <2> HIDE DEF other
  <2> QED BY <2>6, <2>7
<1>12. now = [j \in Nibble |-> now[j]] /\ now[i] = below.node
       /\ \A j \in Nibble : j # i => now[j] = slots[j]
  <2>1. i \in DOMAIN slots
    BY <1>1, <1>4
  <2>2. DOMAIN now = Nibble
    BY <1>1
  <2> QED BY <1>1, <2>1, <2>2
<1> HIDE DEF now, other, s
<1>13. ASSUME NEW j \in Nibble
       PROVE  \/ now[j] = NoNode /\ Vacant(other, p \o <<j>>)
              \/ now[j] # NoNode /\ <<now[j], p \o <<j>>>> \in Trees(s, other)
  <2>1. CASE j = i
    <3>1. <<below.node, p \o <<i>>>> \in Trees(s, other)
      BY <1>10
    <3> QED BY <1>10, <1>12, <2>1, <3>1
  <2>2. CASE j # i /\ slots[j] = NoNode
    <3>1. Vacant(map, p \o <<j>>) /\ Agree(map, other, p \o <<j>>)
      BY <1>1, <1>11, <2>2
    <3>2. Vacant(other, p \o <<j>>)
      BY <3>1 DEF Vacant, Agree
    <3> QED BY <1>12, <2>2, <3>2
  <2>3. CASE j # i /\ slots[j] # NoNode
    <3> DEFINE e == p \o <<j>>
    <3>1. <<slots[j], e>> \in Trees(store, map) /\ Agree(map, other, e)
      BY <1>1, <1>11, <2>3
    <3> HIDE DEF e
    <3>2. <<slots[j], e>> \in Trees(store, other)
      BY <3>1, TreesFrame
    <3>3. <<slots[j], e>> \in Trees(s, other)
      BY <1>9, <3>2, TreesGrow
    <3> QED BY <1>12, <2>3, <3>3 DEF e
  <2> QED BY <2>1, <2>2, <2>3
<1>14. \E a, b \in Nibble : a # b /\ now[a] # NoNode /\ now[b] # NoNode
  <2>1. PICK a \in Nibble, b \in Nibble : a # b /\ slots[a] # NoNode /\ slots[b] # NoNode
    BY <1>1
  <2>2. now[a] # NoNode /\ now[b] # NoNode
    BY <1>10, <1>12, <2>1
  <2> QED BY <2>1, <2>2
<1>15. <<Branch(now, NoNode), p>> \in Trees(s, other)
  <2>1. PICK a \in Nibble, b \in Nibble : a # b /\ now[a] # NoNode /\ now[b] # NoNode
    BY <1>14
  <2>2. now = [j \in Nibble |-> now[j]]
    BY <1>12
  <2>3. Branch(now, NoNode) \in s
    BY <1>9
  <2> QED BY <1>13, <2>1, <2>2, <2>3, NewBranch
<1>16. \A z \in result.made : \E e : <<z, e>> \in Trees(s, other)
  BY <1>6, <1>10
<1>17. Planted(store, other, p, result)
  BY <1>6, <1>15, <1>16 DEF Planted, s
<1>18. DecodeType(result.node) = "branch"
  BY <1>6, BranchFacts
<1> QED BY <1>17, <1>18 DEF result, other

LEMMA AddStep ==
  ASSUME NEW store, Closed(store), NEW map \in Maps, NEW p \in Path, NEW m \in Ends(p),
         NEW value \in Value, NEW node, Holds(store, map, node, p),
         \A q \in Path : \A child : \A r \in Ends(q) :
             Len(r) < Len(m) /\ Holds(store, map, child, q) => Adds(store, map, value, child, q, r)
  PROVE  Adds(store, map, value, node, p, m)
<1> DEFINE result == AddNode(store, Add(store, value), node, m, value)
           other == Updated(map, p \o m, value)
<1>1. node \in store \cup {NoNode} /\ m \in Remainder
  BY TreeFacts, RemainderIsEnd DEF Holds
<1>2. Add(store, value)[m][node] = result
  BY <1>1, AddFacts
<1>3. CASE node = NoNode /\ Vacant(map, p)
  <2>1. Planted(store, other, p, result)
    BY <1>3, AddToNothing
  <2>2. DecodeType(node) = "none"
    BY <1>3, NoNodeFacts
  <2> QED BY <1>2, <2>1, <2>2 DEF Adds
<1>4. CASE <<node, p>> \in Trees(store, map)
  <2>1. ~Vacant(map, p) /\ NodeAt(Trees(store, map), map, node, p)
    BY <1>4, TreeFacts
  <2>2. CASE DecodeType(node) = "branch"
    <3>1. Planted(store, other, p, result) /\ DecodeType(result.node) = "branch"
      BY <1>4, <2>2, AddToBranch
    <3> QED BY <1>2, <3>1 DEF Adds
  <2>3. CASE DecodeType(node) # "branch" /\ LeafAt(map, node, p)
    <3>1. Planted(store, other, p, result)
      BY <2>1, <2>3, AddToLeaf
    <3> QED BY <1>2, <2>3, <3>1 DEF Adds
  <2>4. CASE DecodeType(node) # "branch" /\ ExtensionAt(Trees(store, map), map, node, p)
    <3>1. Planted(store, other, p, result)
      BY <2>4, AddToExtension
    <3> QED BY <1>2, <2>4, <3>1 DEF Adds
  <2>5. ASSUME BranchAt(Trees(store, map), map, node, p) PROVE DecodeType(node) = "branch"
    BY <2>5, BranchFacts DEF BranchAt
  <2> QED BY <2>1, <2>2, <2>3, <2>4, <2>5 DEF NodeAt
<1> QED BY <1>3, <1>4 DEF Holds

\* put makes a trie that holds the map with the new value under the key.
LEMMA AddGrows ==
  ASSUME NEW store, Closed(store), NEW map \in Maps, NEW p \in Path, NEW m \in Ends(p),
         NEW value \in Value, NEW node, Holds(store, map, node, p)
  PROVE  Adds(store, map, value, node, p, m)
<1> DEFINE Right(n) == \A q \in Path : \A child : \A r \in Ends(q) :
               Len(r) = n /\ Holds(store, map, child, q) => Adds(store, map, value, child, q, r)
           T == {n \in Nat : ~Right(n)}
<1>1. ASSUME T # {} PROVE FALSE
  <2>1. PICK n \in T : \A j \in T : n <= j
    BY <1>1, Least
  <2>2. PICK q \in Path : \E child : \E r \in Ends(q) :
          Len(r) = n /\ Holds(store, map, child, q) /\ ~Adds(store, map, value, child, q, r)
    BY <2>1
  <2>3. PICK child : \E r \in Ends(q) :
          Len(r) = n /\ Holds(store, map, child, q) /\ ~Adds(store, map, value, child, q, r)
    BY <2>2
  <2>4. PICK r \in Ends(q) :
          Len(r) = n /\ Holds(store, map, child, q) /\ ~Adds(store, map, value, child, q, r)
    BY <2>3
  <2>5. ASSUME NEW q2 \in Path, NEW child2, NEW r2 \in Ends(q2), Len(r2) < Len(r),
               Holds(store, map, child2, q2)
        PROVE  Adds(store, map, value, child2, q2, r2)
    <3>1. Len(r2) \in Nat
      BY PathFacts DEF Ends
    <3>2. Len(r2) \notin T
      BY <2>1, <2>4, <2>5, <3>1
    <3> QED BY <2>5, <3>1, <3>2
  <2> HIDE DEF T
  <2>6. Adds(store, map, value, child, q, r)
    BY <2>4, <2>5, AddStep
  <2> QED BY <2>4, <2>6
<1>2. Len(m) \in Nat
  BY PathFacts DEF Ends
<1>3. Right(Len(m))
  BY <1>1, <1>2
<1> QED BY <1>3

-----------------------------------------------------------------------------
(***************************************************************************)
(* The canonical trie: where keys part.                                    *)
(***************************************************************************)

LEMMA AppendFacts ==
  ASSUME NEW p \in Path, NEW i \in Nibble
  PROVE  /\ Append(p, i) = p \o <<i>> /\ Append(p, i) \in Path
         /\ Len(Append(p, i)) = Len(p) + 1
<1>1. Append(p, i) \in Path /\ Len(Append(p, i)) = Len(p) + 1
      /\ \A j \in 1..Len(p) + 1 : Append(p, i)[j] = IF j <= Len(p) THEN p[j] ELSE i
  BY AppendProperties DEF Path
<1>2. <<i>> \in Path /\ Len(<<i>>) = 1 /\ <<i>>[1] = i /\ Len(p) \in Nat
  BY Single, PathFacts
<1> DEFINE a == Append(p, i)
           c == p \o <<i>>
<1>3. /\ c \in Path /\ Len(c) = Len(p) + 1
      /\ \A j \in 1..Len(p) : c[j] = p[j]
      /\ c[Len(p) + 1] = i
  BY <1>2, Concat
<1> HIDE DEF a, c
<1>4. ASSUME NEW j \in 1..Len(p) + 1 PROVE a[j] = c[j]
  <2>1. CASE j <= Len(p)
    BY <1>1, <1>2, <1>3, <2>1 DEF a
  <2>2. CASE j = Len(p) + 1
    <3>1. ~(Len(p) + 1 <= Len(p))
      BY <1>2
    <3> QED BY <1>1, <1>3, <2>2, <3>1 DEF a
  <2> QED BY <1>2, <2>1, <2>2
<1>5. a \in Path /\ Len(a) = Len(p) + 1
  BY <1>1 DEF a
<1>6. a = c
  BY <1>3, <1>4, <1>5, PathFacts
<1> QED BY <1>5, <1>6 DEF a, c

LEMMA PrefixFacts ==
  ASSUME NEW q \in Path, NEW k \in Path, IsPrefix(q, k)
  PROVE  /\ Len(q) <= Len(k)
         /\ \A i \in 1..Len(q) : k[i] = q[i]
         /\ Rest(k, Len(q)) \in Path
         /\ Splits(k, q, Rest(k, Len(q)))
         /\ q \in Prefixes(k)
<1> DEFINE r == Rest(k, Len(q))
<1>1. r \in Path /\ k = q \o r
  BY PrefixIsBeginning
<1>2. Splits(k, q, r)
  BY <1>1 DEF Splits
<1>3. Len(q) <= Len(k) /\ Len(q) \in Nat /\ Len(k) \in Nat
  BY PathFacts DEF IsPrefix
<1> HIDE DEF r
<1>4. \A i \in 1..Len(q) : k[i] = q[i]
  BY <1>1, Concat
<1>5. q = SubSeq(k, 1, Len(q))
  <2>1. SubSeq(q, 1, Len(q)) = q
    BY SubSeqFull DEF Path
  <2> QED BY <2>1 DEF IsPrefix
<1>6. q \in Prefixes(k)
  <2> DEFINE l == Len(q)
  <2>1. l \in 0..Len(k) /\ q = SubSeq(k, 1, l)
    BY <1>3, <1>5
  <2> HIDE DEF l
  <2> QED BY <2>1 DEF Prefixes
<1> QED BY <1>1, <1>2, <1>3, <1>4, <1>6 DEF r

LEMMA BelowFacts ==
  ASSUME NEW map, NEW p \in Path
  PROVE  /\ \A m \in Ends(p) : map[p \o m] # NoNode => p \o m \in Below(map, p)
         /\ \A k \in Below(map, p) : /\ k \in Key /\ k \in Path /\ map[k] # NoNode
                                     /\ IsPrefix(p, k)
                                     /\ Splits(k, p, Rest(k, Len(p)))
                                     /\ Rest(k, Len(p)) \in Ends(p)
         /\ Below(map, p) = {} <=> Vacant(map, p)
<1>1. ASSUME NEW m \in Ends(p), map[p \o m] # NoNode PROVE p \o m \in Below(map, p)
  <2> DEFINE k == p \o m
  <2>1. k \in Key /\ k \in Path /\ m \in Path
    BY KeyFacts DEF Ends
  <2>2. IsPrefix(p, k)
    BY <2>1, PrefixIsBeginning
  <2> HIDE DEF k
  <2>3. k \in Below(map, p)
    BY <1>1, <2>1, <2>2 DEF Below, k
  <2> QED BY <2>3 DEF k
<1>2. ASSUME NEW k \in Below(map, p)
      PROVE  /\ k \in Key /\ k \in Path /\ map[k] # NoNode
             /\ IsPrefix(p, k)
             /\ Splits(k, p, Rest(k, Len(p)))
             /\ Rest(k, Len(p)) \in Ends(p)
  <2>1. k \in Key /\ k \in Path /\ map[k] # NoNode /\ IsPrefix(p, k)
    BY KeyFacts DEF Below
  <2>2. Splits(k, p, Rest(k, Len(p)))
    BY <2>1, PrefixFacts
  <2>3. Rest(k, Len(p)) \in Ends(p)
    BY <2>1, <2>2 DEF Splits, Ends
  <2> QED BY <2>1, <2>2, <2>3
<1>3. ASSUME NEW k \in Below(map, p) PROVE ~Vacant(map, p)
  <2>1. map[p \o Rest(k, Len(p))] # NoNode
    BY <1>2 DEF Splits
  <2> QED BY <1>2, <2>1 DEF Vacant
<1>4. ASSUME ~Vacant(map, p) PROVE Below(map, p) # {}
  BY <1>1, <1>4 DEF Vacant
<1> QED BY <1>1, <1>2, <1>3, <1>4

\* Keys part in one place only.
LEMMA PartOnce ==
  ASSUME NEW keys \in SUBSET Key, NEW q \in Path, NEW r \in Path,
         PartAt(keys, q), PartAt(keys, r), Len(q) <= Len(r)
  PROVE  q = r
<1>1. Len(q) \in Nat /\ Len(r) \in Nat /\ keys \subseteq Path
  BY PathFacts, KeyFacts
<1>2. PICK k \in keys, m \in keys : k[Len(q) + 1] # m[Len(q) + 1]
  BY DEF PartAt
<1>3. ASSUME NEW e \in keys
      PROVE  /\ \A i \in 1..Len(q) : e[i] = q[i]
             /\ \A i \in 1..Len(r) : e[i] = r[i]
  BY <1>1, PrefixFacts DEF PartAt
<1>4. Len(q) = Len(r)
  <2> SUFFICES ASSUME Len(q) < Len(r) PROVE FALSE
    BY <1>1
  <2>1. Len(q) + 1 \in 1..Len(r)
    BY <1>1
  <2> QED BY <1>2, <1>3, <2>1
<1>5. \A i \in 1..Len(q) : q[i] = r[i]
  BY <1>2, <1>3, <1>4
<1> QED BY <1>4, <1>5, PathFacts

LEMMA PartingIs ==
  ASSUME NEW keys \in SUBSET Key, NEW q \in Path, PartAt(keys, q)
  PROVE  Parting(keys) = q
<1>1. PICK k \in keys : k \in Path /\ IsPrefix(q, k)
  BY KeyFacts DEF PartAt
<1>2. q \in UNION {Prefixes(e) : e \in keys}
  BY <1>1, PrefixFacts
<1> DEFINE r == Parting(keys)
<1>3. r \in UNION {Prefixes(e) : e \in keys} /\ PartAt(keys, r)
  BY <1>2 DEF Parting
<1> HIDE DEF r
<1>4. r \in Path
  <2>1. PICK e \in keys : r \in Prefixes(e)
    BY <1>3
  <2>2. PICK l \in 0..Len(e) : r = SubSeq(e, 1, l)
    BY <2>1 DEF Prefixes
  <2>3. e \in Path
    BY KeyFacts
  <2> QED BY <2>2, <2>3, SplitPath DEF First
<1>5. Len(q) \in Nat /\ Len(r) \in Nat
  BY <1>4, PathFacts
<1>6. q = r
  BY <1>3, <1>4, <1>5, PartOnce
<1> QED BY <1>6 DEF r

\* Two keys part somewhere, after all they share.
LEMMA PartingFacts ==
  ASSUME NEW keys \in SUBSET Key, NEW a \in keys, NEW b \in keys, a # b,
         NEW p \in Path, \A k \in keys : IsPrefix(p, k)
  PROVE  /\ Parting(keys) \in Path
         /\ PartAt(keys, Parting(keys))
         /\ Len(p) <= Len(Parting(keys))
<1>1. keys \subseteq Path /\ Len(a) = Len(b) /\ Len(a) \in Nat /\ Len(p) \in Nat
  BY KeyFacts, PathFacts
<1> DEFINE T == {i \in 1..Len(a) : \E k \in keys : k[i] # a[i]}
<1>2. T # {} /\ T \in SUBSET Nat
  <2>1. \E i \in 1..Len(a) : a[i] # b[i]
    BY <1>1, PathFacts
  <2> QED BY <1>1, <2>1
<1>3. PICK i \in T : \A j \in T : i <= j
  BY <1>2, Least
<1>4. i \in 1..Len(a) /\ \E k \in keys : k[i] # a[i]
  BY <1>3
<1>5. \A j \in 1..Len(a) : \A k \in keys : j < i => k[j] = a[j]
  BY <1>3
<1> HIDE DEF T
<1> DEFINE q == First(a, i - 1)
<1>6. i - 1 \in 0..Len(a) /\ (i - 1) + 1 = i
  BY <1>1, <1>4
<1>7. q \in Path /\ Len(q) = i - 1 /\ \A j \in 1..(i - 1) : q[j] = a[j]
  BY <1>1, <1>6, SplitPath
<1>8. ASSUME NEW k \in keys PROVE IsPrefix(q, k)
  <2>1. k \in Path /\ i - 1 \in 0..Len(k) /\ Len(k) = Len(a)
    BY <1>1, <1>6, KeyFacts
  <2>2. /\ First(k, i - 1) \in Path /\ Len(First(k, i - 1)) = i - 1
        /\ \A j \in 1..(i - 1) : First(k, i - 1)[j] = k[j]
        /\ Rest(k, i - 1) \in Path
        /\ k = First(k, i - 1) \o Rest(k, i - 1)
    BY <2>1, SplitPath
  <2>3. \A j \in 1..(i - 1) : k[j] = a[j]
    BY <1>1, <1>4, <1>5
  <2>4. First(k, i - 1) = q
    <3> HIDE DEF q
    <3> QED BY <1>7, <2>2, <2>3, PathFacts
  <2> DEFINE r == Rest(k, i - 1)
  <2>5. k = q \o r /\ r \in Path
    BY <2>2, <2>4
  <2> HIDE DEF q, r
  <2> QED BY <1>7, <2>1, <2>5, PrefixIsBeginning
<1> HIDE DEF q
<1>9. PartAt(keys, q)
  BY <1>4, <1>6, <1>7, <1>8 DEF PartAt
<1>10. Parting(keys) = q
  BY <1>7, <1>9, PartingIs
<1>11. Len(p) <= Len(q)
  <2> SUFFICES ASSUME i <= Len(p) PROVE FALSE
    BY <1>1, <1>4, <1>7
  <2>1. PICK k \in keys : k[i] # a[i]
    BY <1>4
  <2>2. k[i] = p[i] /\ a[i] = p[i]
    BY <1>1, <1>4, PrefixFacts
  <2> QED BY <2>1, <2>2
<1> QED BY <1>7, <1>9, <1>10, <1>11

-----------------------------------------------------------------------------
(***************************************************************************)
(* The canonical trie: its recursion, and that it is the only one.         *)
(***************************************************************************)

\* The positions the canonical trie can have nodes at.
Tops(map) == UNION {Prefixes(k) : k \in Below(map, <<>>)}

LEMMA TopsFacts ==
  ASSUME NEW map, NEW p \in Path
  PROVE  p \in Tops(map) <=> ~Vacant(map, p)
<1>1. <<>> \in Path
  BY Empty
<1>2. ASSUME p \in Tops(map) PROVE ~Vacant(map, p)
  <2>1. PICK k \in Below(map, <<>>) : p \in Prefixes(k)
    BY <1>2 DEF Tops
  <2>2. k \in Key /\ k \in Path /\ map[k] # NoNode
    BY <1>1, <2>1, BelowFacts
  <2>3. PICK l \in 0..Len(k) : p = First(k, l)
    BY <2>1 DEF Prefixes, First
  <2>4. Rest(k, l) \in Path /\ k = p \o Rest(k, l)
    BY <2>2, <2>3, SplitPath
  <2>5. IsPrefix(p, k)
    BY <2>2, <2>4, PrefixIsBeginning
  <2>6. k \in Below(map, p)
    BY <2>2, <2>5 DEF Below
  <2> QED BY <2>6, BelowFacts
<1>3. ASSUME ~Vacant(map, p) PROVE p \in Tops(map)
  <2>1. PICK k \in Below(map, p) : k \in Key /\ k \in Path /\ map[k] # NoNode /\ IsPrefix(p, k)
    BY <1>3, BelowFacts
  <2>2. p \in Prefixes(k)
    BY <2>1, PrefixFacts
  <2>3. IsPrefix(<<>>, k)
    <3>1. k = <<>> \o k
      BY <2>1, Empty
    <3> QED BY <1>1, <2>1, <3>1, PrefixIsBeginning
  <2>4. k \in Below(map, <<>>)
    BY <2>1, <2>3 DEF Below
  <2> QED BY <2>2, <2>4 DEF Tops
<1> QED BY <1>2, <1>3

LEMMA TopsArePaths ==
  ASSUME NEW map, NEW p \in Tops(map)
  PROVE  p \in Path /\ Len(p) \in Nat /\ \A k \in Key : Len(p) <= Len(k)
<1>1. PICK k \in Below(map, <<>>) : p \in Prefixes(k)
  BY DEF Tops
<1>2. k \in Key /\ k \in Path /\ Len(k) \in Nat
  BY KeyFacts DEF Below
<1>3. PICK l \in 0..Len(k) : p = First(k, l)
  BY <1>1 DEF Prefixes, First
<1>4. p \in Path /\ Len(p) = l
  BY <1>2, <1>3, SplitPath
<1>5. \A m \in Key : Len(m) = Len(k)
  BY <1>2, KeyFacts
<1> QED BY <1>2, <1>3, <1>4, <1>5

LEMMA CanonicalSame ==
  ASSUME NEW map, NEW p \in Tops(map), NEW f, NEW g,
         \A q \in Tops(map) : Len(p) < Len(q) => f[q] = g[q]
  PROVE  CanonicalNode(map, f, p) = CanonicalNode(map, g, p)
<1> DEFINE keys == Below(map, p)
           parting == Parting(keys)
<1>1. p \in Path /\ Len(p) \in Nat
  BY TopsArePaths
<1>2. keys \in SUBSET Key /\ \A k \in keys : IsPrefix(p, k)
  BY DEF Below
<1>3. keys # {}
  BY <1>1, TopsFacts, BelowFacts
<1>4. CASE \E k \in Key : keys = {k}
  BY <1>4 DEF CanonicalNode
<1>5. CASE ~(\E k \in Key : keys = {k})
  <2>1. PICK a \in keys : TRUE
    BY <1>3
  <2>2. PICK b \in keys : a # b
    BY <1>2, <1>5
  <2> HIDE DEF keys
  <2>3. parting \in Path /\ Len(p) <= Len(parting) /\ Len(parting) \in Nat
    <3>1. parting \in Path /\ Len(p) <= Len(parting)
      BY <1>1, <1>2, <2>2, PartingFacts
    <3> QED BY <3>1, PathFacts
  <2> HIDE DEF parting
  <2>4. ASSUME NEW i \in Nibble, Below(map, Append(parting, i)) # {}
        PROVE  f[Append(parting, i)] = g[Append(parting, i)]
    <3> DEFINE q == Append(parting, i)
    <3>1. q \in Path /\ Len(q) = Len(parting) + 1
      BY <2>3, AppendFacts
    <3>2. Len(p) < Len(q)
      BY <1>1, <2>3, <3>1
    <3> HIDE DEF q
    <3>3. Below(map, q) # {}
      BY <2>4 DEF q
    <3>4. q \in Tops(map)
      BY <3>1, <3>3, TopsFacts, BelowFacts
    <3>5. f[q] = g[q]
      BY <3>2, <3>4
    <3> QED BY <3>5 DEF q
  <2>5. CanonicalBranch(map, f, parting) = CanonicalBranch(map, g, parting)
    BY <2>4 DEF CanonicalBranch
  <2> QED BY <1>5, <2>5 DEF CanonicalNode, parting, keys
<1> QED BY <1>4, <1>5

\* The positions with at most n nibbles below them.
Low(map, n) == {p \in Tops(map) : \A k \in Key : Len(k) <= Len(p) + n}

LEMMA AllAreLow == ASSUME NEW map PROVE \E n \in Nat : Low(map, n) = Tops(map)
<1>1. CASE Key = {}
  BY <1>1 DEF Low
<1>2. CASE Key # {}
  <2>1. PICK k \in Key : TRUE
    BY <1>2
  <2>2. Len(k) \in Nat /\ \A m \in Key : Len(m) = Len(k)
    BY KeyFacts
  <2>3. \A p \in Tops(map) : Len(p) \in Nat
    BY TopsArePaths
  <2>4. Low(map, Len(k)) = Tops(map)
    BY <2>2, <2>3 DEF Low
  <2> QED BY <2>2, <2>4
<1> QED BY <1>1, <1>2

LEMMA CanonicalExists ==
  ASSUME NEW map, NEW n \in Nat
  PROVE  \E f : f = [p \in Low(map, n) |-> CanonicalNode(map, f, p)]
<1> DEFINE Has(m) == \E f : f = [p \in Low(map, m) |-> CanonicalNode(map, f, p)]
           T == {m \in Nat : ~Has(m)}
<1> SUFFICES ASSUME T # {} PROVE FALSE
  OBVIOUS
<1>1. PICK m \in T : \A j \in T : m <= j
  BY Least
<1> DEFINE Lower == IF m = 0 THEN {} ELSE Low(map, m - 1)
<1>2. \E f : \A p \in Lower : f[p] = CanonicalNode(map, f, p)
  <2>1. CASE m = 0
    BY <2>1
  <2>2. CASE m # 0
    <3>1. m - 1 \in Nat /\ m - 1 \notin T
      BY <1>1, <2>2
    <3>2. PICK f : f = [p \in Low(map, m - 1) |-> CanonicalNode(map, f, p)]
      BY <3>1
    <3>3. \A p \in Low(map, m - 1) : f[p] = CanonicalNode(map, f, p)
      BY <3>2
    <3> QED BY <2>2, <3>3
  <2> QED BY <2>1, <2>2
<1>3. PICK f : \A p \in Lower : f[p] = CanonicalNode(map, f, p)
  BY <1>2
<1> DEFINE g == [p \in Low(map, m) |-> CanonicalNode(map, f, p)]
<1>4. ASSUME NEW p \in Lower PROVE g[p] = f[p]
  <2>1. m # 0 /\ p \in Low(map, m - 1) /\ p \in Tops(map)
    BY DEF Low
  <2>2. Len(p) \in Nat /\ \A k \in Key : Len(k) \in Nat
    BY <2>1, TopsArePaths, KeyFacts
  <2>3. p \in Low(map, m)
    BY <2>1, <2>2 DEF Low
  <2> QED BY <1>3, <2>3
<1>5. ASSUME NEW p \in Low(map, m) PROVE CanonicalNode(map, f, p) = CanonicalNode(map, g, p)
  <2>1. p \in Tops(map) /\ \A k \in Key : Len(k) <= Len(p) + m
    BY DEF Low
  <2>2. \A q \in Tops(map) : Len(p) < Len(q) => f[q] = g[q]
    <3> SUFFICES ASSUME NEW q \in Tops(map), Len(p) < Len(q) PROVE f[q] = g[q]
      OBVIOUS
    <3>1. Len(p) \in Nat /\ Len(q) \in Nat
      BY <2>1, TopsArePaths
    <3>2. PICK k \in Key : Len(k) \in Nat /\ Len(q) <= Len(k)
      <4>1. PICK k \in Key : TRUE
        BY DEF Tops, Below
      <4> QED BY <4>1, TopsArePaths, KeyFacts
    <3>3. m # 0
      BY <2>1, <3>1, <3>2
    <3>4. \A e \in Key : Len(e) \in Nat
      BY KeyFacts
    <3>5. \A e \in Key : Len(e) <= Len(q) + (m - 1)
      BY <1>1, <2>1, <3>1, <3>4
    <3>6. q \in Lower
      BY <3>3, <3>5 DEF Low
    <3> QED BY <1>4, <3>6
  <2> HIDE DEF g, Has, T, Lower
  <2> QED BY <2>1, <2>2, CanonicalSame
<1>6. g = [p \in Low(map, m) |-> CanonicalNode(map, g, p)]
  <2> DEFINE h == [p \in Low(map, m) |-> CanonicalNode(map, g, p)]
  <2>1. \A p \in Low(map, m) : g[p] = h[p]
    BY <1>5
  <2> QED BY <2>1
<1>7. Has(m)
  BY <1>6
<1> QED BY <1>1, <1>7

CanonicalTrie(map) == CHOOSE f : f = [p \in Tops(map) |-> CanonicalNode(map, f, p)]

\* The canonical trie is what its definition says.
LEMMA CanonicalFacts ==
  ASSUME NEW map
  PROVE  /\ \A p \in Tops(map) :
              CanonicalTrie(map)[p] = CanonicalNode(map, CanonicalTrie(map), p)
         /\ Canonical(map) = IF Below(map, <<>>) = {} THEN NoNode ELSE CanonicalTrie(map)[<<>>]
<1> DEFINE trie == CanonicalTrie(map)
<1>1. \E f : f = [p \in Tops(map) |-> CanonicalNode(map, f, p)]
  BY AllAreLow, CanonicalExists
<1>2. Canonical(map) = IF Below(map, <<>>) = {} THEN NoNode ELSE trie[<<>>]
  BY DEF Canonical, CanonicalTrie, Tops
<1> HIDE DEF trie
<1>3. trie = [p \in Tops(map) |-> CanonicalNode(map, trie, p)]
  BY <1>1 DEF CanonicalTrie, trie
<1>4. \A p \in Tops(map) : trie[p] = CanonicalNode(map, trie, p)
  BY <1>3
<1> QED BY <1>2, <1>4 DEF trie

LEMMA CanonicalLeaf ==
  ASSUME NEW map, NEW p \in Path, NEW node, LeafAt(map, node, p), ~Vacant(map, p), NEW trie
  PROVE  CanonicalNode(map, trie, p) = node
<1>1. PICK path \in Ends(p) :
         /\ node = Pair(path, "leaf", map[p \o path])
         /\ \A n \in Ends(p) \ {path} : map[p \o n] = NoNode
  BY DEF LeafAt
<1> DEFINE k == p \o path
           keys == Below(map, p)
<1>2. k \in Key /\ path \in Path /\ map[k] # NoNode
  BY <1>1 DEF Vacant, Ends
<1>3. k \in keys
  BY <1>2, BelowFacts
<1>4. ASSUME NEW e \in keys PROVE e = k
  <2> DEFINE r == Rest(e, Len(p))
  <2>1. map[e] # NoNode /\ Splits(e, p, r) /\ r \in Ends(p)
    BY BelowFacts
  <2> HIDE DEF r
  <2>2. e = p \o r
    BY <2>1 DEF Splits
  <2>3. r = path
    BY <1>1, <2>1, <2>2
  <2> QED BY <2>2, <2>3
<1>5. Rest(k, Len(p)) = path
  BY <1>2, SplitConcat
<1>6. map[k] = map[p \o path]
  OBVIOUS
<1> HIDE DEF k
<1>7. keys = {k}
  BY <1>3, <1>4
<1>8. node = Pair(Rest(k, Len(p)), "leaf", map[k])
  BY <1>1, <1>5, <1>6
<1>9. (CHOOSE e \in keys : TRUE) = k
  BY <1>7
<1>10. \E e \in Key : keys = {e}
  BY <1>2, <1>7
<1> QED BY <1>8, <1>9, <1>10 DEF CanonicalNode

\* The keys below a branch part there.
LEMMA BranchParts ==
  ASSUME NEW store, NEW map, NEW node, NEW q, <<node, q>> \in Trees(store, map),
         DecodeType(node) = "branch"
  PROVE  /\ PartAt(Below(map, q), q)
         /\ ~(\E k \in Key : Below(map, q) = {k})
<1> DEFINE keys == Below(map, q)
<1>1. q \in Path /\ BranchAt(Trees(store, map), map, node, q)
  BY TreeFacts, BranchTree
<1>2. PICK i \in Nibble, j \in Nibble :
         /\ i # j
         /\ \E slots : <<slots[i], q \o <<i>>>> \in Trees(store, map)
         /\ \E slots : <<slots[j], q \o <<j>>>> \in Trees(store, map)
  BY <1>1 DEF BranchAt
<1>3. ASSUME NEW a \in Nibble, ~Vacant(map, q \o <<a>>)
      PROVE  \E k \in keys : k[Len(q) + 1] = a
  <2>1. <<a>> \in Path /\ Len(<<a>>) = 1 /\ <<a>>[1] = a
    BY Single
  <2>2. PICK r \in Ends(q \o <<a>>) : map[(q \o <<a>>) \o r] # NoNode
    BY <1>3 DEF Vacant
  <2>3. r \in Path /\ <<a>> \o r \in Ends(q) /\ <<a>> \o r \in Path
    BY <1>1, <2>1, EndsBelow DEF Ends
  <2> DEFINE m == <<a>> \o r
             k == q \o m
  <2>4. k = (q \o <<a>>) \o r
    BY <1>1, <2>1, <2>3, Associative
  <2>5. map[k] # NoNode
    BY <2>2, <2>4
  <2>6. m[1] = a /\ Len(m) = 1 + Len(r) /\ Len(r) \in Nat
    BY <2>1, <2>3, Concat, TailOf, PathFacts
  <2>7. m \in Path /\ m \in Ends(q)
    BY <2>3
  <2> HIDE DEF m
  <2>8. k \in keys
    BY <1>1, <2>5, <2>7, BelowFacts
  <2>9. k[Len(q) + 1] = m[1]
    <3>1. 1 \in 1..Len(m)
      BY <2>6
    <3> QED BY <1>1, <2>7, <3>1, Concat
  <2> QED BY <2>6, <2>8, <2>9
<1>4. ~Vacant(map, q \o <<i>>) /\ ~Vacant(map, q \o <<j>>)
  BY <1>2, TreeFacts
<1>5. PICK a \in keys, b \in keys : a[Len(q) + 1] # b[Len(q) + 1]
  BY <1>2, <1>3, <1>4
<1>6. \A k \in keys : IsPrefix(q, k)
  BY DEF Below
<1> HIDE DEF keys
<1>7. PartAt(keys, q)
  BY <1>5, <1>6 DEF PartAt
<1>8. ~(\E k \in Key : keys = {k})
  BY <1>5
<1> QED BY <1>7, <1>8 DEF keys

\* What the slots of a branch at q hold is what trie has there.
SlotsAgree(P, map, trie, q) ==
    \A child : \A i \in Nibble : <<child, q \o <<i>>>> \in P =>
        ~Vacant(map, q \o <<i>>) /\ child = trie[q \o <<i>>]

LEMMA CanonicalBranchIs ==
  ASSUME NEW P, NEW map, NEW node, NEW q \in Path, BranchAt(P, map, node, q), NEW trie,
         SlotsAgree(P, map, trie, q)
  PROVE  CanonicalBranch(map, trie, q) = node
<1>1. PICK slots :
         /\ node = Branch(slots, NoNode)
         /\ slots = [i \in Nibble |-> slots[i]]
         /\ \A i \in Nibble : \/ slots[i] = NoNode /\ Vacant(map, q \o <<i>>)
                              \/ slots[i] # NoNode /\ <<slots[i], q \o <<i>>>> \in P
  BY DEF BranchAt
<1> DEFINE slot(i) == IF Below(map, Append(q, i)) = {} THEN NoNode ELSE trie[Append(q, i)]
<1>2. ASSUME NEW i \in Nibble PROVE slots[i] = slot(i)
  <2> DEFINE r == q \o <<i>>
  <2>1. Append(q, i) = r /\ r \in Path
    BY AppendFacts
  <2>2. Below(map, r) = {} <=> Vacant(map, r)
    BY <2>1, BelowFacts
  <2>3. CASE slots[i] = NoNode /\ Vacant(map, q \o <<i>>)
    BY <2>1, <2>2, <2>3
  <2>4. CASE slots[i] # NoNode /\ <<slots[i], q \o <<i>>>> \in P
    <3>1. ~Vacant(map, r) /\ slots[i] = trie[r]
      BY <2>4 DEF SlotsAgree
    <3> HIDE DEF r
    <3> QED BY <2>1, <2>2, <3>1
  <2> QED BY <1>1, <2>3, <2>4
<1>3. slots = [i \in Nibble |-> slot(i)]
  BY <1>1, <1>2
<1> QED BY <1>1, <1>3 DEF CanonicalBranch

\* The tree of a map at a position is the canonical one.
LEMMA CanonicalStep ==
  ASSUME NEW store, NEW map, NEW node, NEW p, <<node, p>> \in Trees(store, map),
         \A child, q : <<child, q>> \in Trees(store, map) /\ Len(p) < Len(q)
                         => child = CanonicalTrie(map)[q]
  PROVE  node = CanonicalTrie(map)[p]
<1> DEFINE trie == CanonicalTrie(map)
           P == Trees(store, map)
           keys == Below(map, p)
<1>1. p \in Path /\ ~Vacant(map, p) /\ NodeAt(P, map, node, p) /\ Len(p) \in Nat
  BY TreeFacts, PathFacts
<1>2. trie[p] = CanonicalNode(map, trie, p)
  BY <1>1, TopsFacts, CanonicalFacts
<1>3. ASSUME NEW child, NEW q, <<child, q>> \in P, DecodeType(child) = "branch",
             Len(p) <= Len(q)
      PROVE  CanonicalBranch(map, trie, q) = child
  <2>1. q \in Path /\ BranchAt(P, map, child, q) /\ Len(q) \in Nat
    BY <1>3, TreeFacts, BranchTree, PathFacts
  <2>2. ASSUME NEW c, NEW i \in Nibble, <<c, q \o <<i>>>> \in P
        PROVE  ~Vacant(map, q \o <<i>>) /\ c = trie[q \o <<i>>]
    <3> DEFINE r == q \o <<i>>
    <3>1. Len(r) = Len(q) + 1
      BY <2>1, Single, Concat
    <3>2. <<c, r>> \in P
      BY <2>2
    <3> HIDE DEF r
    <3>3. Len(p) < Len(r)
      BY <1>1, <1>3, <2>1, <3>1
    <3>4. ~Vacant(map, r) /\ c = trie[r]
      BY <3>2, <3>3, TreeFacts
    <3> QED BY <3>4 DEF r
  <2> HIDE DEF trie, P
  <2>3. SlotsAgree(P, map, trie, q)
    BY <2>2 DEF SlotsAgree
  <2> QED BY <2>1, <2>3, CanonicalBranchIs
<1>4. CASE LeafAt(map, node, p)
  BY <1>1, <1>2, <1>4, CanonicalLeaf
<1>5. CASE BranchAt(P, map, node, p)
  <2>1. DecodeType(node) = "branch"
    BY <1>5, BranchFacts DEF BranchAt
  <2>2. CanonicalBranch(map, trie, p) = node
    BY <1>1, <1>3, <2>1
  <2>3. PartAt(keys, p) /\ ~(\E k \in Key : keys = {k}) /\ keys \in SUBSET Key
    BY <2>1, BranchParts DEF Below
  <2>4. Parting(keys) = p
    BY <1>1, <2>3, PartingIs
  <2> QED BY <1>2, <2>2, <2>3, <2>4 DEF CanonicalNode
<1>6. CASE ExtensionAt(P, map, node, p)
  <2>1. PICK path \in Path \ {<<>>} : \E child :
           /\ node = Pair(path, "extension", child)
           /\ DecodeType(child) = "branch"
           /\ <<child, p \o path>> \in P
           /\ \A n \in Ends(p) : map[p \o n] # NoNode => \E r \in Path : n = path \o r
    BY <1>6 DEF ExtensionAt
  <2>2. PICK child :
           /\ node = Pair(path, "extension", child)
           /\ DecodeType(child) = "branch"
           /\ <<child, p \o path>> \in P
           /\ \A n \in Ends(p) : map[p \o n] # NoNode => \E r \in Path : n = path \o r
    BY <2>1
  <2> DEFINE q == p \o path
  <2>3. /\ q \in Path /\ Len(q) = Len(p) + Len(path)
        /\ Len(path) \in Nat /\ Len(path) # 0
        /\ Rest(q, Len(p)) = path
    BY <1>1, Concat, PathFacts, SplitConcat
  <2>4. CanonicalBranch(map, trie, q) = child
    <3>1. Len(p) <= Len(q)
      BY <1>1, <2>3
    <3>2. <<child, q>> \in P
      BY <2>2
    <3> HIDE DEF q
    <3> QED BY <1>3, <2>2, <3>1, <3>2
  <2>5. ASSUME NEW k \in keys PROVE k \in Below(map, q)
    <3> DEFINE n == Rest(k, Len(p))
    <3>1. k \in Key /\ k \in Path /\ map[k] # NoNode /\ Splits(k, p, n) /\ n \in Ends(p)
      BY <1>1, BelowFacts
    <3> HIDE DEF n
    <3>2. k = p \o n
      BY <3>1 DEF Splits
    <3>3. PICK r \in Path : n = path \o r
      BY <2>2, <3>1, <3>2
    <3>4. p \o (path \o r) = (p \o path) \o r
      BY <1>1, <2>1, <3>3, Associative
    <3>5. k = q \o r
      BY <3>2, <3>3, <3>4
    <3> HIDE DEF q
    <3>6. IsPrefix(q, k)
      BY <2>3, <3>1, <3>3, <3>5, PrefixIsBeginning
    <3> QED BY <3>1, <3>6 DEF Below
  <2>6. ASSUME NEW k \in Below(map, q) PROVE k \in keys
    <3> DEFINE r == Rest(k, Len(q))
    <3>1. k \in Key /\ k \in Path /\ map[k] # NoNode /\ Splits(k, q, r)
      BY <2>3, BelowFacts
    <3> HIDE DEF r
    <3>2. r \in Path /\ k = (p \o path) \o r
      BY <3>1 DEF Splits
    <3>3. p \o (path \o r) = (p \o path) \o r
      BY <1>1, <2>1, <3>2, Associative
    <3>6. path \o r \in Path
      BY <2>1, <3>2, Concat
    <3> DEFINE e == path \o r
    <3>4. k = p \o e /\ e \in Path
      BY <3>2, <3>3, <3>6
    <3> HIDE DEF e
    <3>5. IsPrefix(p, k)
      BY <1>1, <3>1, <3>4, PrefixIsBeginning
    <3> QED BY <3>1, <3>5 DEF Below
  <2>7. keys = Below(map, q)
    BY <2>5, <2>6
  <2>8. /\ PartAt(Below(map, q), q)
        /\ ~(\E k \in Key : Below(map, q) = {k})
    <3>1. <<child, q>> \in Trees(store, map)
      BY <2>2
    <3> HIDE DEF q
    <3> QED BY <2>2, <3>1, BranchParts
  <2>9. Parting(keys) = q /\ q # p
    <3>1. keys \in SUBSET Key
      BY DEF Below
    <3> HIDE DEF keys, q
    <3> QED BY <1>1, <2>3, <2>7, <2>8, <3>1, PartingIs
  <2>10. ~(\E k \in Key : keys = {k})
    BY <2>7, <2>8
  <2> HIDE DEF q
  <2>11. trie[p] = Pair(Rest(q, Len(p)), "extension", CanonicalBranch(map, trie, q))
    BY <1>2, <2>9, <2>10 DEF CanonicalNode
  <2> QED BY <2>2, <2>3, <2>4, <2>11
<1> QED BY <1>1, <1>4, <1>5, <1>6 DEF NodeAt

LEMMA TreeIsCanonical ==
  ASSUME NEW store, NEW map, NEW node, NEW p, <<node, p>> \in Trees(store, map)
  PROVE  node = CanonicalTrie(map)[p]
<1> DEFINE P == Trees(store, map)
           Right(n) == \A child, q : /\ <<child, q>> \in P
                                     /\ \A k \in Key : Len(k) <= Len(q) + n
                                     => child = CanonicalTrie(map)[q]
           T == {n \in Nat : ~Right(n)}
<1>1. ASSUME NEW child, NEW q, <<child, q>> \in P
      PROVE  q \in Path /\ Len(q) \in Nat /\ \E k \in Key : Len(k) \in Nat /\ Len(q) <= Len(k)
  <2>1. q \in Path /\ Len(q) \in Nat /\ q \in Tops(map)
    BY <1>1, TreeFacts, TopsFacts, PathFacts
  <2>2. PICK k \in Key : TRUE
    BY <2>1 DEF Tops, Below
  <2> QED BY <2>1, <2>2, TopsArePaths, KeyFacts
<1> HIDE DEF P
<1>2. ASSUME T # {} PROVE FALSE
  <2>1. PICK n \in T : \A j \in T : n <= j
    BY <1>2, Least
  <2>2. PICK child, q : /\ <<child, q>> \in P
                        /\ \A k \in Key : Len(k) <= Len(q) + n
                        /\ child # CanonicalTrie(map)[q]
    BY <2>1
  <2>3. ASSUME NEW c, NEW r, <<c, r>> \in P, Len(q) < Len(r)
        PROVE  c = CanonicalTrie(map)[r]
    <3>1. Len(q) \in Nat /\ Len(r) \in Nat
      BY <1>1, <2>2, <2>3
    <3>2. PICK k \in Key : Len(k) \in Nat /\ Len(r) <= Len(k)
      BY <1>1, <2>3
    <3>3. n # 0
      BY <2>2, <2>3, <3>1, <3>2
    <3>4. n - 1 \in Nat /\ n - 1 \notin T
      BY <2>1, <3>3
    <3>5. \A e \in Key : Len(e) \in Nat
      BY KeyFacts
    <3>6. \A e \in Key : Len(e) <= Len(r) + (n - 1)
      BY <2>1, <2>2, <2>3, <3>1, <3>5
    <3>7. Right(n - 1)
      BY <3>4
    <3> QED BY <2>3, <3>6, <3>7
  <2> HIDE DEF T, Right
  <2>4. child = CanonicalTrie(map)[q]
    BY <2>2, <2>3, CanonicalStep DEF P
  <2> QED BY <2>2, <2>4
<1>3. PICK k \in Key : Len(k) \in Nat
  BY <1>1 DEF P
<1>4. \A e \in Key : Len(e) <= Len(p) + Len(k)
  <2>1. \A e \in Key : Len(e) = Len(k)
    BY KeyFacts
  <2>2. Len(p) \in Nat
    BY <1>1 DEF P
  <2> QED BY <1>3, <2>1, <2>2
<1>5. Right(Len(k))
  BY <1>2, <1>3
<1> QED BY <1>4, <1>5 DEF P

\* A map has one root.
LEMMA HoldsCanonical ==
  ASSUME NEW store, NEW map, NEW node, Holds(store, map, node, <<>>)
  PROVE  node = Canonical(map)
<1>1. <<>> \in Path
  BY EmptySeq DEF Path
<1>2. Below(map, <<>>) = {} <=> Vacant(map, <<>>)
  BY <1>1, BelowFacts
<1>3. CASE node = NoNode /\ Vacant(map, <<>>)
  BY <1>2, <1>3, CanonicalFacts
<1>4. CASE <<node, <<>>>> \in Trees(store, map)
  <2>1. ~Vacant(map, <<>>) /\ node = CanonicalTrie(map)[<<>>]
    BY <1>4, TreeFacts, TreeIsCanonical
  <2> QED BY <1>2, <2>1, CanonicalFacts
<1> QED BY <1>3, <1>4 DEF Holds

-----------------------------------------------------------------------------
(***************************************************************************)
(* What can be read below a root.                                          *)
(***************************************************************************)

LEMMA ContentsAre ==
  ASSUME NEW store, Closed(store), NEW map \in Maps, NEW hash,
         Holds(store, map, Node(store, hash), <<>>)
  PROVE  Contents(store, hash) = map
<1> DEFINE node == Node(store, hash)
<1>1. ASSUME NEW k \in Key PROVE GetDecodeNode(store)[k][node] = map[k]
  <2>1. k \in Ends(<<>>) /\ <<>> \o k = k /\ k # <<>> /\ k \in Path
    BY EndsOfNothing, KeyFacts, Empty
  <2>2. CASE node = NoNode /\ Vacant(map, <<>>)
    <3>1. map[<<>> \o k] = NoNode
      BY <2>1, <2>2 DEF Vacant
    <3>2. k \in Remainder
      BY <2>1, RemainderIsEnd, Empty
    <3>3. GetDecodeNode(store)[k][NoNode] = NoNode
      BY <2>1, <3>2, GetNothing
    <3> QED BY <2>1, <2>2, <3>1, <3>3
  <2>3. CASE <<node, <<>>>> \in Trees(store, map)
    <3> HIDE DEF node
    <3>1. Reads(store, map, node, <<>>, k)
      BY <2>1, <2>3, GetReads
    <3> QED BY <2>1, <3>1 DEF Reads
  <2> QED BY <2>2, <2>3 DEF Holds
<1>2. map = [k \in Key |-> map[k]]
  BY DEF Maps
<1>3. Contents(store, hash) = [k \in Key |-> map[k]]
  BY <1>1 DEF Contents
<1> QED BY <1>2, <1>3

\* What a trie holds it holds in a larger store.
LEMMA HoldsGrow ==
  ASSUME NEW store, NEW larger, store \subseteq larger, Closed(larger),
         NEW map, NEW node, <<node, <<>>>> \in Trees(store, map)
  PROVE  /\ Node(larger, node) = node /\ node # NoNode
         /\ <<node, <<>>>> \in Trees(larger, map)
         /\ Holds(larger, map, Node(larger, node), <<>>)
<1>1. node \in larger
  BY TreeFacts
<1>2. <<node, <<>>>> \in Trees(larger, map)
  BY TreesGrow
<1>3. node # NoNode
  BY <1>1, ClosedFacts
<1>4. Node(larger, node) = node
  BY <1>1 DEF Node
<1> QED BY <1>2, <1>3, <1>4 DEF Holds

\* A root keeps its contents while the store grows.
LEMMA VersionFacts ==
  ASSUME NEW store, NEW larger, store \subseteq larger, Closed(store), Closed(larger),
         NEW map \in Maps, NEW version, <<version, <<>>>> \in Trees(store, map)
  PROVE  /\ version \in store
         /\ Contents(store, version) = map /\ Contents(larger, version) = map
<1>1. version \in store
  BY TreeFacts
<1>2. Holds(store, map, Node(store, version), <<>>) /\ Holds(larger, map, Node(larger, version), <<>>)
  BY HoldsGrow
<1> QED BY <1>1, <1>2, ContentsAre

-----------------------------------------------------------------------------
(***************************************************************************)
(* The invariant.                                                          *)
(***************************************************************************)

\* What is stored is whole, the root holds what can be read, unless a clear has
\* lost it, and every committed root holds a version in the database.
TrieInv ==
    /\ Closed(db)
    /\ Closed(cache \cup db)
    /\ work \in Maps
    /\ Holds(cache \cup db, work, Node(cache \cup db, root), <<>>)
    /\ open => root \in cache \cup db \cup {NoNode}
    /\ \A version \in committed : \E map \in Maps : <<version, <<>>>> \in Trees(db, map)
    /\ saved = {Contents(db, version) : version \in committed}

LEMMA Nothing == ASSUME NEW store PROVE Map!Empty \in Maps /\ Holds(store, Map!Empty, NoNode, <<>>)
<1>1. ASSUME NEW m \in Ends(<<>>) PROVE Map!Empty[<<>> \o m] = NoNode
  <2>1. <<>> \o m \in Key
    BY DEF Ends
  <2> DEFINE k == <<>> \o m
  <2> HIDE DEF k
  <2>2. k \in Key => Map!Empty[k] = NoNode
    BY DEF Map!Empty
  <2> QED BY <2>1, <2>2 DEF k
<1>2. Map!Empty \in Maps
  BY DEF Map!Empty, Maps
<1> QED BY <1>1, <1>2 DEF Holds, Vacant

\* What can be read after a step, from what the trie holds then.
LEMMA Observed ==
  ASSUME Observe, Closed(db'), Closed(cache' \cup db'),
         NEW map \in Maps, Holds(cache' \cup db', map, Node(cache' \cup db', root'), <<>>),
         open' => root' \in cache' \cup db' \cup {NoNode},
         \A version \in committed' : \E m \in Maps : <<version, <<>>>> \in Trees(db', m)
  PROVE  /\ TrieInv'
         /\ work' = map
         /\ saved' = {Contents(db', version) : version \in committed'}
<1> DEFINE store == cache' \cup db'
<1>1. work' = Contents(store, root') /\ saved' = {Contents(store, version) : version \in committed'}
  BY DEF Observe
<1>2. work' = map
  BY <1>1, ContentsAre
<1>3. ASSUME NEW version \in committed' PROVE Contents(store, version) = Contents(db', version)
  <2>1. PICK m \in Maps : <<version, <<>>>> \in Trees(db', m)
    OBVIOUS
  <2>2. db' \subseteq store
    OBVIOUS
  <2> HIDE DEF store
  <2> QED BY <2>1, <2>2, VersionFacts DEF store
<1> HIDE DEF store
<1>4. saved' = {Contents(db', version) : version \in committed'}
  BY <1>1, <1>3
<1> QED BY <1>2, <1>4 DEF TrieInv, store

LEMMA InitInv == ASSUME Init PROVE TrieInv /\ Map!Init
<1>1. Closed({}) /\ cache \cup db = {} /\ db = {} /\ Node({}, root) = NoNode
  BY DEF Init, Closed, Node
<1>2. Holds({}, Map!Empty, Node({}, root), <<>>) /\ Map!Empty \in Maps
  BY <1>1, Nothing
<1>3. work = Map!Empty
  <2>1. Contents({}, root) = Map!Empty
    BY <1>1, <1>2, ContentsAre
  <2> QED BY <2>1 DEF Init
<1>4. root = NoNode /\ committed = {} /\ saved = {}
  BY DEF Init
<1>5. TrieInv
  BY <1>1, <1>2, <1>3, <1>4 DEF TrieInv
<1> QED BY <1>3, <1>4, <1>5 DEF Map!Init

LEMMA PutGrows ==
  ASSUME NEW store, Closed(store), NEW map \in Maps, NEW k \in Key, NEW v \in Value,
         NEW node, Holds(store, map, node, <<>>)
  PROVE  LET result == Add(store, v)[k][node]
         IN  /\ Closed(Grown(store, result))
             /\ <<result.node, <<>>>> \in Trees(Grown(store, result), Updated(map, k, v))
<1> DEFINE result == Add(store, v)[k][node]
           s == Grown(store, result)
           other == Updated(map, k, v)
<1>1. <<>> \in Path /\ k \in Ends(<<>>) /\ <<>> \o k = k
  BY KeyFacts, EndsOfNothing, Empty
<1>2. Adds(store, map, v, node, <<>>, k)
  BY <1>1, AddGrows
<1>3. Planted(store, other, <<>>, result)
  BY <1>1, <1>2 DEF Adds
<1>4. /\ <<result.node, <<>>>> \in Trees(s, other)
      /\ \A x \in result.made : \E q : <<x, q>> \in Trees(s, other)
  BY <1>3 DEF Planted
<1>5. s = store \cup result.made \cup {result.node}
  BY DEF Grown
<1>6. \A m : Trees(store, m) \subseteq Trees(s, m)
  BY <1>5, TreesGrow
<1> HIDE DEF s, result, other
<1>7. Closed(s)
  BY <1>4, <1>5, <1>6 DEF Closed
<1> QED BY <1>4, <1>7 DEF s, result, other

-----------------------------------------------------------------------------
(***************************************************************************)
(* Each step keeps the invariant and is a step of the map.                 *)
(***************************************************************************)

LEMMA PutStep ==
  ASSUME TrieInv, NEW k \in Key, NEW v \in Value, Put(k, v), Observe
  PROVE  TrieInv' /\ Map!Write(k, v)
<1> DEFINE store == cache \cup db
           next == Add(store, v)[k][Node(store, root)]
<1>1. /\ Closed(db) /\ Closed(store) /\ work \in Maps
      /\ Holds(store, work, Node(store, root), <<>>)
      /\ \A version \in committed : \E map \in Maps : <<version, <<>>>> \in Trees(db, map)
      /\ saved = {Contents(db, version) : version \in committed}
  BY DEF TrieInv
<1>2. root' = next.node /\ cache' = cache \cup next.made \cup {next.node}
      /\ db' = db /\ committed' = committed
  BY DEF Put
<1>3. /\ Closed(Grown(store, next))
      /\ <<next.node, <<>>>> \in Trees(Grown(store, next), Updated(work, k, v))
  <2> HIDE DEF store
  <2> QED BY <1>1, PutGrows
<1> HIDE DEF next
<1>4. Grown(store, next) = cache' \cup db'
  BY <1>2 DEF Grown
<1> HIDE DEF store
<1>5. /\ Closed(cache' \cup db')
      /\ <<root', <<>>>> \in Trees(cache' \cup db', Updated(work, k, v))
  BY <1>2, <1>3, <1>4
<1>6. /\ root' \in cache' \cup db'
      /\ Holds(cache' \cup db', Updated(work, k, v), Node(cache' \cup db', root'), <<>>)
  <2> DEFINE s == cache' \cup db'
  <2> HIDE DEF s
  <2>1. Closed(s) /\ <<root', <<>>>> \in Trees(s, Updated(work, k, v))
    BY <1>5 DEF s
  <2>2. root' \in s
    BY <2>1, TreeFacts
  <2>3. Holds(s, Updated(work, k, v), Node(s, root'), <<>>)
    BY <2>1, HoldsGrow
  <2> QED BY <2>2, <2>3 DEF s
<1>7. Updated(work, k, v) \in Maps
  BY <1>1, UpdatedFacts
<1>8. /\ TrieInv' /\ work' = Updated(work, k, v)
      /\ saved' = {Contents(db', version) : version \in committed'}
  BY <1>1, <1>2, <1>5, <1>6, <1>7, Observed
<1>9. saved' = saved
  BY <1>1, <1>2, <1>8
<1> QED BY <1>8, <1>9 DEF Map!Write, Updated

LEMMA CommitStep ==
  ASSUME TrieInv, Commit, Observe
  PROVE  TrieInv' /\ Map!Save
<1> DEFINE store == cache \cup db
<1>1. /\ Closed(db) /\ Closed(store) /\ work \in Maps
      /\ Holds(store, work, Node(store, root), <<>>)
      /\ \A version \in committed : \E map \in Maps : <<version, <<>>>> \in Trees(db, map)
      /\ saved = {Contents(db, version) : version \in committed}
      /\ root \in store /\ root # NoNode
  BY DEF TrieInv, Commit
<1>2. /\ db' = store /\ cache' \cup db' = store
      /\ committed' = committed \cup {root} /\ root' = root
  BY DEF Commit
<1>3. db \subseteq store
  OBVIOUS
<1> HIDE DEF store
<1>4. Node(store, root) = root /\ <<root, <<>>>> \in Trees(store, work)
  <2>1. Node(store, root) = root
    BY <1>1 DEF Node
  <2> QED BY <1>1, <2>1 DEF Holds
<1>5. ASSUME NEW version \in committed
      PROVE  /\ \E map \in Maps : <<version, <<>>>> \in Trees(store, map)
             /\ Contents(store, version) = Contents(db, version)
  <2>1. PICK map \in Maps : <<version, <<>>>> \in Trees(db, map)
    BY <1>1
  <2>2. <<version, <<>>>> \in Trees(store, map)
    BY <1>3, <2>1, TreesGrow
  <2> QED BY <1>1, <1>3, <2>1, <2>2, VersionFacts
<1>6. \A version \in committed' : \E map \in Maps : <<version, <<>>>> \in Trees(db', map)
  BY <1>1, <1>2, <1>4, <1>5
<1>7. /\ TrieInv' /\ work' = work
      /\ saved' = {Contents(db', version) : version \in committed'}
  BY <1>1, <1>2, <1>6, Observed
<1>8. Contents(store, root) = work
  BY <1>1, <1>4, VersionFacts
<1>9. saved' = saved \cup {work}
  BY <1>1, <1>2, <1>5, <1>7, <1>8
<1> QED BY <1>7, <1>9 DEF Map!Save

LEMMA ClearStep ==
  ASSUME TrieInv, Clear, Observe
  PROVE  TrieInv' /\ Map!Drop
<1> DEFINE store == cache \cup db
           node == Node(store, root)
<1>1. /\ Closed(db) /\ Closed(store) /\ work \in Maps
      /\ Holds(store, work, node, <<>>)
      /\ \A version \in committed : \E map \in Maps : <<version, <<>>>> \in Trees(db, map)
      /\ saved = {Contents(db, version) : version \in committed}
  BY DEF TrieInv
<1>2. /\ cache' \cup db' = db /\ db' = db /\ committed' = committed /\ root' = root /\ open' = FALSE
  BY DEF Clear
<1>3. db \subseteq store
  OBVIOUS
<1> HIDE DEF store
<1>4. ASSUME NEW map \in Maps, Holds(db, map, Node(db, root), <<>>)
      PROVE  TrieInv' /\ work' = map /\ saved' = saved
  <2>1. /\ TrieInv' /\ work' = map
        /\ saved' = {Contents(db', version) : version \in committed'}
    BY <1>1, <1>2, <1>4, Observed
  <2> QED BY <1>1, <1>2, <2>1
<1>5. node = NoNode \/ (node = root /\ root \in store)
  BY DEF Node
<1>6. NoNode \notin store
  BY <1>1, ClosedFacts
<1>7. CASE Holds(db, work, Node(db, root), <<>>)
  BY <1>1, <1>4, <1>7 DEF Map!Drop
<1>8. CASE ~Holds(db, work, Node(db, root), <<>>)
  <2>1. <<node, <<>>>> \in Trees(store, work)
    <3>1. ASSUME node = NoNode, Vacant(work, <<>>) PROVE FALSE
      <4>1. root \notin db
        BY <1>3, <1>6, <3>1 DEF Node
      <4>2. Node(db, root) = NoNode
        BY <4>1 DEF Node
      <4> QED BY <1>8, <3>1, <4>2 DEF Holds
    <3> HIDE DEF node
    <3> QED BY <1>1, <3>1 DEF Holds
  <2>2. node = root
    <3>1. node \in store
      BY <2>1, TreeFacts
    <3> HIDE DEF node
    <3> QED BY <1>5, <1>6, <3>1
  <2> HIDE DEF node
  <2>3. root \notin db
    <3>1. ASSUME root \in db PROVE Holds(db, work, Node(db, root), <<>>)
      <4>1. <<root, <<>>>> \in Trees(db, work)
        BY <1>1, <1>3, <2>1, <2>2, <3>1, TreesRestrict
      <4>2. Node(db, root) = root
        BY <3>1 DEF Node
      <4> QED BY <4>1, <4>2 DEF Holds
    <3> QED BY <1>8, <3>1
  <2>4. work \notin saved
    <3> SUFFICES ASSUME work \in saved PROVE FALSE
      OBVIOUS
    <3>1. PICK version \in committed : work = Contents(db, version)
      BY <1>1
    <3>2. PICK map \in Maps : <<version, <<>>>> \in Trees(db, map)
      BY <1>1
    <3>3. version \in db /\ work = map
      BY <1>1, <1>3, <3>1, <3>2, VersionFacts
    <3>4. version = Canonical(work)
      BY <3>2, <3>3, HoldsCanonical DEF Holds
    <3>5. root = Canonical(work)
      BY <2>1, <2>2, HoldsCanonical DEF Holds
    <3> QED BY <2>3, <3>3, <3>4, <3>5
  <2>5. Node(db, root) = NoNode
    BY <2>3 DEF Node
  <2>6. Map!Empty \in Maps /\ Holds(db, Map!Empty, Node(db, root), <<>>)
    BY <2>5, Nothing
  <2>7. TrieInv' /\ work' = Map!Empty /\ saved' = saved
    BY <1>4, <2>6
  <2> QED BY <2>4, <2>7 DEF Map!Drop
<1> QED BY <1>7, <1>8

LEMMA SetRootStep ==
  ASSUME TrieInv, NEW hash \in committed, SetRoot(hash), Observe
  PROVE  TrieInv' /\ \E map \in saved : Map!Load(map)
<1>1. /\ Closed(db) /\ Closed(cache \cup db)
      /\ \A version \in committed : \E map \in Maps : <<version, <<>>>> \in Trees(db, map)
      /\ saved = {Contents(db, version) : version \in committed}
  BY DEF TrieInv
<1>2. /\ cache' \cup db' = db /\ db' = db /\ committed' = committed /\ root' = hash
  BY DEF SetRoot
<1>3. PICK map \in Maps : <<hash, <<>>>> \in Trees(db, map)
  BY <1>1
<1>4. hash \in db /\ Contents(db, hash) = map
  BY <1>1, <1>3, VersionFacts
<1>5. Holds(db, map, Node(db, hash), <<>>)
  BY <1>1, <1>3, HoldsGrow
<1>6. /\ TrieInv' /\ work' = map
      /\ saved' = {Contents(db', version) : version \in committed'}
  BY <1>1, <1>2, <1>4, <1>5, Observed
<1>7. map \in saved /\ saved' = saved
  BY <1>1, <1>2, <1>4, <1>6
<1> QED BY <1>6, <1>7 DEF Map!Load

LEMMA NextStep == ASSUME TrieInv, [Next]_vars PROVE TrieInv' /\ [Map!Next]_Map!vars
<1>1. ASSUME NEW k \in Key, NEW v \in Value, Put(k, v), Observe PROVE TrieInv' /\ Map!Next
  BY <1>1, PutStep DEF Map!Next
<1>2. ASSUME Commit, Observe PROVE TrieInv' /\ Map!Next
  BY <1>2, CommitStep DEF Map!Next
<1>3. ASSUME Clear, Observe PROVE TrieInv' /\ Map!Next
  BY <1>3, ClearStep DEF Map!Next
<1>4. ASSUME NEW hash \in committed, SetRoot(hash), Observe PROVE TrieInv' /\ Map!Next
  BY <1>4, SetRootStep DEF Map!Next
<1>5. CASE UNCHANGED vars
  BY <1>5 DEF TrieInv, vars, Map!vars
<1> QED BY <1>1, <1>2, <1>3, <1>4, <1>5 DEF Next

LEMMA InvFacts == ASSUME TrieInv PROVE NothingDangles /\ RootIsCanonical
<1>1. /\ Closed(db) /\ Closed(cache \cup db)
      /\ Holds(cache \cup db, work, Node(cache \cup db, root), <<>>)
      /\ \A version \in committed : \E map \in Maps : <<version, <<>>>> \in Trees(db, map)
  BY DEF TrieInv
<1>2. \A node \in db : Children(node) \subseteq db
  BY <1>1, ClosedFacts
<1>3. \A node \in cache : Children(node) \subseteq cache \cup db
  BY <1>1, ClosedFacts
<1>4. committed \subseteq db
  BY <1>1, TreeFacts
<1>5. RootIsCanonical
  BY <1>1, HoldsCanonical DEF RootIsCanonical
<1> QED BY <1>2, <1>3, <1>4, <1>5 DEF NothingDangles

-----------------------------------------------------------------------------

\* In every behaviour the nodes of the database refer to nodes of the database, those
\* of the cache to nodes of either, the root holds what can be read, and each committed
\* root holds a version in the database.
THEOREM TrieInvariance == Spec => []TrieInv
<1>1. Init => TrieInv
  BY InitInv
<1>2. TrieInv /\ [Next]_vars => TrieInv'
  BY NextStep
<1> QED BY <1>1, <1>2, PTL DEF Spec

\* Whatever is put, committed, cleared and loaded, no node that can be reached refers
\* to one that is not stored: get never fails in the middle of a trie.
THEOREM WholeTries == Spec => []NothingDangles
<1>1. TrieInv => NothingDangles
  BY InvFacts
<1> QED BY <1>1, TrieInvariance, PTL

\* The root is a function of what can be read: neither the order of the puts nor the
\* values that were overwritten nor the commits and clears between them show in it.
THEOREM CanonicalRoots == Spec => []RootIsCanonical
<1>1. TrieInv => RootIsCanonical
  BY InvFacts
<1> QED BY <1>1, TrieInvariance, PTL

\* The trie is a map with versions: put writes one key, commit saves a version, clear
\* loses what is in no version or nothing, set_root goes back to a version.
THEOREM TrieIsMap == Spec => Implements
<1>1. Init => Map!Init
  BY InitInv
<1>2. TrieInv /\ [Next]_vars => [Map!Next]_Map!vars
  BY NextStep
<1> QED BY <1>1, <1>2, TrieInvariance, PTL DEF Spec, Implements, Map!Spec

=============================================================================

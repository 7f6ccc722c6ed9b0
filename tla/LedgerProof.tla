----------------------------- MODULE LedgerProof -----------------------------
(***************************************************************************)
(* Wagon implements Ledger, and what there is in money, for any accounts,  *)
(* blocks and fees.                                                        *)
(*                                                                         *)
(* A commit demands the trie a clean wagon would compute, so only the      *)
(* clean one has to be followed: its trie says at every transaction what   *)
(* Ledger says.  Ledger in turn is what the sums of money are taken of.    *)
(***************************************************************************)
EXTENDS WagonProof, WellFoundedInduction

Ledgers == [Account -> AccountRecord]

\* The cache of s agrees with its trie, which says k.
Holds(s, k) == s \in StateRecord /\ Agrees(s) /\ Known(s.work) = k

\* The account a has gained c and n nonces.
Moved(k, a, c, n) ==
    [k EXCEPT ![a] = [balance |-> @.balance + c, nonce |-> @.nonce + n, stake |-> @.stake]]

-----------------------------------------------------------------------------
(***************************************************************************)
(* The operations of StateDB, seen as moves of the ledger.                 *)
(***************************************************************************)

LEMMA KnownType ==
  ASSUME NEW map \in Accounts
  PROVE  Known(map) \in Ledgers /\ \A a \in Account : Known(map)[a] = Content(map, a)
  BY ContentType DEF Known, Ledgers

LEMMA HoldsFacts ==
  ASSUME NEW s, NEW k, Holds(s, k), NEW a \in Account
  PROVE  k \in Ledgers /\ k[a] \in AccountRecord /\ GetAccount(s, a) = k[a]
<1>1. s \in StateRecord /\ s.work \in Accounts /\ Agrees(s) /\ k = Known(s.work)
  BY DEF Holds, StateRecord
<1>2. k \in Ledgers /\ k[a] = Content(s.work, a)
  BY <1>1, KnownType
<1>3. GetAccount(s, a) = Content(s.work, a)
  BY <1>1, GetAccountIsContent
<1> QED BY <1>2, <1>3 DEF Ledgers

LEMMA MovedFacts ==
  ASSUME NEW k \in Ledgers, NEW a \in Account, NEW c \in Int, NEW n \in Nat
  PROVE  /\ Moved(k, a, c, n) \in Ledgers
         /\ \A b \in Account :
              Moved(k, a, c, n)[b] =
                IF b = a THEN [balance |-> k[a].balance + c, nonce |-> k[a].nonce + n,
                               stake |-> k[a].stake]
                ELSE k[b]
<1> DEFINE account == [balance |-> k[a].balance + c, nonce |-> k[a].nonce + n, stake |-> k[a].stake]
<1>1. k[a] \in AccountRecord
  BY DEF Ledgers
<1>2. account \in AccountRecord
  BY <1>1 DEF AccountRecord
<1>3. Moved(k, a, c, n) = [k EXCEPT ![a] = account]
  BY DEF Moved
<1> HIDE DEF account
<1>4. /\ [k EXCEPT ![a] = account] \in Ledgers
      /\ \A b \in Account : [k EXCEPT ![a] = account][b] = IF b = a THEN account ELSE k[b]
  BY <1>2 DEF Ledgers
<1> QED BY <1>3, <1>4 DEF account

LEMMA MovedType ==
  ASSUME NEW k \in Ledgers, NEW a \in Account, NEW c \in Int, NEW n \in Nat
  PROVE  Moved(k, a, c, n) \in Ledgers
  BY MovedFacts

LEMMA LedgersEqual ==
  ASSUME NEW k \in Ledgers, NEW l \in Ledgers, \A b \in Account : k[b] = l[b]
  PROVE  k = l
  BY DEF Ledgers

\* Moves of one account add up.
LEMMA MovedTwice ==
  ASSUME NEW k \in Ledgers, NEW a \in Account, NEW c \in Int, NEW n \in Nat,
         NEW d \in Int, NEW m \in Nat
  PROVE  Moved(Moved(k, a, c, n), a, d, m) = Moved(k, a, c + d, n + m)
<1> DEFINE first == Moved(k, a, c, n)
           both == Moved(first, a, d, m)
           once == Moved(k, a, c + d, n + m)
<1>1. k[a] \in AccountRecord
  BY DEF Ledgers
<1>2. /\ first \in Ledgers
      /\ \A b \in Account :
           first[b] = IF b = a THEN [balance |-> k[a].balance + c, nonce |-> k[a].nonce + n,
                                     stake |-> k[a].stake]
                      ELSE k[b]
  BY MovedFacts
<1> HIDE DEF first
<1>3. /\ both \in Ledgers
      /\ \A b \in Account :
           both[b] = IF b = a THEN [balance |-> first[a].balance + d, nonce |-> first[a].nonce + m,
                                    stake |-> first[a].stake]
                     ELSE first[b]
  BY <1>2, MovedFacts
<1>4. /\ once \in Ledgers
      /\ \A b \in Account :
           once[b] = IF b = a THEN [balance |-> k[a].balance + (c + d), nonce |-> k[a].nonce + (n + m),
                                    stake |-> k[a].stake]
                     ELSE k[b]
  <2>1. c + d \in Int /\ n + m \in Nat
    OBVIOUS
  <2> QED BY <2>1, MovedFacts
<1> HIDE DEF both, once
<1>5. ASSUME NEW b \in Account PROVE both[b] = once[b]
  <2>1. CASE b = a
    <3>1. /\ k[a].balance \in Int /\ k[a].nonce \in Nat
      BY <1>1 DEF AccountRecord
    <3>2. /\ first[a].balance = k[a].balance + c
          /\ first[a].nonce = k[a].nonce + n
          /\ first[a].stake = k[a].stake
      BY <1>2
    <3>3. /\ first[a].balance + d = k[a].balance + (c + d)
          /\ first[a].nonce + m = k[a].nonce + (n + m)
      BY <3>1, <3>2
    <3> QED BY <1>3, <1>4, <2>1, <3>2, <3>3
  <2>2. CASE b # a
    BY <1>2, <1>3, <1>4, <2>2
  <2> QED BY <2>1, <2>2
<1> QED BY <1>3, <1>4, <1>5, LedgersEqual DEF both, once, first

LEMMA MovedCommute ==
  ASSUME NEW k \in Ledgers, NEW a \in Account, NEW c \in Int, NEW n \in Nat,
         NEW b \in Account, NEW d \in Int, NEW m \in Nat
  PROVE  Moved(Moved(k, a, c, n), b, d, m) = Moved(Moved(k, b, d, m), a, c, n)
<1>1. CASE a = b
  <2>1. c + d = d + c /\ n + m = m + n
    OBVIOUS
  <2>2. /\ Moved(Moved(k, a, c, n), a, d, m) = Moved(k, a, c + d, n + m)
        /\ Moved(Moved(k, a, d, m), a, c, n) = Moved(k, a, d + c, m + n)
    BY MovedTwice
  <2>3. Moved(Moved(k, a, c, n), a, d, m) = Moved(Moved(k, a, d, m), a, c, n)
    <3> DEFINE e == c + d
               f == d + c
               g == n + m
               h == m + n
    <3>1. e = f /\ g = h
      BY <2>1
    <3> HIDE DEF e, f, g, h
    <3>2. Moved(k, a, e, g) = Moved(k, a, f, h)
      BY <3>1
    <3> QED BY <2>2, <3>2 DEF e, f, g, h
  <2> QED BY <1>1, <2>3
<1>2. CASE a # b
  <2> DEFINE ka == Moved(k, a, c, n)
             kb == Moved(k, b, d, m)
             kab == Moved(ka, b, d, m)
             kba == Moved(kb, a, c, n)
  <2>1. /\ ka \in Ledgers /\ kb \in Ledgers
        /\ \A e \in Account :
             /\ ka[e] = IF e = a THEN [balance |-> k[a].balance + c, nonce |-> k[a].nonce + n,
                                       stake |-> k[a].stake]
                        ELSE k[e]
             /\ kb[e] = IF e = b THEN [balance |-> k[b].balance + d, nonce |-> k[b].nonce + m,
                                       stake |-> k[b].stake]
                        ELSE k[e]
    BY MovedFacts
  <2> HIDE DEF ka, kb
  <2>2. /\ kab \in Ledgers
        /\ \A e \in Account :
             kab[e] = IF e = b THEN [balance |-> ka[b].balance + d, nonce |-> ka[b].nonce + m,
                                     stake |-> ka[b].stake]
                      ELSE ka[e]
    BY <2>1, MovedFacts
  <2>3. /\ kba \in Ledgers
        /\ \A e \in Account :
             kba[e] = IF e = a THEN [balance |-> kb[a].balance + c, nonce |-> kb[a].nonce + n,
                                     stake |-> kb[a].stake]
                      ELSE kb[e]
    BY <2>1, MovedFacts
  <2> HIDE DEF kab, kba
  <2>4. ASSUME NEW e \in Account PROVE kab[e] = kba[e]
    <3>1. ka[b] = k[b] /\ kb[a] = k[a]
      BY <1>2, <2>1
    <3>2. CASE e = a
      BY <1>2, <2>1, <2>2, <2>3, <3>1, <3>2
    <3>3. CASE e = b
      BY <1>2, <2>1, <2>2, <2>3, <3>1, <3>3
    <3>4. CASE e # a /\ e # b
      BY <2>1, <2>2, <2>3, <3>4
    <3> QED BY <3>2, <3>3, <3>4
  <2> QED BY <2>2, <2>3, <2>4, LedgersEqual DEF kab, kba, ka, kb
<1> QED BY <1>1, <1>2

LEMMA MovedNothing ==
  ASSUME NEW k \in Ledgers, NEW a \in Account
  PROVE  Moved(k, a, 0, 0) = k
<1>1. k[a] \in AccountRecord
  BY DEF Ledgers
<1>2. [balance |-> k[a].balance + 0, nonce |-> k[a].nonce + 0, stake |-> k[a].stake] = k[a]
  BY <1>1 DEF AccountRecord
<1>3. Moved(k, a, 0, 0) \in Ledgers /\ \A b \in Account : Moved(k, a, 0, 0)[b] = k[b]
  BY <1>2, MovedFacts
<1> QED BY <1>3, LedgersEqual

\* An account is set in the cache and in the trie.
LEMMA HoldsSet ==
  ASSUME NEW s, NEW k, Holds(s, k), NEW a \in Account, NEW account \in AccountRecord
  PROVE  Holds(SetAccount(s, a, account), [k EXCEPT ![a] = account])
<1> DEFINE t == SetAccount(s, a, account)
<1>1. s \in StateRecord /\ Agrees(s) /\ Known(s.work) = k /\ s.work \in Accounts
  BY DEF Holds, StateRecord
<1>2. t \in StateRecord /\ t.work = [s.work EXCEPT ![a] = account]
  BY <1>1, SetAccountFacts
<1>3. Agrees(t)
  BY <1>1, SelfAlike, SetAccountAlike
<1>4. k \in Ledgers /\ \A b \in Account : k[b] = Content(s.work, b)
  BY <1>1, KnownType
<1> HIDE DEF t
<1>5. t.work \in Accounts
  BY <1>2 DEF StateRecord
<1>6. ASSUME NEW b \in Account PROVE Known(t.work)[b] = [k EXCEPT ![a] = account][b]
  <2>1. Known(t.work)[b] = Content(t.work, b)
    BY <1>5, KnownType
  <2>2. CASE b = a
    BY <1>1, <1>2, <1>4, <2>1, <2>2, NoneIsNoAccount DEF Content, Accounts, Ledgers
  <2>3. CASE b # a
    BY <1>1, <1>2, <1>4, <2>1, <2>3 DEF Content, Accounts, Ledgers
  <2> QED BY <2>2, <2>3
<1>7. Known(t.work) \in Ledgers /\ [k EXCEPT ![a] = account] \in Ledgers
  BY <1>4, <1>5, KnownType DEF Ledgers
<1>8. Known(t.work) = [k EXCEPT ![a] = account]
  BY <1>6, <1>7, LedgersEqual
<1> QED BY <1>2, <1>3, <1>8 DEF Holds, t

LEMMA HoldsBalance ==
  ASSUME NEW s, NEW k, Holds(s, k), NEW a \in Account, NEW c \in Int
  PROVE  Holds(ComputeBalance(s, a, c), Moved(k, a, c, 0))
<1> DEFINE account == [balance |-> k[a].balance + c, nonce |-> k[a].nonce + 0, stake |-> k[a].stake]
<1>1. k \in Ledgers /\ k[a] \in AccountRecord /\ GetAccount(s, a) = k[a]
  BY HoldsFacts
<1>2. account \in AccountRecord /\ account = [k[a] EXCEPT !.balance = @ + c]
  BY <1>1 DEF AccountRecord
<1>3. Moved(k, a, c, 0) = [k EXCEPT ![a] = account]
  BY <1>1 DEF Moved, Ledgers
<1> HIDE DEF account
<1>4. ComputeBalance(s, a, c) = SetAccount(s, a, account)
  BY <1>1, <1>2 DEF ComputeBalance
<1> QED BY <1>2, <1>3, <1>4, HoldsSet

LEMMA HoldsNonce ==
  ASSUME NEW s, NEW k, Holds(s, k), NEW a \in Account
  PROVE  Holds(IncreaseNonce(s, a), Moved(k, a, 0, 1))
<1> DEFINE account == [balance |-> k[a].balance + 0, nonce |-> k[a].nonce + 1, stake |-> k[a].stake]
<1>1. k \in Ledgers /\ k[a] \in AccountRecord /\ GetAccount(s, a) = k[a]
  BY HoldsFacts
<1>2. account \in AccountRecord /\ account = [k[a] EXCEPT !.nonce = @ + 1]
  BY <1>1 DEF AccountRecord
<1>3. Moved(k, a, 0, 1) = [k EXCEPT ![a] = account]
  BY <1>1 DEF Moved, Ledgers
<1> HIDE DEF account
<1>4. IncreaseNonce(s, a) = SetAccount(s, a, account)
  BY <1>1, <1>2 DEF IncreaseNonce
<1> QED BY <1>2, <1>3, <1>4, HoldsSet

LEMMA HoldsRead ==
  ASSUME NEW s, NEW k, Holds(s, k), NEW a \in Account
  PROVE  Holds(Read(s, a), k)
  BY ReadFacts, ReadAgrees DEF Holds

-----------------------------------------------------------------------------
(***************************************************************************)
(* One transaction does to the ledger what Ledger says.                    *)
(***************************************************************************)

\* Ledger writes what Moved says in its own way.
LEMMA TransactIsMove ==
  ASSUME NEW k \in Ledgers, NEW tx \in Tx,
         L!Gain(L!Outcome(k, tx), tx) \in Int, L!Nonces(L!Outcome(k, tx)) \in Nat,
         L!Outcome(k, tx) = "transferred" => tx.to \in Account
  PROVE  L!Transact(k, tx) =
           LET outcome == L!Outcome(k, tx)
               sent == Moved(k, tx.from, L!Gain(outcome, tx), L!Nonces(outcome))
           IN  IF outcome = "transferred" THEN Moved(sent, tx.to, tx.value, 0) ELSE sent
<1> DEFINE outcome == L!Outcome(k, tx)
           c == L!Gain(outcome, tx)
           n == L!Nonces(outcome)
           sent == [k EXCEPT ![tx.from].balance = @ + c, ![tx.from].nonce = @ + n]
           move == Moved(k, tx.from, c, n)
<1>1. tx.from \in Account /\ tx.value \in Int /\ c \in Int /\ n \in Nat
      /\ (outcome = "transferred" => tx.to \in Account)
  BY TxTypes
<1>2. L!Transact(k, tx) =
        IF outcome = "transferred" THEN [sent EXCEPT ![tx.to].balance = @ + tx.value] ELSE sent
  BY DEF L!Transact
<1> HIDE DEF outcome, c, n
<1>3. ASSUME NEW l \in Ledgers, NEW a \in Account, NEW d \in Int
      PROVE  [l EXCEPT ![a].balance = @ + d] = Moved(l, a, d, 0)
  <2>1. l[a] \in AccountRecord
    BY DEF Ledgers
  <2>2. [l[a] EXCEPT !.balance = @ + d]
          = [balance |-> l[a].balance + d, nonce |-> l[a].nonce + 0, stake |-> l[a].stake]
    BY <2>1 DEF AccountRecord
  <2> QED BY <2>2 DEF Moved, Ledgers
<1>4. sent = move
  <2>1. k[tx.from] \in AccountRecord
    BY <1>1 DEF Ledgers
  <2>2. [[k[tx.from] EXCEPT !.balance = @ + c] EXCEPT !.nonce = @ + n]
          = [balance |-> k[tx.from].balance + c, nonce |-> k[tx.from].nonce + n,
             stake |-> k[tx.from].stake]
    <3> DEFINE old == k[tx.from]
               paid == [old EXCEPT !.balance = @ + c]
    <3>1. old = [balance |-> old.balance, nonce |-> old.nonce, stake |-> old.stake]
      BY <2>1 DEF AccountRecord
    <3> HIDE DEF old
    <3>2. paid = [balance |-> old.balance + c, nonce |-> old.nonce, stake |-> old.stake]
      BY <3>1
    <3> HIDE DEF paid
    <3>3. [paid EXCEPT !.nonce = @ + n]
            = [balance |-> old.balance + c, nonce |-> old.nonce + n, stake |-> old.stake]
      BY <3>2
    <3> QED BY <3>3 DEF paid, old
  <2>3. sent = [k EXCEPT ![tx.from] = [[k[tx.from] EXCEPT !.balance = @ + c] EXCEPT !.nonce = @ + n]]
    BY <1>1 DEF Ledgers
  <2>4. move = [k EXCEPT ![tx.from] = [balance |-> k[tx.from].balance + c,
                                       nonce |-> k[tx.from].nonce + n, stake |-> k[tx.from].stake]]
    BY DEF Moved
  <2> HIDE DEF sent, move
  <2> QED BY <2>2, <2>3, <2>4
<1>5. move \in Ledgers
  BY <1>1, MovedFacts
<1> HIDE DEF sent, move
<1>6. outcome = "transferred" =>
        [sent EXCEPT ![tx.to].balance = @ + tx.value] = Moved(move, tx.to, tx.value, 0)
  BY <1>1, <1>3, <1>4, <1>5
<1>7. L!Transact(k, tx) =
        IF outcome = "transferred" THEN Moved(move, tx.to, tx.value, 0) ELSE move
  BY <1>2, <1>4, <1>6
<1> QED BY <1>7 DEF outcome, c, n, move

\* How far a transaction gets is what Ledger calls its outcome.
LEMMA OutcomeIsStatus ==
  ASSUME NEW s, NEW k, Holds(s, k), NEW tx \in Tx
  PROVE  L!Outcome(k, tx) = Status(s, tx)
<1>1. GetAccount(s, tx.from) = k[tx.from] /\ k[tx.from] \in AccountRecord
  BY HoldsFacts, TxTypes
<1>2. /\ k[tx.from].balance \in Int /\ tx.value \in Nat /\ tx.fee \in Nat
      /\ tx.valid \in BOOLEAN /\ tx.parsable \in BOOLEAN
      /\ tx.to \in Account \cup {Malformed, CreateContract}
  BY <1>1 DEF AccountRecord, Tx
<1>3. Malformed # CreateContract /\ Malformed \notin Account /\ CreateContract \notin Account
      /\ FeeExecute \in Nat
  BY AddressAssumption, GenesisAssumption
<1>4. Validated(s, tx) <=> tx.valid /\ k[tx.from].balance >= tx.value + tx.fee
  BY <1>1 DEF Validated
<1>5. CASE ~Validated(s, tx)
  <2>1. ~tx.valid \/ k[tx.from].balance < tx.value + tx.fee
    BY <1>2, <1>4, <1>5
  <2> QED BY <1>5, <2>1 DEF L!Outcome, Status
<1>6. CASE Validated(s, tx)
  <2>1. ~(~tx.valid \/ k[tx.from].balance < tx.value + tx.fee)
    BY <1>2, <1>4, <1>6
  <2>2. CASE tx.fee < FeeExecute
    BY <1>2, <1>3, <1>6, <2>1, <2>2 DEF L!Outcome, Status
  <2>3. CASE ~(tx.fee < FeeExecute)
    <3>1. tx.fee >= FeeExecute /\ ~(FeeExecute > tx.fee)
      BY <1>2, <1>3, <2>3
    <3>2. CASE tx.to = CreateContract
      BY <1>2, <1>3, <1>6, <2>1, <2>3, <3>1, <3>2 DEF L!Outcome, Status
    <3>3. CASE tx.to # CreateContract /\ ~tx.parsable
      BY <1>2, <1>3, <1>6, <2>1, <2>3, <3>1, <3>3 DEF L!Outcome, Status
    <3>4. CASE tx.to = Malformed /\ tx.parsable
      BY <1>2, <1>3, <1>6, <2>1, <2>3, <3>1, <3>4 DEF L!Outcome, Status
    <3>5. CASE tx.to \in Account /\ tx.parsable
      BY <1>2, <1>3, <1>6, <2>1, <2>3, <3>1, <3>5 DEF L!Outcome, Status
    <3> QED BY <1>2, <3>2, <3>3, <3>4, <3>5
  <2> QED BY <2>2, <2>3
<1> QED BY <1>5, <1>6

LEMMA LedgerTypes ==
  ASSUME NEW tx \in Tx, NEW outcome
  PROVE  /\ L!Gain(outcome, tx) \in Int /\ L!Nonces(outcome) \in Nat
         /\ L!Paid(outcome) = Used(outcome)
<1>1. /\ tx.fee \in Int /\ -(tx.value + FeeExecute) \in Int /\ -FeeExecute \in Int
  BY TxTypes, GenesisAssumption
<1>2. L!Gain(outcome, tx) \in Int
  BY <1>1 DEF L!Gain
<1>3. L!Nonces(outcome) \in Nat /\ L!Paid(outcome) = Used(outcome)
  BY DEF L!Nonces, L!Paid, Used
<1> QED BY <1>2, <1>3

\* A balance is changed after some moves of the same account.
LEMMA HoldsBalanceAgain ==
  ASSUME NEW s, NEW k \in Ledgers, NEW a \in Account, NEW c \in Int, NEW n \in Nat,
         Holds(s, Moved(k, a, c, n)), NEW d \in Int
  PROVE  Holds(ComputeBalance(s, a, d), Moved(k, a, c + d, n))
<1>1. Holds(ComputeBalance(s, a, d), Moved(Moved(k, a, c, n), a, d, 0))
  BY HoldsBalance
<1>2. Moved(Moved(k, a, c, n), a, d, 0) = Moved(k, a, c + d, n + 0)
  BY MovedTwice
<1>3. n + 0 = n
  OBVIOUS
<1> QED BY <1>1, <1>2, <1>3

LEMMA HoldsNonceAgain ==
  ASSUME NEW s, NEW k \in Ledgers, NEW a \in Account, NEW c \in Int, NEW n \in Nat,
         Holds(s, Moved(k, a, c, n))
  PROVE  Holds(IncreaseNonce(s, a), Moved(k, a, c, n + 1))
<1>1. Holds(IncreaseNonce(s, a), Moved(Moved(k, a, c, n), a, 0, 1))
  BY HoldsNonce
<1>2. Moved(Moved(k, a, c, n), a, 0, 1) = Moved(k, a, c + 0, n + 1)
  BY MovedTwice
<1>3. c + 0 = c
  OBVIOUS
<1> QED BY <1>1, <1>2, <1>3

LEMMA HoldsExecuted ==
  ASSUME NEW s, NEW k, Holds(s, k), NEW tx \in Tx
  PROVE  /\ Holds(Prepared(s, tx), Moved(k, tx.from, -tx.fee, 1))
         /\ Holds(Executed(s, tx), Moved(k, tx.from, -tx.fee, 2))
         /\ Holds(Debited(Executed(s, tx), tx), Moved(k, tx.from, -tx.fee + -tx.value, 2))
<1>1. k \in Ledgers /\ tx.from \in Account /\ -tx.fee \in Int /\ -tx.value \in Int
  BY HoldsFacts, TxTypes
<1>2. Holds(ComputeBalance(s, tx.from, -tx.fee), Moved(k, tx.from, -tx.fee, 0))
  BY <1>1, HoldsBalance
<1>3. Holds(Prepared(s, tx), Moved(k, tx.from, -tx.fee, 0 + 1))
  BY <1>1, <1>2, HoldsNonceAgain DEF Prepared
<1>4. Holds(Prepared(s, tx), Moved(k, tx.from, -tx.fee, 1))
  <2>1. 0 + 1 = 1
    OBVIOUS
  <2> QED BY <1>3, <2>1
<1>5. Holds(Executed(s, tx), Moved(k, tx.from, -tx.fee, 1 + 1))
  BY <1>1, <1>4, HoldsNonceAgain DEF Executed
<1>6. Holds(Executed(s, tx), Moved(k, tx.from, -tx.fee, 2))
  <2>1. 1 + 1 = 2
    OBVIOUS
  <2> QED BY <1>5, <2>1
<1>7. Holds(Debited(Executed(s, tx), tx), Moved(k, tx.from, -tx.fee + -tx.value, 2))
  BY <1>1, <1>6, HoldsBalanceAgain DEF Debited
<1> QED BY <1>4, <1>6, <1>7

\* The accounts when the executor is done and the rest of the limit is back.
LEMMA HoldsRefunded ==
  ASSUME NEW s, NEW k, Holds(s, k), NEW tx \in Tx
  PROVE  Holds(Refunded(Applied(s, tx, Status(s, tx)), tx, Used(Status(s, tx))),
               L!Transact(k, tx))
<1> DEFINE status == Status(s, tx)
           from == tx.from
           used == Used(status)
           back == tx.fee - used
           applied == Applied(s, tx, status)
           gain == L!Gain(status, tx)
           nonces == L!Nonces(status)
           sent == Moved(k, from, gain, nonces)
<1> SUFFICES Holds(Refunded(applied, tx, used), L!Transact(k, tx))
  OBVIOUS
<1>1. /\ k \in Ledgers /\ from \in Account /\ tx.fee \in Nat /\ tx.value \in Nat
      /\ FeeExecute \in Nat /\ Contract \in Account
  BY HoldsFacts, TxTypes, GenesisAssumption, AddressAssumption
<1>2. s \in StateRecord
  BY DEF Holds
<1>3. status \in Outcomes /\ (status = "transferred" => tx.to \in Account)
  BY <1>2, StatusFacts
<1>4. L!Outcome(k, tx) = status
  BY OutcomeIsStatus
<1>5. gain \in Int /\ nonces \in Nat /\ back \in Int
  BY <1>1, LedgerTypes, UsedType
<1>6. L!Transact(k, tx) = IF status = "transferred" THEN Moved(sent, tx.to, tx.value, 0) ELSE sent
  <2> HIDE DEF status
  <2> QED BY <1>1, <1>3, <1>4, <1>5, TransactIsMove
<1>7. /\ Holds(Prepared(s, tx), Moved(k, from, -tx.fee, 1))
      /\ Holds(Executed(s, tx), Moved(k, from, -tx.fee, 2))
      /\ Holds(Debited(Executed(s, tx), tx), Moved(k, from, -tx.fee + -tx.value, 2))
  BY HoldsExecuted
<1>8. Refunded(applied, tx, used) = ComputeBalance(applied, from, back)
  BY DEF Refunded
<1> HIDE DEF status, from
<1>9. ASSUME NEW c \in Int, NEW n \in Nat, Holds(applied, Moved(k, from, c, n)),
             c + back = gain, n = nonces
      PROVE  Holds(ComputeBalance(applied, from, back), sent)
  <2>1. Holds(ComputeBalance(applied, from, back), Moved(k, from, c + back, n))
    <3> HIDE DEF back, applied
    <3> QED BY <1>1, <1>5, <1>9, HoldsBalanceAgain
  <2> QED BY <1>9, <2>1
<1>10. CASE status = "rejected"
  <2>1. Holds(applied, Moved(k, from, 0, 0))
    BY <1>1, <1>10, MovedNothing DEF Applied
  <2>2. 0 + back = gain /\ nonces = 0
    BY <1>1, <1>10 DEF L!Gain, L!Nonces, Used
  <2> HIDE DEF applied, back, gain, nonces, sent, used
  <2> QED BY <1>6, <1>8, <1>9, <1>10, <2>1, <2>2
<1>11. CASE status \in {"limited", "unparsable"}
  <2>1. Holds(applied, Moved(k, from, -tx.fee, 1))
    BY <1>7, <1>11 DEF Applied
  <2>2. -tx.fee + back = gain /\ nonces = 1
    BY <1>1, <1>11 DEF L!Gain, L!Nonces, Used
  <2>3. -tx.fee \in Int
    BY <1>1
  <2> HIDE DEF applied, back, gain, nonces, sent, used
  <2> QED BY <1>6, <1>8, <1>9, <1>11, <2>1, <2>2, <2>3
<1>12. CASE status = "uncreated"
  <2>1. Holds(applied, Moved(k, from, -tx.fee, 2))
    BY <1>1, <1>7, <1>12, HoldsRead DEF Applied
  <2>2. -tx.fee + back = gain /\ nonces = 2
    BY <1>1, <1>12 DEF L!Gain, L!Nonces, Used
  <2>3. -tx.fee \in Int
    BY <1>1
  <2> HIDE DEF applied, back, gain, nonces, sent, used
  <2> QED BY <1>6, <1>8, <1>9, <1>12, <2>1, <2>2, <2>3
<1>13. CASE status = "malformed"
  <2>1. Holds(applied, Moved(k, from, -tx.fee + -tx.value, 2))
    BY <1>7, <1>13 DEF Applied
  <2>2. -tx.fee + -tx.value + back = gain /\ nonces = 2
    BY <1>1, <1>13 DEF L!Gain, L!Nonces, Used
  <2>3. -tx.fee + -tx.value \in Int
    BY <1>1
  <2> HIDE DEF applied, back, gain, nonces, sent, used
  <2> QED BY <1>6, <1>8, <1>9, <1>13, <2>1, <2>2, <2>3
<1>14. CASE status = "transferred"
  <2> DEFINE c == -tx.fee + -tx.value
             debited == Moved(k, from, c, 2)
             credited == Moved(debited, tx.to, tx.value, 0)
  <2>1. tx.to \in Account /\ c \in Int /\ tx.value \in Int /\ Holds(Debited(Executed(s, tx), tx), debited)
    BY <1>1, <1>3, <1>7, <1>14
  <2>2. Holds(applied, credited)
    <3>1. applied = ComputeBalance(Debited(Executed(s, tx), tx), tx.to, tx.value)
      BY <1>14 DEF Applied
    <3> HIDE DEF applied, debited, c
    <3> QED BY <2>1, <3>1, HoldsBalance
  <2>3. c + back = gain /\ nonces = 2 + 0
    BY <1>1, <1>14 DEF L!Gain, L!Nonces, Used
  <2> HIDE DEF applied, back, gain, nonces, used, c
  <2>4. Holds(ComputeBalance(applied, from, back), Moved(credited, from, back, 0))
    BY <1>1, <1>5, <2>2, HoldsBalance
  <2>5. debited \in Ledgers
    BY <1>1, <2>1, MovedFacts
  <2>6. Moved(credited, from, back, 0) = Moved(Moved(debited, from, back, 0), tx.to, tx.value, 0)
    <3> HIDE DEF debited
    <3> QED BY <1>1, <1>5, <2>1, <2>5, MovedCommute
  <2>7. Moved(debited, from, back, 0) = Moved(k, from, c + back, 2 + 0)
    BY <1>1, <1>5, <2>1, MovedTwice
  <2>8. Moved(debited, from, back, 0) = sent
    BY <2>3, <2>7
  <2>9. Moved(credited, from, back, 0) = L!Transact(k, tx)
    BY <1>6, <1>14, <2>6, <2>8
  <2> QED BY <1>8, <2>4, <2>9
<1> QED BY <1>3, <1>10, <1>11, <1>12, <1>13, <1>14 DEF Outcomes

\* A transaction adds a receipt and its fee, and moves the ledger.
LEMMA HoldsTransacted ==
  ASSUME NEW s, NEW k, Holds(s, k), NEW index \in Nat, NEW tx \in Tx
  PROVE  LET t == Transacted(s, index, tx)
             outcome == L!Outcome(k, tx)
             receipt == [index |-> index, tx |-> tx, status |-> outcome, paid |-> L!Paid(outcome)]
         IN  /\ Holds(t, L!Transact(k, tx))
             /\ t.paid = s.paid + L!Paid(outcome)
             /\ t.receipts = Append(s.receipts, receipt)
             /\ receipt \in Receipt
<1> DEFINE t == Transacted(s, index, tx)
           status == Status(s, tx)
           applied == Applied(s, tx, status)
           end == Refunded(applied, tx, Used(status))
           receipt == [index |-> index, tx |-> tx, status |-> status, paid |-> Used(status)]
<1>1. s \in StateRecord
  BY DEF Holds
<1>2. L!Outcome(k, tx) = status /\ L!Paid(status) = Used(status)
  BY OutcomeIsStatus, LedgerTypes
<1>3. Holds(end, L!Transact(k, tx))
  BY HoldsRefunded
<1>4. end.receipts = s.receipts /\ end.paid = s.paid
  <2>1. ASSUME NEW u \in StateRecord, NEW a \in Account, NEW c \in Int
        PROVE  /\ ComputeBalance(u, a, c).receipts = u.receipts
               /\ ComputeBalance(u, a, c).paid = u.paid
               /\ IncreaseNonce(u, a).receipts = u.receipts
               /\ IncreaseNonce(u, a).paid = u.paid
               /\ Read(u, a).receipts = u.receipts
               /\ Read(u, a).paid = u.paid
    BY DEF ComputeBalance, IncreaseNonce, SetAccount, Read, StateRecord
  <2>2. /\ tx.from \in Account /\ -tx.fee \in Int /\ -tx.value \in Int /\ tx.value \in Int
        /\ Contract \in Account /\ tx.fee - Used(status) \in Int
    BY TxTypes, UsedType, AddressAssumption
  <2>3. status \in Outcomes /\ (status = "transferred" => tx.to \in Account)
    BY <1>1, StatusFacts
  <2>4. /\ ComputeBalance(s, tx.from, -tx.fee) \in StateRecord
        /\ Prepared(s, tx) \in StateRecord
        /\ Executed(s, tx) \in StateRecord
        /\ Debited(Executed(s, tx), tx) \in StateRecord
        /\ applied \in StateRecord
    BY <1>1, <2>2, PreparedFacts, ComputeBalanceFacts, AppliedType
  <2>5. Prepared(s, tx).receipts = s.receipts /\ Prepared(s, tx).paid = s.paid
    BY <1>1, <2>1, <2>2, <2>4 DEF Prepared
  <2>6. Executed(s, tx).receipts = s.receipts /\ Executed(s, tx).paid = s.paid
    BY <2>1, <2>2, <2>4, <2>5 DEF Executed
  <2>7. /\ Debited(Executed(s, tx), tx).receipts = s.receipts
        /\ Debited(Executed(s, tx), tx).paid = s.paid
    BY <2>1, <2>2, <2>4, <2>6 DEF Debited
  <2>8. applied.receipts = s.receipts /\ applied.paid = s.paid
    <3> HIDE DEF status
    <3> QED BY <2>1, <2>2, <2>3, <2>4, <2>5, <2>6, <2>7 DEF Applied, Outcomes
  <2>9. end = ComputeBalance(applied, tx.from, tx.fee - Used(status))
    BY DEF Refunded
  <2> HIDE DEF applied, end
  <2> QED BY <2>1, <2>2, <2>4, <2>8, <2>9
<1>5. t \in StateRecord
  BY <1>1, TransactedFacts
<1>6. t = [end EXCEPT !.receipts = Append(@, receipt), !.paid = @ + Used(status)]
  BY DEF Transacted, Settled
<1>7. receipt \in Receipt
  BY <1>1, StatusFacts, UsedType DEF Receipt, Outcomes
<1>8. end \in StateRecord /\ Agrees(end) /\ Known(end.work) = L!Transact(k, tx)
  BY <1>3 DEF Holds
<1> HIDE DEF t, end, receipt
<1>9. /\ t.work = end.work /\ t.cache = end.cache
      /\ t.receipts = Append(s.receipts, receipt) /\ t.paid = s.paid + Used(status)
  <2> DEFINE used == Used(status)
             longer == Append(end.receipts, receipt)
             more == end.paid + used
  <2>1. t = [end EXCEPT !.receipts = longer, !.paid = more]
    BY <1>6
  <2>2. longer = Append(s.receipts, receipt) /\ more = s.paid + used
    BY <1>4
  <2> HIDE DEF longer, more, used
  <2>3. t.work = end.work /\ t.cache = end.cache /\ t.receipts = longer /\ t.paid = more
    BY <1>8, <2>1 DEF StateRecord
  <2> QED BY <2>2, <2>3 DEF used
<1>10. Holds(t, L!Transact(k, tx))
  BY <1>5, <1>8, <1>9 DEF Holds, Agrees
<1> QED BY <1>2, <1>7, <1>9, <1>10 DEF t, receipt

-----------------------------------------------------------------------------
(***************************************************************************)
(* A block, and the genesis block.                                         *)
(***************************************************************************)

\* The instance of Ledger counts like Wagon.
LEMMA CardinalityIsSame ==
  ASSUME NEW S
  PROVE  L!Cardinality(S) = Cardinality(S)
  BY DEF L!Cardinality, Cardinality

LEMMA HoldsRewarded ==
  ASSUME NEW s, NEW k, Holds(s, k), NEW block \in Block
  PROVE  /\ Holds(Rewarded(s, block.voters), L!Reward(k, block.voters, s.paid))
         /\ Rewarded(s, block.voters).receipts = s.receipts
         /\ Rewarded(s, block.voters).paid = s.paid
<1> DEFINE r == Rewarded(s, block.voters)
           share == s.paid \div Cardinality(block.voters)
           account(a) == [GetAccount(s, a) EXCEPT !.balance = @ + share]
           l == L!Reward(k, block.voters, s.paid)
<1>1. s \in StateRecord /\ Agrees(s) /\ Known(s.work) = k
  BY DEF Holds
<1>2. r \in StateRecord /\ r.receipts = s.receipts /\ r.paid = s.paid
  BY <1>1, RewardedFacts
<1>3. ASSUME NEW a \in Account
      PROVE  /\ r.work[a] = IF a \in block.voters THEN account(a) ELSE s.work[a]
             /\ account(a) \in AccountRecord
  BY <1>1, RewardedFacts
<1>4. Agrees(r)
  BY <1>1, SelfAlike, RewardedAlike
<1>5. l = [a \in Account |-> IF a \in block.voters THEN [k[a] EXCEPT !.balance = @ + share] ELSE k[a]]
  BY CardinalityIsSame DEF L!Reward
<1>6. s.work \in Accounts /\ r.work \in Accounts
  BY <1>1, <1>2 DEF StateRecord
<1>7. ASSUME NEW a \in Account PROVE Known(r.work)[a] = l[a]
  <2>1. GetAccount(s, a) = k[a] /\ k[a] = Content(s.work, a)
    BY <1>1, <1>6, HoldsFacts, KnownType
  <2>2. Known(r.work)[a] = Content(r.work, a)
    BY <1>6, KnownType
  <2>3. l[a] = IF a \in block.voters THEN account(a) ELSE k[a]
    BY <1>5, <2>1
  <2> HIDE DEF account, l, r
  <2>4. CASE a \in block.voters
    BY <1>3, <2>2, <2>3, <2>4, NoneIsNoAccount DEF Content
  <2>5. CASE a \notin block.voters
    BY <1>3, <2>1, <2>2, <2>3, <2>5 DEF Content
  <2> QED BY <2>4, <2>5
<1>8. Known(r.work) = l
  <2> HIDE DEF r, l, account
  <2>1. Known(r.work) = [a \in Account |-> l[a]]
    BY <1>7 DEF Known
  <2> QED BY <1>5, <2>1
<1> QED BY <1>2, <1>4, <1>8 DEF Holds

\* The recursion of Ledger's Run, as an operator on the function it defines.
RunStep(accounts, txs, run, i) ==
    IF i = 0 THEN [accounts |-> accounts, paid |-> 0]
    ELSE [accounts |-> L!Transact(run[i - 1].accounts, txs[i]),
          paid |-> run[i - 1].paid + L!Paid(L!Outcome(run[i - 1].accounts, txs[i]))]

\* A non-empty set of natural numbers has a least element.
LEMMA Least ==
  ASSUME NEW T \in SUBSET Nat, T # {}
  PROVE  \E x \in T : \A y \in T : x <= y
<1>1. PICK x \in T : \A y \in T : ~(<<y, x>> \in OpToRel(<, Nat))
  BY WFMin, NatLessThanWellFounded
<1>2. \A y \in T : ~(y < x)
  BY <1>1 DEF OpToRel
<1> QED BY <1>2

LEMMA RunExists ==
  ASSUME NEW accounts, NEW txs, NEW n \in Nat
  PROVE  \E f : f = [i \in 0..n |-> RunStep(accounts, txs, f, i)]
<1> DEFINE Has(m) == \E f : f = [i \in 0..m |-> RunStep(accounts, txs, f, i)]
           T == {m \in Nat : ~Has(m)}
<1> SUFFICES ASSUME T # {} PROVE FALSE
  OBVIOUS
<1>1. PICK m \in T : \A j \in T : m <= j
  BY Least
<1>2. m # 0
  <2> SUFFICES ASSUME m = 0 PROVE FALSE
    OBVIOUS
  <2> DEFINE f == [i \in 0..0 |-> [accounts |-> accounts, paid |-> 0]]
  <2>1. \A i \in 0..0 : RunStep(accounts, txs, f, i) = [accounts |-> accounts, paid |-> 0]
    BY DEF RunStep
  <2>2. f = [i \in 0..0 |-> RunStep(accounts, txs, f, i)]
    BY <2>1
  <2> QED BY <2>2
<1>3. m - 1 \in Nat /\ m - 1 \notin T
  BY <1>1, <1>2
<1>4. PICK f : f = [i \in 0..(m - 1) |-> RunStep(accounts, txs, f, i)]
  BY <1>3
<1> DEFINE g == [i \in 0..m |-> IF i < m THEN f[i] ELSE RunStep(accounts, txs, f, m)]
<1>5. ASSUME NEW i \in 0..m PROVE g[i] = RunStep(accounts, txs, g, i)
  <2>1. i > 0 => i - 1 \in 0..m /\ i - 1 < m /\ g[i - 1] = f[i - 1]
    OBVIOUS
  <2>2. RunStep(accounts, txs, g, i) = RunStep(accounts, txs, f, i)
    BY <2>1 DEF RunStep
  <2>3. CASE i < m
    <3>1. i \in 0..(m - 1)
      BY <2>3
    <3>2. f[i] = RunStep(accounts, txs, f, i)
      BY <1>4, <3>1
    <3> QED BY <2>2, <2>3, <3>2
  <2>4. CASE i = m
    BY <2>2, <2>4
  <2> QED BY <2>3, <2>4
<1>6. g = [i \in 0..m |-> RunStep(accounts, txs, g, i)]
  BY <1>5
<1>7. Has(m)
  BY <1>6
<1> QED BY <1>1, <1>7

LEMMA RunFacts ==
  ASSUME NEW accounts, NEW txs \in Seq(Tx)
  PROVE  LET run == L!Run(accounts, txs) IN
         /\ run[0] = [accounts |-> accounts, paid |-> 0]
         /\ \A i \in 1..Len(txs) :
              run[i] = [accounts |-> L!Transact(run[i - 1].accounts, txs[i]),
                        paid |-> run[i - 1].paid + L!Paid(L!Outcome(run[i - 1].accounts, txs[i]))]
<1> DEFINE run == L!Run(accounts, txs)
<1>1. run = CHOOSE f : f = [i \in 0..Len(txs) |-> RunStep(accounts, txs, f, i)]
  BY DEF L!Run, RunStep
<1>2. Len(txs) \in Nat
  OBVIOUS
<1>3. \E f : f = [i \in 0..Len(txs) |-> RunStep(accounts, txs, f, i)]
  BY <1>2, RunExists
<1> HIDE DEF run
<1>4. run = [i \in 0..Len(txs) |-> RunStep(accounts, txs, run, i)]
  BY <1>1, <1>3
<1>5. \A i \in 0..Len(txs) : run[i] = RunStep(accounts, txs, run, i)
  BY <1>4
<1>6. run[0] = [accounts |-> accounts, paid |-> 0]
  <2>1. RunStep(accounts, txs, run, 0) = [accounts |-> accounts, paid |-> 0]
    BY DEF RunStep
  <2>2. 0 \in 0..Len(txs)
    BY <1>2
  <2> QED BY <1>5, <2>1, <2>2
<1>7. ASSUME NEW i \in 1..Len(txs)
      PROVE  run[i] = [accounts |-> L!Transact(run[i - 1].accounts, txs[i]),
                       paid |-> run[i - 1].paid + L!Paid(L!Outcome(run[i - 1].accounts, txs[i]))]
  <2>1. i \in 0..Len(txs) /\ i # 0
    OBVIOUS
  <2> QED BY <1>5, <2>1 DEF RunStep
<1> QED BY <1>6, <1>7 DEF run

\* How often an account is among the first n validators.
Times(a, n) == Cardinality({i \in 1..n : Validator[i] = a})

\* The ledger after n validators have been endowed.
Endowment(n) ==
    [a \in Account |->
        [balance |-> IF a = Creator THEN Published - n * Minimum ELSE 0,
         nonce   |-> Times(a, n) + (IF a = Creator THEN n ELSE 0),
         stake   |-> Times(a, n) * Minimum]]

LEMMA TimesFacts ==
  ASSUME NEW a, NEW n \in Nat
  PROVE  /\ Times(a, n) \in Nat
         /\ Times(a, n + 1) = Times(a, n) + (IF a = Validator[n + 1] THEN 1 ELSE 0)
         /\ n = 0 => Times(a, n) = 0
<1> DEFINE S == {i \in 1..n : Validator[i] = a}
           T == {i \in 1..(n + 1) : Validator[i] = a}
<1>1. IsFiniteSet(S) /\ n + 1 \notin S
  <2>1. IsFiniteSet(1..n) /\ S \subseteq 1..n
    BY FS_Interval
  <2> QED BY <2>1, FS_Subset
<1>2. T = IF a = Validator[n + 1] THEN S \cup {n + 1} ELSE S
  <2>1. 1..(n + 1) = 1..n \cup {n + 1}
    OBVIOUS
  <2> QED BY <2>1
<1>3. Cardinality(S) \in Nat
  BY <1>1, FS_CardinalityType
<1>4. Cardinality(S \cup {n + 1}) = Cardinality(S) + 1
  BY <1>1, FS_AddElement
<1>5. n = 0 => Cardinality(S) = 0
  <2>1. n = 0 => S = {}
    OBVIOUS
  <2> QED BY <2>1, FS_EmptySet
<1>6. Times(a, n) = Cardinality(S) /\ Times(a, n + 1) = Cardinality(T)
  BY DEF Times
<1> HIDE DEF S, T
<1> QED BY <1>2, <1>3, <1>4, <1>5, <1>6

LEMMA EndowmentType ==
  ASSUME NEW n \in Nat
  PROVE  Endowment(n) \in Ledgers
<1>1. ASSUME NEW a \in Account
      PROVE  /\ (IF a = Creator THEN Published - n * Minimum ELSE 0) \in Int
             /\ Times(a, n) + (IF a = Creator THEN n ELSE 0) \in Nat
             /\ Times(a, n) * Minimum \in Int
  <2>1. Times(a, n) \in Nat /\ Published \in Nat /\ Minimum \in Nat
    BY TimesFacts, GenesisAssumption
  <2> QED BY <2>1
<1> QED BY <1>1 DEF Endowment, Ledgers, AccountRecord

\* set_delegated of what has just arrived moves it from the balance to the stake.
LEMMA HoldsEndowed ==
  ASSUME NEW s, NEW n \in Nat, Holds(s, Endowment(n)), NEW v \in Account, v = Validator[n + 1]
  PROVE  Holds(Endowed(s, v), Endowment(n + 1))
<1> DEFINE k == Endowment(n)
           k1 == Moved(k, Creator, 0, 1)
           k2 == Moved(k1, v, 0, 1)
           k3 == Moved(k2, Creator, -Minimum, 0)
           k4 == Moved(k3, v, Minimum, 0)
           k5 == Moved(k4, v, -Minimum, 0)
           given == ComputeBalance(ComputeBalance(IncreaseNonce(IncreaseNonce(s, Creator), v),
                        Creator, -Minimum), v, Minimum)
           paid == ComputeBalance(given, v, -Minimum)
           account == [GetAccount(paid, v) EXCEPT !.stake = @ + Minimum]
<1>1. /\ Creator \in Account /\ Minimum \in Int /\ -Minimum \in Int /\ Minimum \in Nat
      /\ Published \in Nat
  BY GenesisAssumption
<1>2. k \in Ledgers
  BY EndowmentType
<1>3. Holds(IncreaseNonce(s, Creator), k1)
  BY <1>1, HoldsNonce
<1>4. Holds(IncreaseNonce(IncreaseNonce(s, Creator), v), k2)
  <2> HIDE DEF k1
  <2> QED BY <1>3, HoldsNonce
<1>5. Holds(ComputeBalance(IncreaseNonce(IncreaseNonce(s, Creator), v), Creator, -Minimum), k3)
  <2> HIDE DEF k2
  <2> QED BY <1>1, <1>4, HoldsBalance
<1>6. Holds(given, k4)
  <2> HIDE DEF k3
  <2> QED BY <1>1, <1>5, HoldsBalance
<1>7. Holds(paid, k5)
  <2> HIDE DEF k4, given
  <2> QED BY <1>1, <1>6, HoldsBalance
<1>8. k1 \in Ledgers /\ k2 \in Ledgers
  <2> HIDE DEF k
  <2>1. k1 \in Ledgers
    BY <1>1, <1>2, MovedType
  <2> HIDE DEF k1
  <2>2. k2 \in Ledgers
    BY <2>1, MovedType
  <2> QED BY <2>1, <2>2
<1>9. k3 \in Ledgers
  <2> HIDE DEF k2
  <2> QED BY <1>1, <1>8, MovedFacts
<1> HIDE DEF k
<1>10. k5 = k3
  <2> HIDE DEF k3
  <2>1. k5 = Moved(k3, v, Minimum + -Minimum, 0 + 0)
    BY <1>1, <1>9, MovedTwice
  <2>2. Minimum + -Minimum = 0 /\ 0 + 0 = 0
    BY <1>1
  <2>3. k5 = Moved(k3, v, 0, 0)
    BY <2>1, <2>2
  <2> QED BY <1>9, <2>3, MovedNothing
<1>11. k3 = Moved(Moved(k, Creator, -Minimum, 1), v, 0, 1)
  <2>1. k3 = Moved(Moved(k1, Creator, -Minimum, 0), v, 0, 1)
    <3> HIDE DEF k1
    <3> QED BY <1>1, <1>8, MovedCommute
  <2>2. Moved(k1, Creator, -Minimum, 0) = Moved(k, Creator, 0 + -Minimum, 1 + 0)
    BY <1>1, <1>2, MovedTwice
  <2>3. 0 + -Minimum = -Minimum /\ 1 + 0 = 1
    BY <1>1
  <2> HIDE DEF k1, k3
  <2> QED BY <2>1, <2>2, <2>3
<1>12. Endowed(s, v) = SetAccount(paid, v, account)
  BY DEF Endowed, SetDelegated
<1>13. GetAccount(paid, v) = k3[v] /\ k3[v] \in AccountRecord
  <2> HIDE DEF k5, k3, paid
  <2> QED BY <1>7, <1>10, HoldsFacts
<1> DEFINE stake == [k3[v] EXCEPT !.stake = @ + Minimum]
<1>14. account = stake /\ stake \in AccountRecord
  <2>1. k3[v].stake + Minimum \in Int
    BY <1>1, <1>13 DEF AccountRecord
  <2> HIDE DEF k3
  <2> QED BY <1>13, <2>1 DEF AccountRecord
<1>15. Holds(Endowed(s, v), [k3 EXCEPT ![v] = stake])
  <2> HIDE DEF k5, k3, paid, account, stake
  <2> QED BY <1>7, <1>10, <1>12, <1>14, HoldsSet
<1>16. ASSUME NEW a \in Account
       PROVE  [k3 EXCEPT ![v] = stake][a] = Endowment(n + 1)[a]
  <2> DEFINE m == Moved(k, Creator, -Minimum, 1)
  <2>1. /\ m \in Ledgers
        /\ m[a] = IF a = Creator THEN [balance |-> k[Creator].balance + -Minimum,
                                       nonce |-> k[Creator].nonce + 1, stake |-> k[Creator].stake]
                  ELSE k[a]
    BY <1>1, <1>2, MovedFacts
  <2> HIDE DEF m
  <2>2. k3[a] = IF a = v THEN [balance |-> m[v].balance + 0, nonce |-> m[v].nonce + 1,
                               stake |-> m[v].stake]
                ELSE m[a]
    BY <1>11, <2>1, MovedFacts DEF m
  <2>3. k[a] = [balance |-> IF a = Creator THEN Published - n * Minimum ELSE 0,
                nonce   |-> Times(a, n) + (IF a = Creator THEN n ELSE 0),
                stake   |-> Times(a, n) * Minimum]
    BY DEF k, Endowment
  <2>4. Endowment(n + 1)[a]
          = [balance |-> IF a = Creator THEN Published - (n + 1) * Minimum ELSE 0,
             nonce   |-> Times(a, n + 1) + (IF a = Creator THEN n + 1 ELSE 0),
             stake   |-> Times(a, n + 1) * Minimum]
    BY DEF Endowment
  <2>5. Times(a, n) \in Nat /\ Times(a, n + 1) = Times(a, n) + (IF a = v THEN 1 ELSE 0)
    BY TimesFacts
  <2>6. /\ Published - (n + 1) * Minimum = Published - n * Minimum + -Minimum
        /\ (Times(a, n) + 1) * Minimum = Times(a, n) * Minimum + Minimum
        /\ n * Minimum \in Int /\ Times(a, n) * Minimum \in Int
    BY <1>1, <2>5
  <2>7. [k3 EXCEPT ![v] = stake][a] = IF a = v THEN stake ELSE k3[a]
    <3> HIDE DEF k3, stake
    <3> QED BY <1>9 DEF Ledgers
  <2> DEFINE given0 == n * Minimum
             given1 == (n + 1) * Minimum
             stake0 == Times(a, n) * Minimum
             stake1 == Times(a, n + 1) * Minimum
             times == Times(a, n)
  <2>8. /\ Published - given1 = Published - given0 + -Minimum /\ given0 \in Int
        /\ stake1 = stake0 + (IF a = v THEN Minimum ELSE 0) /\ stake0 \in Int
    BY <1>1, <2>5, <2>6
  <2>9. k[a] = [balance |-> IF a = Creator THEN Published - given0 ELSE 0,
                nonce   |-> times + (IF a = Creator THEN n ELSE 0), stake |-> stake0]
    BY <2>3
  <2>10. Endowment(n + 1)[a]
          = [balance |-> IF a = Creator THEN Published - given1 ELSE 0,
             nonce   |-> times + (IF a = v THEN 1 ELSE 0) + (IF a = Creator THEN n + 1 ELSE 0),
             stake   |-> stake1]
    BY <2>4, <2>5
  <2> HIDE DEF k3, given0, given1, stake0, stake1, times
  <2>11. times \in Nat
    BY <2>5 DEF times
  <2>12. CASE a = v
    <3>1. /\ stake.balance = k3[a].balance /\ stake.nonce = k3[a].nonce
          /\ stake.stake = k3[a].stake + Minimum
          /\ stake = [balance |-> stake.balance, nonce |-> stake.nonce, stake |-> stake.stake]
      <4>1. k3[a] \in AccountRecord
        BY <1>13, <2>12
      <4> QED BY <2>12, <4>1 DEF AccountRecord
    <3>2. k3[a] = [balance |-> m[a].balance + 0, nonce |-> m[a].nonce + 1, stake |-> m[a].stake]
      BY <2>2, <2>12
    <3> HIDE DEF stake
    <3>3. CASE a = Creator
      BY <1>1, <2>1, <2>7, <2>8, <2>9, <2>10, <2>11, <2>12, <3>1, <3>2, <3>3
    <3>4. CASE a # Creator
      BY <1>1, <2>1, <2>7, <2>8, <2>9, <2>10, <2>11, <2>12, <3>1, <3>2, <3>4
    <3> QED BY <3>3, <3>4
  <2>13. CASE a # v
    <3> HIDE DEF stake
    <3>1. CASE a = Creator
      BY <1>1, <2>1, <2>2, <2>7, <2>8, <2>9, <2>10, <2>11, <2>13, <3>1
    <3>2. CASE a # Creator
      BY <1>1, <2>1, <2>2, <2>7, <2>8, <2>9, <2>10, <2>11, <2>13, <3>2
    <3> QED BY <3>1, <3>2
  <2> QED BY <2>12, <2>13
<1>17. [k3 EXCEPT ![v] = stake] \in Ledgers /\ Endowment(n + 1) \in Ledgers
  <2> HIDE DEF k3, stake
  <2> QED BY <1>9, <1>14, EndowmentType DEF Ledgers
<1>18. [k3 EXCEPT ![v] = stake] = Endowment(n + 1)
  <2> HIDE DEF k3, stake
  <2> QED BY <1>16, <1>17, LedgersEqual
<1> QED BY <1>15, <1>18

-----------------------------------------------------------------------------
(***************************************************************************)
(* Wagon implements Ledger.                                                *)
(***************************************************************************)

\* The clean wagon is where Ledger is after the transactions executed so far; the
\* genesis wagon is where it is after the validators endowed so far.
LedgerInv ==
    /\ pc = "genesis" => committed = NoAccounts /\ Known(exec.work) = Endowment(next - 1)
    /\ pc = "execute" =>
        /\ next <= Len(job.block.txs) + 1
        /\ Known(ref.work) = L!Run(Known(committed), job.block.txs)[next - 1].accounts
        /\ ref.paid = L!Run(Known(committed), job.block.txs)[next - 1].paid
    /\ pc = "executed" => Known(ref.work) = L!After(Known(committed), job.block)

LEMMA NothingKnown ==
  Known(NoAccounts) = [a \in Account |-> [balance |-> 0, nonce |-> 0, stake |-> 0]]
  BY DEF Known, NoAccounts, Content, Default

LEMMA LedgerInvInit == Init => LedgerInv
<1> SUFFICES ASSUME Init PROVE LedgerInv
  OBVIOUS
<1> DEFINE clean == Clean(NoAccounts)
           zero == Known(NoAccounts)
<1>1. Creator \in Account /\ Published \in Nat /\ Published \in Int /\ Minimum \in Nat
  BY GenesisAssumption
<1>2. Holds(clean, zero)
  BY NoAccountsType, CleanFacts DEF Holds
<1>3. exec = ComputeBalance(clean, Creator, Published) /\ next = 1 /\ pc = "genesis"
      /\ committed = NoAccounts
  BY DEF Init
<1>4. Holds(exec, Moved(zero, Creator, Published, 0))
  <2> HIDE DEF clean, zero
  <2> QED BY <1>1, <1>2, <1>3, HoldsBalance
<1>5. zero \in Ledgers /\ \A a \in Account : zero[a] = [balance |-> 0, nonce |-> 0, stake |-> 0]
  BY NothingKnown, NoAccountsType, KnownType
<1> HIDE DEF zero, clean
<1>6. ASSUME NEW a \in Account
      PROVE  Moved(zero, Creator, Published, 0)[a] = Endowment(0)[a]
  <2>1. Times(a, 0) = 0
    BY TimesFacts
  <2>2. Endowment(0)[a] = [balance |-> IF a = Creator THEN Published - 0 * Minimum ELSE 0,
                           nonce |-> 0 + (IF a = Creator THEN 0 ELSE 0), stake |-> 0 * Minimum]
    BY <2>1 DEF Endowment
  <2>3. 0 * Minimum = 0
    BY <1>1
  <2>4. Endowment(0)[a] = [balance |-> IF a = Creator THEN Published ELSE 0, nonce |-> 0, stake |-> 0]
    BY <1>1, <2>2, <2>3
  <2>5. Moved(zero, Creator, Published, 0)[a] =
          IF a = Creator THEN [balance |-> zero[Creator].balance + Published,
                               nonce |-> zero[Creator].nonce + 0, stake |-> zero[Creator].stake]
          ELSE zero[a]
    BY <1>1, <1>5, MovedFacts
  <2>6. zero[Creator].balance + Published = Published /\ zero[Creator].nonce + 0 = 0
        /\ zero[Creator].stake = 0
    BY <1>1, <1>5
  <2>7. CASE a = Creator
    BY <2>4, <2>5, <2>6, <2>7
  <2>8. CASE a # Creator
    BY <1>5, <2>4, <2>5, <2>8
  <2> QED BY <2>7, <2>8
<1>7. Moved(zero, Creator, Published, 0) = Endowment(0)
  <2>1. Moved(zero, Creator, Published, 0) \in Ledgers /\ Endowment(0) \in Ledgers
    BY <1>1, <1>5, MovedFacts, EndowmentType
  <2> QED BY <1>6, <2>1, LedgersEqual
<1>8. next - 1 = 0
  BY <1>3
<1> QED BY <1>3, <1>4, <1>7, <1>8 DEF LedgerInv, Holds

LEMMA DeclareValidatorLedger == IInv /\ LedgerInv /\ DeclareValidator => LedgerInv'
<1> SUFFICES ASSUME IInv, LedgerInv, DeclareValidator PROVE LedgerInv'
  OBVIOUS
<1> DEFINE v == Validator[next]
           n == next - 1
<1>1. /\ exec \in StateRecord /\ Agrees(exec) /\ pc = "genesis"
      /\ next \in Nat \ {0} /\ next <= Len(Validator) /\ Validator \in Seq(Account)
  BY GenesisAssumption DEF IInv, TypeOK, DeclareValidator
<1>2. v \in Account /\ n \in Nat /\ n + 1 = next /\ v = Validator[n + 1]
  BY <1>1
<1>3. Holds(exec, Endowment(n))
  BY <1>1 DEF LedgerInv, Holds
<1>4. Holds(Endowed(exec, v), Endowment(n + 1))
  <2> HIDE DEF v, n
  <2> QED BY <1>2, <1>3, HoldsEndowed
<1>5. exec' = Endowed(exec, v) /\ next' = next + 1 /\ committed' = committed /\ pc' = pc
  BY DEF DeclareValidator
<1>6. n + 1 = next' - 1
  BY <1>1, <1>5
<1> HIDE DEF v, n
<1>7. Known(exec'.work) = Endowment(next' - 1)
  BY <1>4, <1>5, <1>6 DEF Holds
<1>8. Known(exec.work)' = Endowment(next - 1)'
  BY <1>7 DEF Known, Content, Default, Endowment, Times
<1> QED BY <1>1, <1>5, <1>8 DEF LedgerInv

LEMMA StartLedger ==
  ASSUME NEW block \in Block, NEW links \in BOOLEAN, NEW right \in BOOLEAN,
         IInv, LedgerInv, Start(block, links, right)
  PROVE  LedgerInv'
<1>1. committed \in Accounts /\ block.txs \in Seq(Tx)
  BY BlockAssumption DEF IInv, TypeOK
<1>2. /\ ref' = Clean(committed) /\ committed' = committed /\ next' = 1 /\ pc' = "execute"
      /\ job' = [block |-> block, links |-> links, right |-> right]
  BY DEF Start
<1>3. ref'.work = committed /\ ref'.paid = 0
  BY <1>2 DEF Clean
<1>4. L!Run(Known(committed), block.txs)[0] = [accounts |-> Known(committed), paid |-> 0]
  BY <1>1, RunFacts
<1>5. job'.block = block /\ next' - 1 = 0 /\ next' <= Len(block.txs) + 1
  BY <1>1, <1>2
<1>6. Known(ref'.work) = L!Run(Known(committed'), job'.block.txs)[next' - 1].accounts
      /\ ref'.paid = L!Run(Known(committed'), job'.block.txs)[next' - 1].paid
  BY <1>2, <1>3, <1>4, <1>5
<1> QED BY <1>2, <1>5, <1>6 DEF LedgerInv, Known

LEMMA ExecuteTransactionLedger == IInv /\ LedgerInv /\ ExecuteTransaction => LedgerInv'
<1> SUFFICES ASSUME IInv, LedgerInv, ExecuteTransaction PROVE LedgerInv'
  OBVIOUS
<1> DEFINE txs == job.block.txs
           tx == txs[next]
           run == L!Run(Known(committed), txs)
           before == run[next - 1]
           done == Transacted(ref, next, tx)
<1>1. job.block \in Block /\ pc = "execute" /\ next \in Nat \ {0} /\ next <= Len(txs)
  BY DEF IInv, TypeOK, ExecuteTransaction
<1>2. txs \in Seq(Tx) /\ next \in 1..Len(txs) /\ tx \in Tx
  BY <1>1, BlockAssumption
<1>3. ref \in StateRecord /\ Agrees(ref)
  BY <1>1 DEF IInv, TypeOK
<1>4. Known(ref.work) = before.accounts /\ ref.paid = before.paid
  BY <1>1 DEF LedgerInv
<1>5. run[next] = [accounts |-> L!Transact(before.accounts, tx),
                   paid |-> before.paid + L!Paid(L!Outcome(before.accounts, tx))]
  BY <1>2, RunFacts
<1>6. /\ ref' = done /\ next' = next + 1 /\ job' = job /\ committed' = committed /\ pc' = pc
  BY DEF ExecuteTransaction
<1>7. Holds(ref, before.accounts)
  BY <1>3, <1>4 DEF Holds
<1> HIDE DEF tx, before, run, txs
<1>8. /\ Holds(done, L!Transact(before.accounts, tx))
      /\ done.paid = ref.paid + L!Paid(L!Outcome(before.accounts, tx))
  <2> DEFINE k == before.accounts
  <2>1. Holds(ref, k) /\ next \in Nat
    BY <1>1, <1>7
  <2> HIDE DEF k
  <2>2. /\ Holds(done, L!Transact(k, tx))
        /\ done.paid = ref.paid + L!Paid(L!Outcome(k, tx))
    BY <1>2, <2>1, HoldsTransacted
  <2> QED BY <2>2 DEF k
<1>9. Known(ref'.work) = run[next].accounts /\ ref'.paid = run[next].paid
  BY <1>4, <1>5, <1>6, <1>8 DEF Holds
<1>10. next' - 1 = next /\ next' <= Len(txs) + 1
  BY <1>2, <1>6
<1>11. run = L!Run(Known(committed'), job'.block.txs) /\ txs = job'.block.txs
  BY <1>6 DEF run, txs
<1> QED BY <1>1, <1>6, <1>9, <1>10, <1>11 DEF LedgerInv, Known

LEMMA PreFinalizeLedger == IInv /\ LedgerInv /\ PreFinalize => LedgerInv'
<1> SUFFICES ASSUME IInv, LedgerInv, PreFinalize PROVE LedgerInv'
  OBVIOUS
<1> DEFINE block == job.block
           run == L!Run(Known(committed), block.txs)
           end == run[Len(block.txs)]
<1>1. /\ block \in Block /\ pc = "execute" /\ next \in Nat \ {0}
      /\ next > Len(block.txs) /\ next <= Len(block.txs) + 1
  BY DEF IInv, TypeOK, PreFinalize, LedgerInv
<1>2. block.txs \in Seq(Tx) /\ next - 1 = Len(block.txs)
  <2>1. block.txs \in Seq(Tx)
    BY <1>1, BlockAssumption
  <2>2. Len(block.txs) \in Nat
    BY <2>1
  <2> QED BY <1>1, <2>1, <2>2
<1>3. ref \in StateRecord /\ Agrees(ref)
  BY <1>1 DEF IInv, TypeOK
<1>4. Known(ref.work) = end.accounts /\ ref.paid = end.paid
  BY <1>1, <1>2 DEF LedgerInv
<1>5. Holds(ref, end.accounts)
  BY <1>3, <1>4 DEF Holds
<1>6. /\ ref' = Rewarded(ref, block.voters) /\ job' = job /\ committed' = committed
      /\ pc' = "executed"
  BY DEF PreFinalize
<1>7. L!After(Known(committed), block) = L!Reward(end.accounts, block.voters, end.paid)
  BY DEF L!After
<1> HIDE DEF block, run, end
<1>8. Holds(Rewarded(ref, block.voters), L!Reward(end.accounts, block.voters, ref.paid))
  BY <1>1, <1>5, HoldsRewarded
<1>9. Known(ref'.work) = L!After(Known(committed), block)
  BY <1>4, <1>6, <1>7, <1>8 DEF Holds
<1>10. Known(ref'.work) = L!After(Known(committed'), job'.block)
  BY <1>6, <1>9 DEF block
<1> QED BY <1>6, <1>10 DEF LedgerInv, Known

\* Every other step leaves the execution, or what its wagon and the chain say, alone.
LEMMA StepLedger == IInv /\ LedgerInv /\ [Next]_vars => LedgerInv'
<1> SUFFICES ASSUME IInv, LedgerInv, [Next]_vars PROVE LedgerInv'
  OBVIOUS
<1>1. CASE DeclareValidator
  BY <1>1, DeclareValidatorLedger
<1>2. CASE DeclareGenesis
  BY <1>2 DEF DeclareGenesis, LedgerInv
<1>3. ASSUME NEW block \in Block, StartPropose(block) PROVE LedgerInv'
  BY <1>3, StartLedger DEF StartPropose
<1>4. CASE StartLink
  <2>1. ASSUME NEW block \in Block, NEW right \in BOOLEAN, Start(block, TRUE, right)
        PROVE  LedgerInv'
    BY <2>1, StartLedger
  <2>2. CASE own # None /\ Start(own.block, TRUE, own.right)
    <3>1. own.block \in Block /\ own.right \in BOOLEAN
      BY <2>2 DEF IInv, TypeOK
    <3> QED BY <2>2, <3>1, StartLedger
  <2> QED BY <1>4, <2>1, <2>2 DEF StartLink
<1>5. CASE ExecuteTransaction
  BY <1>5, ExecuteTransactionLedger
<1>6. CASE PreFinalize
  BY <1>6, PreFinalizeLedger
<1>7. CASE MakeFinalize \/ Refuse \/ Commit \/ CommitFails
  BY <1>7 DEF MakeFinalize, Refuse, Commit, CommitFails, Finish, LedgerInv
<1>8. ASSUME NEW a \in Account, Query(a) PROVE LedgerInv'
  BY <1>8 DEF Query, LedgerInv
<1>9. CASE Restart
  BY <1>9 DEF Restart, LedgerInv
<1>10. CASE UNCHANGED vars
  BY <1>10 DEF vars, LedgerInv, Known, Content
<1> QED BY <1>1, <1>2, <1>3, <1>4, <1>5, <1>6, <1>7, <1>8, <1>9, <1>10 DEF Next

\* A step of Wagon is a step of Ledger or changes no account of the chain.
LEMMA StepImplements == IInv /\ LedgerInv /\ [Next]_vars => [L!Next]_(Known(committed))
<1> SUFFICES ASSUME IInv, LedgerInv, [Next]_vars,
                    Known(committed)' # Known(committed)
             PROVE  L!Next
  OBVIOUS
<1>1. committed' # committed
  BY DEF Known
<1>2. DeclareGenesis \/ Commit
  BY <1>1 DEF Next, vars, DeclareValidator, StartPropose, StartLink, Start, ExecuteTransaction,
              PreFinalize, MakeFinalize, Refuse, CommitFails, Query, Restart
<1>3. CASE DeclareGenesis
  <2>1. /\ committed' = exec.work /\ committed = NoAccounts
        /\ Known(exec.work) = Endowment(next - 1)
    BY <1>3 DEF DeclareGenesis, LedgerInv
  <2>2. next - 1 = Len(Validator) /\ Len(Validator) \in Nat /\ DOMAIN Validator = 1..Len(Validator)
    <3>1. Validator \in Seq(Account)
      BY GenesisAssumption
    <3>2. next \in Nat /\ next > Len(Validator) /\ next <= Len(Validator) + 1
      BY <1>3 DEF IInv, TypeOK, DeclareGenesis
    <3> QED BY <3>1, <3>2
  <2>3. L!Init
    BY <2>1, NothingKnown DEF L!Init
  <2>4. Endowment(Len(Validator)) = L!Genesis
    <3> DEFINE balance(a) == (IF a = Creator THEN 1 ELSE 0) * (Published - Len(Validator) * Minimum)
               nonce(a) == Times(a, Len(Validator)) + (IF a = Creator THEN 1 ELSE 0) * Len(Validator)
               stake(a) == Times(a, Len(Validator)) * Minimum
    <3>1. L!Genesis = [a \in Account |-> [balance |-> balance(a), nonce |-> nonce(a), stake |-> stake(a)]]
      BY <2>2, CardinalityIsSame DEF L!Genesis, Times
    <3>2. ASSUME NEW a \in Account
          PROVE  /\ balance(a) = IF a = Creator THEN Published - Len(Validator) * Minimum ELSE 0
                 /\ nonce(a) = Times(a, Len(Validator)) + (IF a = Creator THEN Len(Validator) ELSE 0)
      <4>1. Published - Len(Validator) * Minimum \in Int
        BY <2>2, GenesisAssumption
      <4> QED BY <2>2, <4>1
    <3> QED BY <3>1, <3>2 DEF Endowment
  <2>5. Known(committed)' = L!Genesis
    BY <2>1, <2>2, <2>4 DEF Known
  <2>6. L!DeclareGenesis
    BY <2>3, <2>5 DEF L!DeclareGenesis
  <2> QED BY <2>6 DEF L!Next
<1>4. CASE Commit
  <2>1. committed' = ref.work /\ job.block \in Block /\ pc = "executed"
    BY <1>4 DEF Commit, HashMatches, Header, IInv, TypeOK
  <2>2. Known(committed)' = L!After(Known(committed), job.block)
    BY <2>1 DEF LedgerInv, Known
  <2>3. L!LinkBlock(job.block)
    BY <2>2 DEF L!LinkBlock
  <2> QED BY <2>1, <2>3 DEF L!Next
<1> QED BY <1>2, <1>3, <1>4

THEOREM LedgerInvariance == Spec => []LedgerInv
<1>1. Init => LedgerInv
  BY LedgerInvInit
<1>2. IInv /\ LedgerInv /\ [Next]_vars => LedgerInv'
  BY StepLedger
<1> QED BY <1>1, <1>2, Invariance, PTL DEF Spec

\* The chain of a node does what Ledger says of its blocks, whatever is left in its
\* cache, its trie and its receipts (Wagon, State, Executor, StateDB).
THEOREM Refinement == Spec => Implements
<1>1. Init => L!Init
  BY NothingKnown DEF Init, L!Init
<1>2. IInv /\ LedgerInv /\ [Next]_vars => [L!Next]_(Known(committed))
  BY StepImplements
<1> QED BY <1>1, <1>2, Invariance, LedgerInvariance, PTL DEF Spec, Implements, L!Spec

-----------------------------------------------------------------------------
(***************************************************************************)
(* Sums over the accounts.                                                 *)
(***************************************************************************)

\* What an account is worth; a map of accounts also stands for its ledger.
Worth(map, a) == Content(map, a).balance + Content(map, a).stake

\* The recursion of Supply, as an operator on the function it defines.
SumStep(map, sum, S) ==
    IF S = {} THEN 0
    ELSE Worth(map, CHOOSE a \in S : TRUE) + sum[S \ {CHOOSE a \in S : TRUE}]

IsSum(map, sum) == sum = [S \in SUBSET Account |-> SumStep(map, sum, S)]

\* The sets of at most n accounts.
Small(n) == {S \in SUBSET Account : Cardinality(S) <= n}

LEMMA AccountSets ==
  ASSUME NEW S \in SUBSET Account
  PROVE  /\ IsFiniteSet(S) /\ Cardinality(S) \in Nat
         /\ Cardinality(S) = 0 <=> S = {}
         /\ \A a \in S : Cardinality(S \ {a}) = Cardinality(S) - 1
<1>1. IsFiniteSet(S)
  BY AddressAssumption, FS_Subset
<1> QED BY <1>1, FS_CardinalityType, FS_EmptySet, FS_RemoveElement

LEMMA SumExists ==
  ASSUME NEW map
  PROVE  \E sum : IsSum(map, sum)
<1> DEFINE Has(n) == \E f : f = [S \in Small(n) |-> SumStep(map, f, S)]
           T == {n \in Nat : ~Has(n)}
<1>1. T = {}
  <2> SUFFICES ASSUME T # {} PROVE FALSE
    OBVIOUS
  <2>1. PICK n \in T : \A j \in T : n <= j
    BY Least
  <2>2. n # 0
    <3> SUFFICES ASSUME n = 0 PROVE FALSE
      OBVIOUS
    <3> DEFINE f == [S \in Small(0) |-> 0]
    <3>1. \A S \in Small(0) : S = {}
      BY AccountSets DEF Small
    <3>2. \A S \in Small(0) : SumStep(map, f, S) = 0
      BY <3>1 DEF SumStep
    <3>3. f = [S \in Small(0) |-> SumStep(map, f, S)]
      BY <3>2
    <3> QED BY <3>3
  <2>3. n \in Nat /\ n - 1 \in Nat /\ n - 1 \notin T
    BY <2>1, <2>2
  <2>4. PICK f : f = [S \in Small(n - 1) |-> SumStep(map, f, S)]
    BY <2>3
  <2> DEFINE g == [S \in Small(n) |-> IF Cardinality(S) < n THEN f[S] ELSE SumStep(map, f, S)]
  <2>5. ASSUME NEW S \in Small(n) PROVE g[S] = SumStep(map, g, S)
    <3>1. S \in SUBSET Account /\ Cardinality(S) \in Nat /\ Cardinality(S) <= n
      BY AccountSets DEF Small
    <3>2. SumStep(map, g, S) = SumStep(map, f, S)
      <4>1. CASE S = {}
        BY <4>1 DEF SumStep
      <4>2. CASE S # {}
        <5> DEFINE a == CHOOSE a \in S : TRUE
                   rest == S \ {a}
        <5>1. a \in S
          BY <4>2
        <5> HIDE DEF a
        <5>2. rest \in SUBSET Account /\ Cardinality(rest) = Cardinality(S) - 1
          BY <3>1, <5>1, AccountSets
        <5>3. rest \in Small(n) /\ Cardinality(rest) < n
          BY <2>3, <3>1, <5>2 DEF Small
        <5>4. g[rest] = f[rest]
          BY <5>3
        <5>5. SumStep(map, g, S) = Worth(map, a) + g[rest]
              /\ SumStep(map, f, S) = Worth(map, a) + f[rest]
          BY <4>2 DEF SumStep, a
        <5> QED BY <5>4, <5>5
      <4> QED BY <4>1, <4>2
    <3>3. CASE Cardinality(S) < n
      <4>1. S \in Small(n - 1)
        BY <2>3, <3>1, <3>3 DEF Small
      <4>2. f[S] = SumStep(map, f, S)
        BY <2>4, <4>1
      <4> QED BY <3>2, <3>3, <4>2
    <3>4. CASE ~(Cardinality(S) < n)
      BY <3>2, <3>4
    <3> QED BY <3>3, <3>4
  <2>6. g = [S \in Small(n) |-> SumStep(map, g, S)]
    BY <2>5
  <2>7. Has(n)
    BY <2>6
  <2> QED BY <2>1, <2>7
<1> DEFINE all == Cardinality(Account)
<1>2. all \in Nat /\ Small(all) = SUBSET Account
  <2>1. IsFiniteSet(Account) /\ all \in Nat
    BY AddressAssumption, FS_CardinalityType
  <2>2. ASSUME NEW S \in SUBSET Account PROVE Cardinality(S) <= all
    BY <2>1, FS_Subset
  <2> QED BY <2>1, <2>2 DEF Small
<1>3. Has(all)
  BY <1>1, <1>2
<1> QED BY <1>2, <1>3 DEF IsSum

LEMMA SupplyIsSum ==
  ASSUME NEW map
  PROVE  \E sum : IsSum(map, sum) /\ Supply(map) = sum[Account]
<1> DEFINE sum == CHOOSE f : IsSum(map, f)
<1>1. IsSum(map, sum)
  BY SumExists
<1>2. Supply(map) = sum[Account]
  BY Zenon DEF Supply, MapThenSumSet, MapThenFoldSet, Worth, SumStep, IsSum
<1> QED BY <1>1, <1>2

LEMMA SumFacts ==
  ASSUME NEW map \in Accounts, NEW sum, IsSum(map, sum), NEW S \in SUBSET Account
  PROVE  /\ S = {} => sum[S] = 0
         /\ S # {} => \E a \in S : a = (CHOOSE b \in S : TRUE) /\ sum[S] = Worth(map, a) + sum[S \ {a}]
<1>1. sum[S] = SumStep(map, sum, S)
  <2>1. sum = [R \in SUBSET Account |-> SumStep(map, sum, R)]
    BY DEF IsSum
  <2> QED BY <2>1
<1>2. S # {} => (CHOOSE b \in S : TRUE) \in S
  OBVIOUS
<1> QED BY <1>1, <1>2 DEF SumStep

LEMMA WorthType ==
  ASSUME NEW map \in Accounts, NEW a \in Account
  PROVE  Worth(map, a) \in Int
  BY ContentType DEF Worth, AccountRecord

\* The accounts in V are worth d more, the others what they were.
Shifted(map, later, V, d) ==
    \A a \in Account : Worth(later, a) = Worth(map, a) + (IF a \in V THEN d ELSE 0)

SumShifted(sum, after, V, d) ==
    \A S \in SUBSET Account : sum[S] \in Int /\ after[S] = sum[S] + d * Cardinality(S \cap V)

\* Then so are the sums, once for every account in V.
LEMMA SumShift ==
  ASSUME NEW map \in Accounts, NEW sum, IsSum(map, sum),
         NEW later \in Accounts, NEW after, IsSum(later, after),
         NEW V \in SUBSET Account, NEW d \in Int, Shifted(map, later, V, d)
  PROVE  SumShifted(sum, after, V, d)
<1> DEFINE Fine(S) == sum[S] \in Int /\ after[S] = sum[S] + d * Cardinality(S \cap V)
           T == {n \in Nat : \E S \in SUBSET Account : Cardinality(S) = n /\ ~Fine(S)}
<1>1. T = {}
  <2> SUFFICES ASSUME T # {} PROVE FALSE
    OBVIOUS
  <2>1. PICK n \in T : \A j \in T : n <= j
    BY Least
  <2>2. PICK S \in SUBSET Account : Cardinality(S) = n /\ ~Fine(S)
    BY <2>1
  <2>3. CASE S = {}
    <3>1. sum[S] = 0 /\ after[S] = 0
      BY <2>3, SumFacts
    <3>2. Cardinality(S \cap V) = 0
      <4>1. S \cap V = {}
        BY <2>3
      <4> QED BY <4>1, FS_EmptySet
    <3>3. d * Cardinality(S \cap V) = 0
      <4> DEFINE many == Cardinality(S \cap V)
      <4>1. many = 0
        BY <3>2
      <4> HIDE DEF many
      <4>2. d * many = 0
        BY <4>1
      <4> QED BY <4>2 DEF many
    <3> DEFINE product == d * Cardinality(S \cap V)
    <3> HIDE DEF product
    <3>4. sum[S] \in Int /\ after[S] = sum[S] + product
      BY <3>1, <3>3 DEF product
    <3>5. Fine(S)
      BY <3>4 DEF product
    <3> QED BY <2>2, <3>5
  <2>4. CASE S # {}
    <3>1. PICK a \in S : a = (CHOOSE b \in S : TRUE) /\ sum[S] = Worth(map, a) + sum[S \ {a}]
      BY <2>4, SumFacts
    <3>2. after[S] = Worth(later, a) + after[S \ {a}]
      <4>1. PICK e \in S : e = (CHOOSE b \in S : TRUE) /\ after[S] = Worth(later, e) + after[S \ {e}]
        BY <2>4, SumFacts
      <4>2. e = a
        BY <3>1, <4>1
      <4> QED BY <4>1, <4>2
    <3> DEFINE rest == S \ {a}
               many == Cardinality(rest \cap V)
    <3>3. rest \in SUBSET Account /\ Cardinality(rest) = n - 1 /\ n \in Nat
      BY <2>2, AccountSets
    <3>4. Cardinality(rest) \in Nat /\ many \in Nat
      BY <3>3, AccountSets
    <3>5. n - 1 \in Nat /\ n - 1 \notin T
      <4>1. n - 1 \in Nat /\ ~(n <= n - 1)
        BY <3>3, <3>4
      <4> HIDE DEF T
      <4> QED BY <2>1, <4>1
    <3>6. Fine(rest)
      BY <3>3, <3>4, <3>5
    <3>7. Cardinality(S \cap V) = many + (IF a \in V THEN 1 ELSE 0)
      <4>1. CASE a \in V
        <5>1. IsFiniteSet(rest \cap V) /\ a \notin rest \cap V
          BY <3>3, AccountSets
        <5>2. S \cap V = (rest \cap V) \cup {a}
          BY <3>1, <4>1
        <5> QED BY <4>1, <5>1, <5>2, FS_AddElement
      <4>2. CASE a \notin V
        <5>1. S \cap V = rest \cap V
          BY <4>2
        <5>2. many + 0 = many
          BY <3>4
        <5>3. Cardinality(S \cap V) = many
          BY <5>1
        <5> HIDE DEF many
        <5> QED BY <4>2, <5>2, <5>3
      <4> QED BY <4>1, <4>2
    <3>8. /\ Worth(map, a) \in Int /\ Worth(later, a) \in Int
          /\ Worth(later, a) = Worth(map, a) + (IF a \in V THEN d ELSE 0)
      BY WorthType DEF Shifted
    <3>9. sum[S] = Worth(map, a) + sum[rest] /\ after[S] = Worth(later, a) + after[rest]
      BY <3>1, <3>2
    <3>10. sum[rest] \in Int /\ after[rest] = sum[rest] + d * many
      BY <3>6
    <3>11. /\ d * many \in Int
           /\ d * (many + 1) = d * many + d
           /\ d * (many + 0) = d * many
      BY <3>4
    <3> HIDE DEF many, rest
    <3>12. Fine(S)
      <4>1. CASE a \in V
        BY <3>4, <3>7, <3>8, <3>9, <3>10, <3>11, <4>1
      <4>2. CASE a \notin V
        BY <3>4, <3>7, <3>8, <3>9, <3>10, <3>11, <4>2
      <4> QED BY <4>1, <4>2
    <3> QED BY <2>2, <3>12
  <2> QED BY <2>3, <2>4
<1>2. ASSUME NEW S \in SUBSET Account PROVE Fine(S)
  <2>1. Cardinality(S) \in Nat
    BY AccountSets
  <2> HIDE DEF Fine
  <2> QED BY <1>1, <2>1
<1> QED BY <1>2 DEF SumShifted

LEMMA SupplyShift ==
  ASSUME NEW map \in Accounts, NEW later \in Accounts, NEW V \in SUBSET Account, NEW d \in Int,
         Shifted(map, later, V, d)
  PROVE  Supply(map) \in Int /\ Supply(later) = Supply(map) + d * Cardinality(V)
<1>1. PICK sum : IsSum(map, sum) /\ Supply(map) = sum[Account]
  BY SupplyIsSum
<1>2. PICK after : IsSum(later, after) /\ Supply(later) = after[Account]
  BY SupplyIsSum
<1>3. IsSum(map, sum) /\ IsSum(later, after)
  BY <1>1, <1>2
<1>4. SumShifted(sum, after, V, d)
  BY <1>3, SumShift
<1>5. Account \in SUBSET Account /\ Account \cap V = V
  OBVIOUS
<1> QED BY <1>1, <1>2, <1>4, <1>5 DEF SumShifted

\* Where nothing is worth anything, nothing is there.
LEMMA SupplyZero ==
  ASSUME NEW map \in Accounts, \A a \in Account : Worth(map, a) = 0
  PROVE  Supply(map) = 0
<1>1. PICK sum : IsSum(map, sum) /\ Supply(map) = sum[Account]
  BY SupplyIsSum
<1> DEFINE T == {n \in Nat : \E S \in SUBSET Account : Cardinality(S) = n /\ sum[S] # 0}
<1>2. T = {}
  <2> SUFFICES ASSUME T # {} PROVE FALSE
    OBVIOUS
  <2>1. PICK n \in T : \A j \in T : n <= j
    BY Least
  <2>2. PICK S \in SUBSET Account : Cardinality(S) = n /\ sum[S] # 0
    BY <2>1
  <2>3. S # {}
    BY <1>1, <2>2, SumFacts
  <2>4. PICK a \in S : sum[S] = Worth(map, a) + sum[S \ {a}]
    BY <1>1, <2>3, SumFacts
  <2>5. S \ {a} \in SUBSET Account /\ Cardinality(S \ {a}) = n - 1 /\ n - 1 \in Nat
    BY <2>2, <2>4, AccountSets
  <2>6. n - 1 \notin T
    BY <2>1, <2>5
  <2>7. sum[S \ {a}] = 0
    BY <2>5, <2>6
  <2> QED BY <2>2, <2>4, <2>7
<1>3. Account \in SUBSET Account /\ Cardinality(Account) \in Nat
  BY AccountSets
<1> QED BY <1>1, <1>2, <1>3

-----------------------------------------------------------------------------
(***************************************************************************)
(* Where the money is.                                                     *)
(***************************************************************************)

LEMMA LedgerIsMap ==
  ASSUME NEW k \in Ledgers
  PROVE  /\ k \in Accounts
         /\ \A a \in Account : k[a] \in AccountRecord /\ Worth(k, a) = k[a].balance + k[a].stake
  BY NoneIsNoAccount DEF Ledgers, Accounts, Worth, Content

\* A ledger has the money of the map it is known from.
LEMMA SupplyKnown ==
  ASSUME NEW map \in Accounts
  PROVE  Supply(map) \in Int /\ Supply(Known(map)) = Supply(map)
<1> DEFINE k == Known(map)
<1>1. k \in Ledgers /\ \A a \in Account : k[a] = Content(map, a)
  BY KnownType
<1> HIDE DEF k
<1>2. k \in Accounts /\ \A a \in Account : Worth(k, a) = Worth(map, a)
  BY <1>1, LedgerIsMap DEF Worth
<1>3. Shifted(map, k, {}, 0)
  BY <1>2, WorthType DEF Shifted
<1>4. Supply(map) \in Int /\ Supply(k) = Supply(map) + 0 * Cardinality({})
  BY <1>2, <1>3, SupplyShift
<1>5. Cardinality({}) = 0
  BY FS_EmptySet
<1> QED BY <1>4, <1>5 DEF k

LEMMA SupplyMoved ==
  ASSUME NEW k \in Ledgers, NEW a \in Account, NEW c \in Int, NEW n \in Nat
  PROVE  Supply(k) \in Int /\ Supply(Moved(k, a, c, n)) = Supply(k) + c
<1> DEFINE l == Moved(k, a, c, n)
<1>1. /\ l \in Ledgers
      /\ \A b \in Account :
           l[b] = IF b = a THEN [balance |-> k[a].balance + c, nonce |-> k[a].nonce + n,
                                 stake |-> k[a].stake]
                  ELSE k[b]
  BY MovedFacts
<1> HIDE DEF l
<1>2. ASSUME NEW b \in Account
      PROVE  Worth(l, b) = Worth(k, b) + (IF b \in {a} THEN c ELSE 0)
  <2>1. /\ Worth(k, b) = k[b].balance + k[b].stake /\ Worth(l, b) = l[b].balance + l[b].stake
        /\ k[b].balance \in Int /\ k[b].stake \in Int
    BY <1>1, LedgerIsMap DEF AccountRecord
  <2> QED BY <1>1, <2>1
<1>3. Shifted(k, l, {a}, c)
  BY <1>2 DEF Shifted
<1>4. k \in Accounts /\ l \in Accounts /\ {a} \in SUBSET Account
  BY <1>1, LedgerIsMap
<1>5. Supply(k) \in Int /\ Supply(l) = Supply(k) + c * Cardinality({a})
  BY <1>3, <1>4, SupplyShift
<1>6. Cardinality({a}) = 1
  BY FS_Singleton
<1> QED BY <1>5, <1>6 DEF l

\* A transaction changes the money by what its receipt issues, and by its fee, which
\* the wagon has until the block is done.
LEMMA SupplyTransact ==
  ASSUME NEW s, NEW k, Holds(s, k), NEW tx \in Tx, NEW receipt,
         receipt.tx = tx, receipt.status = L!Outcome(k, tx)
  PROVE  Supply(L!Transact(k, tx)) = Supply(k) + Issued(receipt) - L!Paid(L!Outcome(k, tx))
<1> DEFINE outcome == L!Outcome(k, tx)
           gain == L!Gain(outcome, tx)
           nonces == L!Nonces(outcome)
           sent == Moved(k, tx.from, gain, nonces)
<1>1. k \in Ledgers
  BY KnownType DEF Holds, StateRecord
<1>2. outcome \in Outcomes /\ (outcome = "transferred" => tx.to \in Account)
  BY OutcomeIsStatus, StatusFacts DEF Holds
<1>3. gain \in Int /\ nonces \in Nat
  BY LedgerTypes
<1>4. L!Transact(k, tx) = IF outcome = "transferred" THEN Moved(sent, tx.to, tx.value, 0) ELSE sent
  <2>1. outcome = "transferred" => tx.to \in Account
    BY <1>2
  <2> QED BY <1>1, <1>3, <2>1, TransactIsMove
<1>5. tx.from \in Account /\ tx.value \in Nat /\ tx.fee \in Nat /\ FeeExecute \in Nat
  BY TxTypes, GenesisAssumption
<1>6. receipt.tx = tx /\ receipt.status = outcome
  OBVIOUS
<1>7. gain = CASE outcome = "rejected" -> tx.fee
               [] outcome \in {"malformed", "transferred"} -> -(tx.value + FeeExecute)
               [] OTHER -> -FeeExecute
  BY DEF L!Gain
<1>8. L!Paid(outcome) = IF outcome = "rejected" THEN 0 ELSE FeeExecute
  BY DEF L!Paid
<1> HIDE DEF outcome, gain, nonces
<1>9. sent \in Ledgers /\ Supply(k) \in Int /\ Supply(sent) = Supply(k) + gain
  <2>1. Moved(k, tx.from, gain, nonces) \in Ledgers
    BY <1>1, <1>3, <1>5, MovedType
  <2>2. Supply(k) \in Int /\ Supply(Moved(k, tx.from, gain, nonces)) = Supply(k) + gain
    BY <1>1, <1>3, <1>5, SupplyMoved
  <2> QED BY <2>1, <2>2
<1> HIDE DEF sent
<1>10. CASE outcome = "transferred"
  <2>1. Supply(Moved(sent, tx.to, tx.value, 0)) = Supply(sent) + tx.value
    BY <1>2, <1>5, <1>9, <1>10, SupplyMoved
  <2>2. gain = -(tx.value + FeeExecute) /\ Issued(receipt) = 0 /\ L!Paid(outcome) = FeeExecute
    BY <1>6, <1>7, <1>8, <1>10 DEF Issued
  <2>3. Supply(L!Transact(k, tx)) = Supply(k) + Issued(receipt) - L!Paid(outcome)
    BY <1>4, <1>5, <1>9, <1>10, <2>1, <2>2
  <2> QED BY <2>3 DEF outcome
<1>11. CASE outcome # "transferred"
  <2>1. Supply(L!Transact(k, tx)) = Supply(k) + gain
    BY <1>4, <1>9, <1>11
  <2>2. gain = Issued(receipt) - L!Paid(outcome) /\ Issued(receipt) \in Int /\ L!Paid(outcome) \in Int
    BY <1>2, <1>5, <1>6, <1>7, <1>8, <1>11 DEF Issued, Outcomes
  <2>3. Supply(L!Transact(k, tx)) = Supply(k) + Issued(receipt) - L!Paid(outcome)
    BY <1>9, <2>1, <2>2
  <2> QED BY <2>3 DEF outcome
<1> QED BY <1>10, <1>11

LEMMA Shares ==
  ASSUME NEW paid \in Nat, NEW n \in Nat, n # 0
  PROVE  /\ paid \div n \in Int /\ paid % n \in Int
         /\ (paid \div n) * n = paid - (paid % n)
  OBVIOUS

\* The rewards pay the fees out, but for the remainder.
LEMMA SupplyReward ==
  ASSUME NEW k \in Ledgers, NEW block \in Block, NEW paid \in Nat
  PROVE  Supply(L!Reward(k, block.voters, paid)) =
           Supply(k) + paid - (paid % Cardinality(block.voters))
<1> DEFINE V == block.voters
           n == Cardinality(V)
           share == paid \div n
           l == L!Reward(k, V, paid)
<1>1. V \in SUBSET Account /\ n \in Nat /\ n # 0
  BY BlockAssumption, AccountSets
<1>2. l = [a \in Account |-> IF a \in V THEN [k[a] EXCEPT !.balance = @ + share] ELSE k[a]]
  BY CardinalityIsSame DEF L!Reward
<1> SUFFICES Supply(l) = Supply(k) + paid - (paid % n)
  OBVIOUS
<1> HIDE DEF n, V
<1>3. share \in Int /\ share * n = paid - (paid % n) /\ paid % n \in Int
  BY <1>1, Shares
<1> HIDE DEF share
<1>4. ASSUME NEW a \in Account
      PROVE  /\ l[a] = IF a \in V THEN [k[a] EXCEPT !.balance = @ + share] ELSE k[a]
             /\ l[a] \in AccountRecord
             /\ l[a].balance + l[a].stake =
                  k[a].balance + k[a].stake + (IF a \in V THEN share ELSE 0)
  <2>1. k[a] \in AccountRecord
    BY LedgerIsMap
  <2>2. l[a] = IF a \in V THEN [k[a] EXCEPT !.balance = @ + share] ELSE k[a]
    BY <1>2
  <2> HIDE DEF l
  <2> QED BY <1>3, <2>1, <2>2 DEF AccountRecord
<1>5. l \in Ledgers
  BY <1>2, <1>4 DEF Ledgers
<1> HIDE DEF l
<1>6. Shifted(k, l, V, share)
  BY <1>4, <1>5, LedgerIsMap DEF Shifted
<1>7. k \in Accounts /\ l \in Accounts
  BY <1>5, LedgerIsMap
<1>8. Supply(k) \in Int /\ Supply(l) = Supply(k) + share * Cardinality(V)
  BY <1>1, <1>3, <1>6, <1>7, SupplyShift
<1> QED BY <1>3, <1>8 DEF n

LEMMA SupplyPublished == Supply(Endowment(0)) = Published
<1> DEFINE zero == Known(NoAccounts)
<1>1. zero \in Ledgers /\ \A a \in Account : zero[a] = [balance |-> 0, nonce |-> 0, stake |-> 0]
  BY NothingKnown, NoAccountsType, KnownType
<1>2. Creator \in Account /\ Published \in Int /\ Minimum \in Nat
  BY GenesisAssumption
<1> HIDE DEF zero
<1>3. Supply(zero) = 0
  BY <1>1, LedgerIsMap, SupplyZero
<1>4. Supply(Moved(zero, Creator, Published, 0)) = Published
  BY <1>1, <1>2, <1>3, SupplyMoved
<1> DEFINE one == Moved(zero, Creator, Published, 0)
<1>5. /\ one \in Ledgers
      /\ \A a \in Account :
           one[a] = IF a = Creator
                    THEN [balance |-> zero[Creator].balance + Published,
                          nonce |-> zero[Creator].nonce + 0, stake |-> zero[Creator].stake]
                    ELSE zero[a]
  BY <1>1, <1>2, MovedFacts
<1>6. Endowment(0) \in Ledgers
  BY EndowmentType
<1>7. ASSUME NEW a \in Account
      PROVE  Worth(Endowment(0), a) = Worth(one, a) + (IF a \in {} THEN 0 ELSE 0)
  <2>1. Times(a, 0) = 0
    BY TimesFacts
  <2>2. /\ Endowment(0)[a].balance = IF a = Creator THEN Published - 0 * Minimum ELSE 0
        /\ Endowment(0)[a].stake = 0 * Minimum
    BY <2>1 DEF Endowment
  <2>3. Worth(Endowment(0), a) = Endowment(0)[a].balance + Endowment(0)[a].stake
        /\ Worth(one, a) = one[a].balance + one[a].stake
    BY <1>5, <1>6, LedgerIsMap
  <2>4. one[a].balance = (IF a = Creator THEN Published ELSE 0) /\ one[a].stake = 0
    BY <1>1, <1>2, <1>5
  <2> HIDE DEF one
  <2> QED BY <1>2, <2>2, <2>3, <2>4
<1> HIDE DEF one
<1>8. one \in Accounts /\ Endowment(0) \in Accounts /\ Shifted(one, Endowment(0), {}, 0)
  BY <1>5, <1>6, <1>7, LedgerIsMap DEF Shifted
<1>9. Supply(Endowment(0)) = Supply(one) + 0 * Cardinality({})
  BY <1>8, SupplyShift
<1>10. Cardinality({}) = 0
  BY FS_EmptySet
<1> QED BY <1>2, <1>4, <1>9, <1>10 DEF one

\* The minimum leaves the creator and becomes the stake of a validator.
LEMMA SupplyEndowed ==
  ASSUME NEW n \in Nat, NEW v \in Account, v = Validator[n + 1]
  PROVE  Supply(Endowment(n + 1)) = Supply(Endowment(n))
<1> DEFINE k == Endowment(n)
           mid == Moved(k, Creator, -Minimum, 1)
           l == Endowment(n + 1)
<1>1. Creator \in Account /\ Published \in Nat /\ Minimum \in Nat /\ -Minimum \in Int
  BY GenesisAssumption
<1>2. k \in Ledgers /\ l \in Ledgers
  BY EndowmentType
<1>3. ASSUME NEW a \in Account
      PROVE  /\ k[a].balance = IF a = Creator THEN Published - n * Minimum ELSE 0
             /\ k[a].stake = Times(a, n) * Minimum
             /\ l[a].balance = IF a = Creator THEN Published - (n + 1) * Minimum ELSE 0
             /\ l[a].stake = Times(a, n + 1) * Minimum
  BY DEF Endowment
<1> HIDE DEF k, l
<1>4. mid \in Ledgers
      /\ \A a \in Account :
           mid[a] = IF a = Creator THEN [balance |-> k[Creator].balance + -Minimum,
                                         nonce |-> k[Creator].nonce + 1, stake |-> k[Creator].stake]
                    ELSE k[a]
  BY <1>1, <1>2, MovedFacts
<1>5. Supply(k) \in Int /\ Supply(mid) = Supply(k) + -Minimum
  BY <1>1, <1>2, SupplyMoved
<1> HIDE DEF mid
<1>6. ASSUME NEW a \in Account
      PROVE  Worth(l, a) = Worth(mid, a) + (IF a \in {v} THEN Minimum ELSE 0)
  <2>1. Times(a, n) \in Nat /\ Times(a, n + 1) = Times(a, n) + (IF a = v THEN 1 ELSE 0)
    BY TimesFacts
  <2>2. /\ Worth(l, a) = l[a].balance + l[a].stake
        /\ Worth(mid, a) = mid[a].balance + mid[a].stake
    BY <1>2, <1>4, LedgerIsMap
  <2> DEFINE times == Times(a, n)
             staked == times * Minimum
             spent == n * Minimum
  <2>3. staked \in Int /\ spent \in Int /\ (times + 1) * Minimum = staked + Minimum
        /\ (times + 0) * Minimum = staked /\ (n + 1) * Minimum = spent + Minimum
    BY <1>1, <2>1
  <2>4. /\ mid[a].balance = IF a = Creator THEN Published - spent + -Minimum ELSE 0
        /\ mid[a].stake = staked
    BY <1>3, <1>4
  <2>5. l[a].stake = IF a = v THEN staked + Minimum ELSE staked
    BY <1>3, <2>1, <2>3
  <2>6. l[a].balance = IF a = Creator THEN Published - (spent + Minimum) ELSE 0
    BY <1>3, <2>3
  <2> HIDE DEF staked, spent
  <2> QED BY <1>1, <2>2, <2>3, <2>4, <2>5, <2>6
<1>7. mid \in Accounts /\ l \in Accounts /\ Shifted(mid, l, {v}, Minimum) /\ {v} \in SUBSET Account
  BY <1>2, <1>4, <1>6, LedgerIsMap DEF Shifted
<1>8. Supply(l) = Supply(mid) + Minimum * Cardinality({v})
  BY <1>1, <1>7, SupplyShift
<1>9. Cardinality({v}) = 1
  BY FS_Singleton
<1> QED BY <1>1, <1>5, <1>8, <1>9 DEF k, l

\* What an execution issues, as an operator on the function TotalIssued defines.
TotalStep(receipts, total, i) == IF i = 0 THEN 0 ELSE total[i - 1] + Issued(receipts[i])

IsTotal(receipts, total) ==
    total = [i \in 0..Len(receipts) |-> TotalStep(receipts, total, i)]

LEMMA IssuedType ==
  ASSUME NEW receipt \in Receipt
  PROVE  Issued(receipt) \in Int
<1>1. receipt.tx \in Tx
  BY DEF Receipt
<1> QED BY <1>1, TxTypes DEF Issued

LEMMA TotalExists ==
  ASSUME NEW receipts, NEW n \in Nat
  PROVE  \E f : f = [i \in 0..n |-> TotalStep(receipts, f, i)]
<1> DEFINE Has(m) == \E f : f = [i \in 0..m |-> TotalStep(receipts, f, i)]
           T == {m \in Nat : ~Has(m)}
<1> SUFFICES ASSUME T # {} PROVE FALSE
  OBVIOUS
<1>1. PICK m \in T : \A j \in T : m <= j
  BY Least
<1>2. m # 0
  <2> SUFFICES ASSUME m = 0 PROVE FALSE
    OBVIOUS
  <2> DEFINE f == [i \in 0..0 |-> 0]
  <2>1. \A i \in 0..0 : TotalStep(receipts, f, i) = 0
    BY DEF TotalStep
  <2>2. f = [i \in 0..0 |-> TotalStep(receipts, f, i)]
    BY <2>1
  <2> QED BY <2>2
<1>3. m - 1 \in Nat /\ m - 1 \notin T
  BY <1>1, <1>2
<1>4. PICK f : f = [i \in 0..(m - 1) |-> TotalStep(receipts, f, i)]
  BY <1>3
<1> DEFINE g == [i \in 0..m |-> IF i < m THEN f[i] ELSE TotalStep(receipts, f, m)]
<1>5. ASSUME NEW i \in 0..m PROVE g[i] = TotalStep(receipts, g, i)
  <2>1. i > 0 => i - 1 \in 0..m /\ i - 1 < m /\ g[i - 1] = f[i - 1]
    OBVIOUS
  <2>2. TotalStep(receipts, g, i) = TotalStep(receipts, f, i)
    BY <2>1 DEF TotalStep
  <2>3. CASE i < m
    <3>1. i \in 0..(m - 1)
      BY <2>3
    <3>2. f[i] = TotalStep(receipts, f, i)
      BY <1>4, <3>1
    <3> QED BY <2>2, <2>3, <3>2
  <2>4. CASE i = m
    BY <2>2, <2>4
  <2> QED BY <2>3, <2>4
<1>6. g = [i \in 0..m |-> TotalStep(receipts, g, i)]
  BY <1>5
<1>7. Has(m)
  BY <1>6
<1> QED BY <1>1, <1>7

LEMMA TotalFacts ==
  ASSUME NEW receipts \in Seq(Receipt)
  PROVE  \E total :
           /\ TotalIssued(receipts) = total[Len(receipts)]
           /\ total[0] = 0
           /\ \A i \in 1..Len(receipts) : total[i] = total[i - 1] + Issued(receipts[i])
<1> DEFINE total == CHOOSE f : IsTotal(receipts, f)
<1>1. Len(receipts) \in Nat
  OBVIOUS
<1>2. \E f : IsTotal(receipts, f)
  BY <1>1, TotalExists DEF IsTotal
<1>3. TotalIssued(receipts) = total[Len(receipts)]
  BY Zenon DEF TotalIssued, IsTotal, TotalStep
<1>4. IsTotal(receipts, total)
  BY <1>2
<1> HIDE DEF total
<1>5. \A i \in 0..Len(receipts) : total[i] = TotalStep(receipts, total, i)
  BY <1>4 DEF IsTotal
<1>6. total[0] = 0
  <2>1. 0 \in 0..Len(receipts)
    BY <1>1
  <2> QED BY <1>5, <2>1 DEF TotalStep
<1>7. ASSUME NEW i \in 1..Len(receipts) PROVE total[i] = total[i - 1] + Issued(receipts[i])
  <2>1. i \in 0..Len(receipts) /\ i # 0
    OBVIOUS
  <2> QED BY <1>5, <2>1 DEF TotalStep
<1> QED BY <1>3, <1>6, <1>7

\* One more receipt issues what it issues.
LEMMA TotalAppend ==
  ASSUME NEW receipts \in Seq(Receipt), NEW receipt \in Receipt
  PROVE  /\ TotalIssued(receipts) \in Int
         /\ TotalIssued(Append(receipts, receipt)) = TotalIssued(receipts) + Issued(receipt)
<1> DEFINE long == Append(receipts, receipt)
           len == Len(receipts)
<1>1. /\ long \in Seq(Receipt) /\ len \in Nat /\ Len(long) = len + 1
      /\ \A i \in 1..len : long[i] = receipts[i] /\ receipts[i] \in Receipt
      /\ long[len + 1] = receipt
  OBVIOUS
<1>2. PICK f :
        /\ TotalIssued(receipts) = f[len]
        /\ f[0] = 0
        /\ \A i \in 1..len : f[i] = f[i - 1] + Issued(receipts[i])
  BY TotalFacts
<1> HIDE DEF long, len
<1>3. PICK g :
        /\ TotalIssued(long) = g[Len(long)]
        /\ g[0] = 0
        /\ \A i \in 1..Len(long) : g[i] = g[i - 1] + Issued(long[i])
  BY <1>1, TotalFacts
<1> DEFINE Fine(i) == f[i] \in Int /\ g[i] = f[i]
           T == {i \in Nat : i <= len /\ ~Fine(i)}
<1>4. T = {}
  <2> SUFFICES ASSUME T # {} PROVE FALSE
    OBVIOUS
  <2>1. PICK n \in T : \A j \in T : n <= j
    BY Least
  <2>2. n # 0
    BY <1>2, <1>3, <2>1
  <2>3. n \in 1..len /\ n - 1 \in Nat /\ n - 1 <= len /\ n - 1 \notin T /\ n \in 1..Len(long)
    BY <1>1, <2>1, <2>2
  <2>4. f[n - 1] \in Int /\ g[n - 1] = f[n - 1]
    BY <2>3
  <2>5. f[n] = f[n - 1] + Issued(receipts[n]) /\ g[n] = g[n - 1] + Issued(receipts[n])
        /\ Issued(receipts[n]) \in Int
    BY <1>1, <1>2, <1>3, <2>3, IssuedType
  <2>6. Fine(n)
    BY <2>4, <2>5
  <2> QED BY <2>1, <2>6
<1>5. Fine(len)
  BY <1>1, <1>4
<1>6. g[len + 1] = g[len] + Issued(receipt)
  <2>1. len + 1 \in 1..Len(long) /\ (len + 1) - 1 = len
    BY <1>1
  <2> QED BY <1>1, <1>3, <2>1
<1> QED BY <1>1, <1>2, <1>3, <1>5, <1>6 DEF long

LEMMA TotalEmpty == TotalIssued(<<>>) = 0
<1>1. <<>> \in Seq(Receipt) /\ Len(<<>>) = 0
  OBVIOUS
<1> QED BY <1>1, TotalFacts

-----------------------------------------------------------------------------
(***************************************************************************)
(* The money of the chain.                                                 *)
(***************************************************************************)

\* The money of the genesis wagon is what was published; an execution has the money of
\* the chain, what its receipts issue, and owes the fees it has collected until it has
\* paid the rewards.
MoneyInv ==
    /\ pc = "genesis" => Supply(exec.work) = Published
    /\ pc = "execute" =>
        Supply(ref.work) = Supply(committed) + TotalIssued(ref.receipts) - ref.paid
    /\ MoneyIsAccountedFor

LEMMA InitMoney == Init => MoneyInv
<1> SUFFICES ASSUME Init PROVE MoneyInv
  OBVIOUS
<1>1. IInv /\ LedgerInv
  BY InitInvariant, LedgerInvInit
<1>2. pc = "genesis" /\ next - 1 = 0 /\ exec.work \in Accounts
  BY <1>1 DEF Init, IInv, TypeOK, StateRecord
<1>3. Known(exec.work) = Endowment(0)
  BY <1>1, <1>2 DEF LedgerInv
<1>4. Supply(exec.work) = Published
  BY <1>2, <1>3, SupplyKnown, SupplyPublished
<1> QED BY <1>2, <1>4 DEF MoneyInv, MoneyIsAccountedFor

LEMMA DeclareValidatorMoney == IInv /\ LedgerInv /\ MoneyInv /\ DeclareValidator => MoneyInv'
<1> SUFFICES ASSUME IInv, LedgerInv, MoneyInv, DeclareValidator PROVE MoneyInv'
  OBVIOUS
<1> DEFINE n == next - 1
           v == Validator[next]
<1>1. /\ pc = "genesis" /\ pc' = pc /\ next' = next + 1 /\ next \in Nat \ {0}
      /\ next <= Len(Validator) /\ Validator \in Seq(Account) /\ exec.work \in Accounts
  BY GenesisAssumption DEF IInv, TypeOK, StateRecord, DeclareValidator
<1>2. n \in Nat /\ v \in Account /\ v = Validator[n + 1] /\ n + 1 = next' - 1
  BY <1>1
<1>3. IInv' /\ LedgerInv'
  BY DeclareValidatorInvariant, DeclareValidatorLedger
<1>4. exec'.work \in Accounts
  BY <1>3 DEF IInv, TypeOK, StateRecord
<1> HIDE DEF n, v
<1>5. Known(exec.work) = Endowment(n) /\ Known(exec'.work) = Endowment(n + 1)
  <2>1. Known(exec.work) = Endowment(n)
    BY <1>1 DEF LedgerInv, n
  <2>2. (Known(exec.work) = Endowment(next - 1))'
    BY <1>1, <1>3 DEF LedgerInv
  <2>3. Known(exec'.work) = Endowment(next' - 1)
    BY <2>2 DEF Known, Content, Default, Endowment, Times
  <2> QED BY <1>2, <2>1, <2>3
<1>6. Supply(Endowment(n + 1)) = Supply(Endowment(n))
  BY <1>2, SupplyEndowed
<1>7. Supply(exec.work) = Published
  BY <1>1 DEF MoneyInv
<1>8. Supply(exec'.work) = Published
  BY <1>1, <1>4, <1>5, <1>6, <1>7, SupplyKnown
<1> QED BY <1>1, <1>8 DEF MoneyInv, MoneyIsAccountedFor

LEMMA StartMoney ==
  ASSUME NEW block \in Block, NEW links \in BOOLEAN, NEW right \in BOOLEAN,
         IInv, MoneyInv, Start(block, links, right)
  PROVE  MoneyInv'
<1>1. /\ pc = "idle" /\ pc' = "execute" /\ ref' = Clean(committed) /\ committed' = committed
      /\ height' = height /\ committed \in Accounts
  BY DEF Start, IInv, TypeOK
<1>2. ref'.work = committed /\ ref'.receipts = <<>> /\ ref'.paid = 0
  BY <1>1 DEF Clean
<1>3. Supply(committed) \in Int
  BY <1>1, SupplyKnown
<1>4. Supply(ref'.work) = Supply(committed') + TotalIssued(ref'.receipts) - ref'.paid
  BY <1>1, <1>2, <1>3, TotalEmpty
<1> QED BY <1>1, <1>4 DEF MoneyInv, MoneyIsAccountedFor

LEMMA ExecuteTransactionMoney == IInv /\ MoneyInv /\ ExecuteTransaction => MoneyInv'
<1> SUFFICES ASSUME IInv, MoneyInv, ExecuteTransaction PROVE MoneyInv'
  OBVIOUS
<1> DEFINE tx == job.block.txs[next]
           done == Transacted(ref, next, tx)
           k == Known(ref.work)
           outcome == L!Outcome(k, tx)
           receipt == [index |-> next, tx |-> tx, status |-> outcome, paid |-> L!Paid(outcome)]
<1>1. /\ job.block \in Block /\ pc = "execute" /\ next \in Nat /\ next \in 1..Len(job.block.txs)
      /\ ref' = done /\ pc' = pc /\ committed' = committed /\ height' = height
  BY DEF IInv, TypeOK, ExecuteTransaction
<1>2. tx \in Tx
  <2>1. job.block.txs \in Seq(Tx)
    BY <1>1, BlockAssumption
  <2> QED BY <1>1, <2>1
<1>3. ref \in StateRecord /\ Agrees(ref) /\ committed \in Accounts
  BY <1>1 DEF IInv, TypeOK
<1>4. Holds(ref, k)
  BY <1>3 DEF Holds
<1> HIDE DEF tx, k
<1>5. /\ Holds(done, L!Transact(k, tx))
      /\ done.paid = ref.paid + L!Paid(outcome)
      /\ done.receipts = Append(ref.receipts, receipt)
      /\ receipt \in Receipt
  BY <1>1, <1>2, <1>4, HoldsTransacted
<1>6. receipt.tx = tx /\ receipt.status = outcome
  OBVIOUS
<1> DEFINE pay == L!Paid(outcome)
<1> HIDE DEF receipt
<1>7. Supply(L!Transact(k, tx)) = Supply(k) + Issued(receipt) - pay
  BY <1>2, <1>4, <1>6, SupplyTransact
<1> HIDE DEF done
<1>8. done.work \in Accounts /\ Known(done.work) = L!Transact(k, tx)
  BY <1>5 DEF Holds, StateRecord
<1>9. ref.work \in Accounts /\ ref.receipts \in Seq(Receipt) /\ ref.paid \in Int
  BY <1>3 DEF StateRecord
<1>10. Supply(done.work) = Supply(ref.work) + Issued(receipt) - pay
  <2>1. Supply(done.work) = Supply(L!Transact(k, tx))
    BY <1>8, SupplyKnown
  <2>2. Supply(k) = Supply(ref.work)
    BY <1>9, SupplyKnown DEF k
  <2> QED BY <1>7, <2>1, <2>2
<1>11. /\ TotalIssued(done.receipts) = TotalIssued(ref.receipts) + Issued(receipt)
       /\ TotalIssued(ref.receipts) \in Int /\ Issued(receipt) \in Int
  BY <1>5, <1>9, TotalAppend, IssuedType
<1>12. pay \in Int /\ done.paid = ref.paid + pay
  <2>1. pay \in Nat
    BY <1>2, LedgerTypes, UsedType
  <2> QED BY <1>5, <2>1
<1>13. Supply(ref.work) = Supply(committed) + TotalIssued(ref.receipts) - ref.paid
       /\ Supply(committed) \in Int
  BY <1>1, <1>3, SupplyKnown DEF MoneyInv
<1> HIDE DEF pay
<1>14. Supply(done.work) = Supply(committed) + TotalIssued(done.receipts) - done.paid
  BY <1>9, <1>10, <1>11, <1>12, <1>13
<1>15. Supply(ref'.work) = Supply(committed') + TotalIssued(ref'.receipts) - ref'.paid
  BY <1>1, <1>14
<1> QED BY <1>1, <1>15 DEF MoneyInv, MoneyIsAccountedFor

LEMMA PreFinalizeMoney == IInv /\ MoneyInv /\ PreFinalize => MoneyInv'
<1> SUFFICES ASSUME IInv, MoneyInv, PreFinalize PROVE MoneyInv'
  OBVIOUS
<1> DEFINE block == job.block
           k == Known(ref.work)
           done == Rewarded(ref, block.voters)
<1>1. /\ block \in Block /\ pc = "execute" /\ pc' = "executed" /\ ref' = done /\ job' = job
      /\ committed' = committed /\ height' = height
  BY DEF IInv, TypeOK, PreFinalize
<1>2. ref \in StateRecord /\ Agrees(ref) /\ committed \in Accounts
  BY <1>1 DEF IInv, TypeOK
<1>3. Holds(ref, k)
  BY <1>2 DEF Holds
<1>4. ref.work \in Accounts /\ ref.receipts \in Seq(Receipt) /\ ref.paid \in Nat
  BY <1>2 DEF StateRecord
<1> HIDE DEF block, k
<1>5. /\ Holds(done, L!Reward(k, block.voters, ref.paid))
      /\ done.receipts = ref.receipts /\ done.paid = ref.paid
  BY <1>1, <1>3, HoldsRewarded
<1>6. k \in Ledgers
  BY <1>4, KnownType DEF k
<1> HIDE DEF done
<1> DEFINE lost == ref.paid % Cardinality(block.voters)
<1>7. Supply(L!Reward(k, block.voters, ref.paid)) = Supply(k) + ref.paid - lost
  BY <1>1, <1>4, <1>6, SupplyReward
<1>8. done.work \in Accounts /\ Known(done.work) = L!Reward(k, block.voters, ref.paid)
  BY <1>5 DEF Holds, StateRecord
<1>9. Supply(done.work) = Supply(ref.work) + ref.paid - lost
  <2>1. Supply(done.work) = Supply(L!Reward(k, block.voters, ref.paid))
    BY <1>8, SupplyKnown
  <2>2. Supply(k) = Supply(ref.work)
    BY <1>4, SupplyKnown DEF k
  <2> QED BY <1>7, <2>1, <2>2
<1>10. Supply(ref.work) = Supply(committed) + TotalIssued(ref.receipts) - ref.paid
       /\ Supply(committed) \in Int /\ Supply(ref.work) \in Int
  BY <1>1, <1>2, <1>4, SupplyKnown DEF MoneyInv
<1>11. TotalIssued(ref.receipts) \in Int
  <2>1. Receipt # {} => TotalIssued(ref.receipts) \in Int
    BY <1>4, TotalAppend
  <2>2. Receipt = {} => ref.receipts = <<>>
    BY <1>4
  <2> QED BY <2>1, <2>2, TotalEmpty
<1>12. lost \in Int
  <2>1. Cardinality(block.voters) \in Nat \ {0}
    BY <1>1, BlockAssumption, AccountSets
  <2> QED BY <1>4, <2>1
<1> HIDE DEF lost
<1>13. Supply(done.work) = Supply(committed) + TotalIssued(done.receipts) - lost
  BY <1>4, <1>5, <1>9, <1>10, <1>11, <1>12
<1>14. lost = ref'.paid % Cardinality(job'.block.voters)
  BY <1>1, <1>5 DEF lost, block
<1>15. Supply(ref'.work) = Supply(committed') + TotalIssued(ref'.receipts)
                             - (ref'.paid % Cardinality(job'.block.voters))
  BY <1>1, <1>13, <1>14
<1> QED BY <1>1, <1>15 DEF MoneyInv, MoneyIsAccountedFor

\* Every other step leaves the execution alone, and the chain where its height is zero.
LEMMA StepMoney == IInv /\ LedgerInv /\ MoneyInv /\ [Next]_vars => MoneyInv'
<1> SUFFICES ASSUME IInv, LedgerInv, MoneyInv, [Next]_vars PROVE MoneyInv'
  OBVIOUS
<1>1. CASE DeclareValidator
  BY <1>1, DeclareValidatorMoney
<1>2. CASE DeclareGenesis
  BY <1>2 DEF DeclareGenesis, MoneyInv, MoneyIsAccountedFor
<1>3. ASSUME NEW block \in Block, StartPropose(block) PROVE MoneyInv'
  BY <1>3, StartMoney DEF StartPropose
<1>4. CASE StartLink
  <2>1. ASSUME NEW block \in Block, NEW right \in BOOLEAN, Start(block, TRUE, right)
        PROVE  MoneyInv'
    BY <2>1, StartMoney
  <2>2. CASE own # None /\ Start(own.block, TRUE, own.right)
    <3>1. own.block \in Block /\ own.right \in BOOLEAN
      BY <2>2 DEF IInv, TypeOK
    <3> QED BY <2>2, <3>1, StartMoney
  <2> QED BY <1>4, <2>1, <2>2 DEF StartLink
<1>5. CASE ExecuteTransaction
  BY <1>5, ExecuteTransactionMoney
<1>6. CASE PreFinalize
  BY <1>6, PreFinalizeMoney
<1>7. CASE MakeFinalize \/ Refuse \/ CommitFails
  BY <1>7 DEF MakeFinalize, Refuse, CommitFails, Finish, MoneyInv, MoneyIsAccountedFor
<1>8. CASE Commit
  <2>1. height' # 0
    BY <1>8 DEF Commit, IInv, TypeOK
  <2> QED BY <1>8, <2>1 DEF Commit, Finish, MoneyInv, MoneyIsAccountedFor
<1>9. ASSUME NEW a \in Account, Query(a) PROVE MoneyInv'
  BY <1>9 DEF Query, MoneyInv, MoneyIsAccountedFor
<1>10. CASE Restart
  BY <1>10 DEF Restart, MoneyInv, MoneyIsAccountedFor
<1>11. CASE UNCHANGED vars
  BY <1>11 DEF vars, MoneyInv, MoneyIsAccountedFor
<1> QED BY <1>1, <1>2, <1>3, <1>4, <1>5, <1>6, <1>7, <1>8, <1>9, <1>10, <1>11 DEF Next

\* Money is neither made nor lost but by a rejected transaction, a value sent to a
\* malformed recipient and the remainder of the rewards (Executor, compute_balance).
THEOREM MoneyAccounted == Spec => []MoneyIsAccountedFor
<1>1. Init => MoneyInv
  BY InitMoney
<1>2. IInv /\ LedgerInv /\ MoneyInv /\ [Next]_vars => MoneyInv'
  BY StepMoney
<1>3. MoneyInv => MoneyIsAccountedFor
  BY DEF MoneyInv
<1> QED BY <1>1, <1>2, <1>3, Invariance, LedgerInvariance, PTL DEF Spec

=============================================================================

----------------------------- MODULE WagonProof -----------------------------
(***************************************************************************)
(* Theorems about Wagon, for any accounts, blocks and fees.                *)
(*                                                                         *)
(* Two states are alike if they have the same accounts in the trie, the    *)
(* same receipts and fees, and caches that agree with their tries; every   *)
(* operation maps states that are alike to states that are alike.  While   *)
(* there is no trouble, the wagon at work and a clean one are alike.       *)
(***************************************************************************)
EXTENDS Wagon, FiniteSetTheorems, TLAPS

Agrees(s) == \A a \in Account : s.cache[a] = None \/ s.cache[a] = Content(s.work, a)

Alike(s, t) ==
    /\ s \in StateRecord /\ t \in StateRecord
    /\ Agrees(s) /\ Agrees(t)
    /\ s.work = t.work /\ s.receipts = t.receipts /\ s.paid = t.paid

Balance(s, a) == GetAccount(s, a).balance

Solvent(s) == \A a \in Account : Balance(s, a) >= -FeeExecute

-----------------------------------------------------------------------------
(***************************************************************************)
(* The operations of StateDB.                                              *)
(***************************************************************************)

LEMMA NoneIsNoAccount == None \notin AccountRecord
  BY AddressAssumption DEF AccountRecord

LEMMA DefaultType == Default \in AccountRecord
  BY DEF Default, AccountRecord

LEMMA ContentType ==
  ASSUME NEW map \in Accounts, NEW a \in Account
  PROVE  Content(map, a) \in AccountRecord
  BY DefaultType DEF Content, Accounts

LEMMA GetAccountType ==
  ASSUME NEW s \in StateRecord, NEW a \in Account
  PROVE  GetAccount(s, a) \in AccountRecord
  BY ContentType DEF GetAccount, StateRecord, Accounts

\* Where the cache agrees with the trie, what is read depends on the trie only.
LEMMA GetAccountIsContent ==
  ASSUME NEW s \in StateRecord, Agrees(s), NEW a \in Account
  PROVE  GetAccount(s, a) = Content(s.work, a)
  BY DEF GetAccount, Agrees

\* SetAccount keeps the type; the account is what is read afterwards.
LEMMA SetAccountFacts ==
  ASSUME NEW s \in StateRecord, NEW a \in Account, NEW account \in AccountRecord
  PROVE  /\ SetAccount(s, a, account) \in StateRecord
         /\ SetAccount(s, a, account).work = [s.work EXCEPT ![a] = account]
         /\ SetAccount(s, a, account).cache = [s.cache EXCEPT ![a] = account]
         /\ SetAccount(s, a, account).receipts = s.receipts
         /\ SetAccount(s, a, account).paid = s.paid
  <1> DEFINE t == SetAccount(s, a, account)
  <1>1. t \in StateRecord
    BY DEF SetAccount, StateRecord, Accounts
  <1>2. /\ t.work = [s.work EXCEPT ![a] = account]
        /\ t.cache = [s.cache EXCEPT ![a] = account]
        /\ t.receipts = s.receipts
        /\ t.paid = s.paid
    BY DEF SetAccount, StateRecord
  <1> QED
    BY <1>1, <1>2

LEMMA SetAccountRead ==
  ASSUME NEW s \in StateRecord, NEW a \in Account, NEW account \in AccountRecord,
         NEW b \in Account
  PROVE  GetAccount(SetAccount(s, a, account), b) = IF b = a THEN account ELSE GetAccount(s, b)
  <1> DEFINE t == SetAccount(s, a, account)
  <1>1. t.work = [s.work EXCEPT ![a] = account] /\ t.cache = [s.cache EXCEPT ![a] = account]
    BY SetAccountFacts
  <1>2. s.work \in Accounts /\ s.cache \in Accounts
    BY DEF StateRecord
  <1> HIDE DEF t
  <1>3. GetAccount(t, b) = IF b = a THEN account ELSE GetAccount(s, b)
    BY <1>1, <1>2, NoneIsNoAccount DEF GetAccount, Content, Accounts
  <1> QED
    BY <1>3 DEF t

LEMMA SetAccountAlike ==
  ASSUME NEW s, NEW t, Alike(s, t), NEW a \in Account, NEW account \in AccountRecord
  PROVE  Alike(SetAccount(s, a, account), SetAccount(t, a, account))
  <1>1. ASSUME NEW u \in StateRecord, Agrees(u)
        PROVE  /\ SetAccount(u, a, account) \in StateRecord
               /\ Agrees(SetAccount(u, a, account))
               /\ SetAccount(u, a, account).work = [u.work EXCEPT ![a] = account]
               /\ SetAccount(u, a, account).receipts = u.receipts
               /\ SetAccount(u, a, account).paid = u.paid
    <2> DEFINE v == SetAccount(u, a, account)
    <2>1. /\ v \in StateRecord
          /\ v.work = [u.work EXCEPT ![a] = account]
          /\ v.cache = [u.cache EXCEPT ![a] = account]
          /\ v.receipts = u.receipts
          /\ v.paid = u.paid
      BY SetAccountFacts
    <2> HIDE DEF v
    <2>2. u.work \in Accounts /\ u.cache \in Accounts
      BY DEF StateRecord
    <2>3. ASSUME NEW b \in Account
          PROVE  v.cache[b] = None \/ v.cache[b] = Content(v.work, b)
      <3>1. CASE b = a
        BY <2>1, <2>2, <3>1, NoneIsNoAccount DEF Content, Accounts
      <3>2. CASE b # a
        BY <1>1, <2>1, <2>2, <3>2 DEF Agrees, Content, Accounts
      <3> QED
        BY <3>1, <3>2
    <2> QED
      BY <2>1, <2>3 DEF Agrees, v
  <1>2. /\ s \in StateRecord /\ Agrees(s) /\ t \in StateRecord /\ Agrees(t)
        /\ s.work = t.work /\ s.receipts = t.receipts /\ s.paid = t.paid
    BY DEF Alike
  <1> QED
    BY <1>1, <1>2 DEF Alike

LEMMA ComputeBalanceFacts ==
  ASSUME NEW s \in StateRecord, NEW a \in Account, NEW consume \in Int
  PROVE  /\ ComputeBalance(s, a, consume) \in StateRecord
         /\ \A b \in Account :
              Balance(ComputeBalance(s, a, consume), b) =
                IF b = a THEN Balance(s, a) + consume ELSE Balance(s, b)
  <1>1. GetAccount(s, a) \in AccountRecord
    BY GetAccountType
  <1>2. [GetAccount(s, a) EXCEPT !.balance = @ + consume] \in AccountRecord
    BY <1>1 DEF AccountRecord
  <1>3. [GetAccount(s, a) EXCEPT !.balance = @ + consume].balance = Balance(s, a) + consume
    BY <1>1 DEF AccountRecord, Balance
  <1> DEFINE account == [GetAccount(s, a) EXCEPT !.balance = @ + consume]
  <1> HIDE DEF account
  <1>4. account \in AccountRecord
    BY <1>2 DEF account
  <1>5. SetAccount(s, a, account) \in StateRecord
    BY <1>4, SetAccountFacts
  <1>7. ASSUME NEW b \in Account
        PROVE  GetAccount(SetAccount(s, a, account), b) = IF b = a THEN account ELSE GetAccount(s, b)
    BY <1>4, SetAccountRead
  <1>6. ComputeBalance(s, a, consume) = SetAccount(s, a, account)
    BY DEF ComputeBalance, account
  <1> QED
    BY <1>3, <1>5, <1>6, <1>7 DEF Balance, account

LEMMA ComputeBalanceAlike ==
  ASSUME NEW s, NEW t, Alike(s, t), NEW a \in Account, NEW consume \in Int
  PROVE  Alike(ComputeBalance(s, a, consume), ComputeBalance(t, a, consume))
  <1>1. GetAccount(s, a) = GetAccount(t, a)
    BY GetAccountIsContent DEF Alike
  <1>2. [GetAccount(s, a) EXCEPT !.balance = @ + consume] \in AccountRecord
    BY GetAccountType DEF Alike, AccountRecord
  <1> QED
    BY <1>1, <1>2, SetAccountAlike DEF ComputeBalance

LEMMA IncreaseNonceFacts ==
  ASSUME NEW s \in StateRecord, NEW a \in Account
  PROVE  /\ IncreaseNonce(s, a) \in StateRecord
         /\ \A b \in Account : Balance(IncreaseNonce(s, a), b) = Balance(s, b)
  <1>1. GetAccount(s, a) \in AccountRecord
    BY GetAccountType
  <1>2. [GetAccount(s, a) EXCEPT !.nonce = @ + 1] \in AccountRecord
    BY <1>1 DEF AccountRecord
  <1>3. [GetAccount(s, a) EXCEPT !.nonce = @ + 1].balance = Balance(s, a)
    BY <1>1 DEF AccountRecord, Balance
  <1> DEFINE account == [GetAccount(s, a) EXCEPT !.nonce = @ + 1]
  <1> HIDE DEF account
  <1>4. account \in AccountRecord
    BY <1>2 DEF account
  <1>5. SetAccount(s, a, account) \in StateRecord
    BY <1>4, SetAccountFacts
  <1>7. ASSUME NEW b \in Account
        PROVE  GetAccount(SetAccount(s, a, account), b) = IF b = a THEN account ELSE GetAccount(s, b)
    BY <1>4, SetAccountRead
  <1>6. IncreaseNonce(s, a) = SetAccount(s, a, account)
    BY DEF IncreaseNonce, account
  <1> QED
    BY <1>3, <1>5, <1>6, <1>7 DEF Balance, account

LEMMA IncreaseNonceAlike ==
  ASSUME NEW s, NEW t, Alike(s, t), NEW a \in Account
  PROVE  Alike(IncreaseNonce(s, a), IncreaseNonce(t, a))
  <1>1. GetAccount(s, a) = GetAccount(t, a)
    BY GetAccountIsContent DEF Alike
  <1>2. [GetAccount(s, a) EXCEPT !.nonce = @ + 1] \in AccountRecord
    BY GetAccountType DEF Alike, AccountRecord
  <1> QED
    BY <1>1, <1>2, SetAccountAlike DEF IncreaseNonce

LEMMA ReadFacts ==
  ASSUME NEW s \in StateRecord, NEW a \in Account
  PROVE  /\ Read(s, a) \in StateRecord
         /\ Read(s, a).work = s.work
         /\ Read(s, a).cache = [s.cache EXCEPT ![a] = GetAccount(s, a)]
         /\ Read(s, a).receipts = s.receipts /\ Read(s, a).paid = s.paid
         /\ \A b \in Account : Balance(Read(s, a), b) = Balance(s, b)
  <1>1. GetAccount(s, a) \in AccountRecord
    BY GetAccountType
  <1>2. Read(s, a) = [work |-> s.work, cache |-> [s.cache EXCEPT ![a] = GetAccount(s, a)],
                      receipts |-> s.receipts, paid |-> s.paid]
    BY DEF Read, StateRecord
  <1>3. Read(s, a) \in StateRecord
    BY <1>1, <1>2 DEF StateRecord, Accounts
  <1>4. ASSUME NEW b \in Account
        PROVE  GetAccount(Read(s, a), b) = GetAccount(s, b)
    BY <1>1, <1>2, NoneIsNoAccount DEF GetAccount, StateRecord, Accounts
  <1> QED
    BY <1>2, <1>3, <1>4 DEF Balance

LEMMA ReadAgrees ==
  ASSUME NEW s \in StateRecord, Agrees(s), NEW a \in Account
  PROVE  Agrees(Read(s, a))
  <1> DEFINE t == Read(s, a)
  <1>1. t.work = s.work /\ t.cache = [s.cache EXCEPT ![a] = GetAccount(s, a)]
    BY ReadFacts
  <1>2. GetAccount(s, a) = Content(s.work, a)
    BY GetAccountIsContent
  <1>3. s.cache \in [Account -> AccountRecord \cup {None}]
    BY DEF StateRecord, Accounts
  <1> HIDE DEF t
  <1>4. Agrees(t)
    BY <1>1, <1>2, <1>3 DEF Agrees
  <1> QED
    BY <1>4 DEF t

LEMMA ReadAlike ==
  ASSUME NEW s, NEW t, Alike(s, t), NEW a \in Account
  PROVE  Alike(Read(s, a), Read(t, a))
  BY ReadFacts, ReadAgrees DEF Alike

-----------------------------------------------------------------------------
(***************************************************************************)
(* One transaction.                                                        *)
(***************************************************************************)

Outcomes == {"rejected", "limited", "uncreated", "unparsable", "malformed", "transferred"}

LEMMA TxTypes ==
  ASSUME NEW tx \in Tx
  PROVE  /\ tx.from \in Account
         /\ tx.to \in Account \cup {Malformed, CreateContract}
         /\ tx.value \in Nat /\ tx.fee \in Nat
         /\ -tx.fee \in Int /\ -tx.value \in Int
  BY DEF Tx

LEMMA BalanceType ==
  ASSUME NEW s \in StateRecord, NEW a \in Account
  PROVE  Balance(s, a) \in Int
  BY GetAccountType DEF Balance, AccountRecord

\* A transaction that is not refused is covered; one that is transferred has a
\* recipient.
LEMMA StatusFacts ==
  ASSUME NEW s \in StateRecord, NEW tx \in Tx
  PROVE  /\ Status(s, tx) \in Outcomes
         /\ Status(s, tx) # "rejected" => Balance(s, tx.from) >= tx.value + tx.fee
         /\ Status(s, tx) = "transferred" => tx.to \in Account
  BY TxTypes DEF Status, Validated, Balance, Outcomes

LEMMA UsedType ==
  ASSUME NEW status
  PROVE  Used(status) \in Nat
  BY GenesisAssumption DEF Used

LEMMA PreparedFacts ==
  ASSUME NEW s \in StateRecord, NEW tx \in Tx
  PROVE  /\ Prepared(s, tx) \in StateRecord
         /\ Executed(s, tx) \in StateRecord
         /\ Debited(Executed(s, tx), tx) \in StateRecord
         /\ \A b \in Account :
              /\ Balance(Prepared(s, tx), b) =
                   IF b = tx.from THEN Balance(s, tx.from) + -tx.fee ELSE Balance(s, b)
              /\ Balance(Executed(s, tx), b) = Balance(Prepared(s, tx), b)
              /\ Balance(Debited(Executed(s, tx), tx), b) =
                   IF b = tx.from THEN Balance(Prepared(s, tx), tx.from) + -tx.value
                   ELSE Balance(s, b)
  <1> DEFINE charged == ComputeBalance(s, tx.from, -tx.fee)
  <1>1. /\ charged \in StateRecord
        /\ \A b \in Account :
             Balance(charged, b) = IF b = tx.from THEN Balance(s, tx.from) + -tx.fee ELSE Balance(s, b)
    BY TxTypes, ComputeBalanceFacts
  <1>2. /\ Prepared(s, tx) \in StateRecord
        /\ \A b \in Account : Balance(Prepared(s, tx), b) = Balance(charged, b)
    <2> HIDE DEF charged
    <2>1. Prepared(s, tx) = IncreaseNonce(charged, tx.from)
      BY DEF Prepared, charged
    <2> QED
      BY <1>1, <2>1, TxTypes, IncreaseNonceFacts
  <1>3. /\ Executed(s, tx) \in StateRecord
        /\ \A b \in Account : Balance(Executed(s, tx), b) = Balance(Prepared(s, tx), b)
    <2> DEFINE prepared == Prepared(s, tx)
    <2> HIDE DEF prepared
    <2>1. Executed(s, tx) = IncreaseNonce(prepared, tx.from)
      BY DEF Executed, prepared
    <2>2. prepared \in StateRecord
      BY <1>2 DEF prepared
    <2>3. /\ IncreaseNonce(prepared, tx.from) \in StateRecord
          /\ \A b \in Account : Balance(IncreaseNonce(prepared, tx.from), b) = Balance(prepared, b)
      BY <2>2, TxTypes, IncreaseNonceFacts
    <2> QED
      BY <2>1, <2>3 DEF prepared
  <1>4. /\ Debited(Executed(s, tx), tx) \in StateRecord
        /\ \A b \in Account :
             Balance(Debited(Executed(s, tx), tx), b) =
               IF b = tx.from THEN Balance(Executed(s, tx), tx.from) + -tx.value
               ELSE Balance(Executed(s, tx), b)
    <2> DEFINE executed == Executed(s, tx)
    <2> HIDE DEF executed
    <2>1. executed \in StateRecord
      BY <1>3 DEF executed
    <2>2. /\ ComputeBalance(executed, tx.from, -tx.value) \in StateRecord
          /\ \A b \in Account :
               Balance(ComputeBalance(executed, tx.from, -tx.value), b) =
                 IF b = tx.from THEN Balance(executed, tx.from) + -tx.value ELSE Balance(executed, b)
      BY <2>1, TxTypes, ComputeBalanceFacts
    <2> QED
      BY <2>2 DEF Debited, executed
  <1> HIDE DEF charged
  <1> QED
    BY <1>1, <1>2, <1>3, <1>4, TxTypes

\* What the executor leaves behind, by how far the transaction got.
LEMMA AppliedType ==
  ASSUME NEW s \in StateRecord, NEW tx \in Tx
  PROVE  Applied(s, tx, Status(s, tx)) \in StateRecord
  <1> DEFINE status == Status(s, tx)
  <1>1. status \in Outcomes /\ (status = "transferred" => tx.to \in Account)
    BY StatusFacts
  <1>2. /\ Prepared(s, tx) \in StateRecord
        /\ Executed(s, tx) \in StateRecord
        /\ Debited(Executed(s, tx), tx) \in StateRecord
    BY PreparedFacts
  <1>3. Read(Executed(s, tx), Contract) \in StateRecord
    BY <1>2, ReadFacts, AddressAssumption
  <1>4. status = "transferred" =>
          ComputeBalance(Debited(Executed(s, tx), tx), tx.to, tx.value) \in StateRecord
    BY <1>1, <1>2, TxTypes, ComputeBalanceFacts
  <1> HIDE DEF status
  <1>5. Applied(s, tx, status) \in StateRecord
    BY <1>1, <1>2, <1>3, <1>4 DEF Applied, Outcomes
  <1> QED
    BY <1>5 DEF status

\* Nobody but the sender loses anything; the sender loses no more than limit and value.
LEMMA AppliedBalance ==
  ASSUME NEW s \in StateRecord, NEW tx \in Tx, NEW b \in Account
  PROVE  /\ b # tx.from => Balance(Applied(s, tx, Status(s, tx)), b) >= Balance(s, b)
         /\ IF Status(s, tx) = "rejected"
            THEN Balance(Applied(s, tx, Status(s, tx)), tx.from) = Balance(s, tx.from)
            ELSE Balance(Applied(s, tx, Status(s, tx)), tx.from) >= Balance(s, tx.from) - tx.fee - tx.value
  <1> DEFINE status == Status(s, tx)
             from == tx.from
             prepared == Prepared(s, tx)
             executed == Executed(s, tx)
             debited == Debited(executed, tx)
             paid == ComputeBalance(debited, tx.to, tx.value)
             read == Read(executed, Contract)
  <1>1. status \in Outcomes /\ (status = "transferred" => tx.to \in Account)
    BY StatusFacts
  <1>2. from \in Account /\ tx.value \in Nat /\ tx.fee \in Nat
    BY TxTypes
  <1>3. executed \in StateRecord /\ debited \in StateRecord
    BY PreparedFacts
  <1>4. /\ Balance(s, b) \in Int /\ Balance(s, from) \in Int
        /\ Balance(debited, b) \in Int /\ Balance(debited, from) \in Int
    BY <1>2, <1>3, BalanceType
  <1>5. ASSUME NEW d \in Account
        PROVE  /\ Balance(prepared, d) = IF d = from THEN Balance(s, from) + -tx.fee ELSE Balance(s, d)
               /\ Balance(executed, d) = Balance(prepared, d)
               /\ Balance(debited, d) = IF d = from THEN Balance(prepared, from) + -tx.value
                                        ELSE Balance(s, d)
    BY PreparedFacts
  <1>6. ASSUME NEW d \in Account
        PROVE  Balance(read, d) = Balance(executed, d)
    BY <1>3, ReadFacts, AddressAssumption
  <1>7. ASSUME NEW d \in Account, status = "transferred"
        PROVE  Balance(paid, d) = IF d = tx.to THEN Balance(debited, tx.to) + tx.value
                                  ELSE Balance(debited, d)
    BY <1>1, <1>2, <1>3, <1>7, ComputeBalanceFacts
  <1>8. /\ status = "rejected" => Applied(s, tx, status) = s
        /\ status \in {"limited", "unparsable"} => Applied(s, tx, status) = prepared
        /\ status = "uncreated" => Applied(s, tx, status) = read
        /\ status = "malformed" => Applied(s, tx, status) = debited
        /\ status = "transferred" => Applied(s, tx, status) = paid
    <2> HIDE DEF status
    <2> QED
      BY DEF Applied
  <1> HIDE DEF status, from, prepared, executed, debited, paid, read
  <1>9. /\ b # from => Balance(Applied(s, tx, status), b) >= Balance(s, b)
        /\ IF status = "rejected"
           THEN Balance(Applied(s, tx, status), from) = Balance(s, from)
           ELSE Balance(Applied(s, tx, status), from) >= Balance(s, from) - tx.fee - tx.value
    <2>1. CASE status = "rejected"
      BY <1>4, <1>8, <2>1
    <2>2. CASE status \in {"limited", "unparsable"}
      BY <1>2, <1>4, <1>5, <1>8, <2>2
    <2>3. CASE status = "uncreated"
      BY <1>2, <1>4, <1>5, <1>6, <1>8, <2>3
    <2>4. CASE status = "malformed"
      BY <1>2, <1>4, <1>5, <1>8, <2>4
    <2>5. CASE status = "transferred"
      BY <1>1, <1>2, <1>4, <1>5, <1>7, <1>8, <2>5
    <2> QED
      BY <1>1, <2>1, <2>2, <2>3, <2>4, <2>5 DEF Outcomes
  <1> QED
    BY <1>9 DEF status, from

LEMMA SettledFacts ==
  ASSUME NEW s \in StateRecord, NEW index \in Nat, NEW tx \in Tx, NEW status \in Outcomes,
         Applied(s, tx, status) \in StateRecord
  PROVE  /\ Settled(s, index, tx, status) \in StateRecord
         /\ \A b \in Account :
              Balance(Settled(s, index, tx, status), b) =
                IF b = tx.from THEN Balance(Applied(s, tx, status), b) + (tx.fee - Used(status))
                ELSE Balance(Applied(s, tx, status), b)
  <1> DEFINE end == Refunded(Applied(s, tx, status), tx, Used(status))
             receipt == [index |-> index, tx |-> tx, status |-> status, paid |-> Used(status)]
             t == Settled(s, index, tx, status)
  <1>1. tx.from \in Account /\ tx.fee - Used(status) \in Int
    BY TxTypes, UsedType
  <1>2. /\ end \in StateRecord
        /\ \A b \in Account :
             Balance(end, b) = IF b = tx.from
                               THEN Balance(Applied(s, tx, status), tx.from) + (tx.fee - Used(status))
                               ELSE Balance(Applied(s, tx, status), b)
    <2> DEFINE applied == Applied(s, tx, status)
               back == tx.fee - Used(status)
    <2>1. applied \in StateRecord /\ back \in Int /\ tx.from \in Account
      BY <1>1
    <2>2. end = ComputeBalance(applied, tx.from, back)
      BY DEF Refunded
    <2> HIDE DEF applied, back, end
    <2> QED
      BY <2>1, <2>2, ComputeBalanceFacts DEF applied, back, end
  <1>3. receipt \in Receipt
    BY UsedType DEF Receipt, Outcomes
  <1>4. t = [end EXCEPT !.receipts = Append(@, receipt), !.paid = @ + Used(status)]
    BY DEF Settled
  <1>5. Used(status) \in Nat
    BY UsedType
  <1> DEFINE used == Used(status)
  <1> HIDE DEF end, receipt, used
  <1>6. ASSUME NEW u, u = [end EXCEPT !.receipts = Append(@, receipt), !.paid = @ + used]
        PROVE  /\ u \in StateRecord
               /\ u.work = end.work /\ u.cache = end.cache
    <2>1. /\ end.work \in Accounts /\ end.cache \in Accounts
          /\ end.receipts \in Seq(Receipt) /\ end.paid \in Nat
      BY <1>2 DEF StateRecord
    <2>2. Append(end.receipts, receipt) \in Seq(Receipt)
      BY <1>3, <2>1
    <2>3. end.paid + used \in Nat
      BY <1>5, <2>1 DEF used
    <2> DEFINE longer == Append(end.receipts, receipt)
               more == end.paid + used
    <2>4. u = [end EXCEPT !.receipts = longer, !.paid = more]
      BY <1>6
    <2> HIDE DEF longer, more
    <2> QED
      BY <1>2, <2>1, <2>2, <2>3, <2>4 DEF StateRecord, longer, more
  <1>7. t \in StateRecord /\ t.work = end.work /\ t.cache = end.cache
    BY <1>4, <1>6 DEF used
  <1> HIDE DEF t
  <1>8. ASSUME NEW b \in Account
        PROVE  Balance(t, b) = Balance(end, b)
    BY <1>7 DEF Balance, GetAccount
  <1> QED
    BY <1>2, <1>7, <1>8 DEF t

LEMMA TransactedFacts ==
  ASSUME NEW s \in StateRecord, NEW index \in Nat, NEW tx \in Tx
  PROVE  /\ Transacted(s, index, tx) \in StateRecord
         /\ Solvent(s) => Solvent(Transacted(s, index, tx))
  <1> DEFINE status == Status(s, tx)
             applied == Applied(s, tx, status)
             t == Settled(s, index, tx, status)
  <1>1. status \in Outcomes /\ applied \in StateRecord
    BY StatusFacts, AppliedType
  <1>2. t \in StateRecord
    BY <1>1, SettledFacts
  <1>3. ASSUME NEW b \in Account
        PROVE  Balance(t, b) = IF b = tx.from THEN Balance(applied, b) + (tx.fee - Used(status))
                               ELSE Balance(applied, b)
    BY <1>1, SettledFacts
  <1>4. ASSUME NEW b \in Account
        PROVE  /\ b # tx.from => Balance(applied, b) >= Balance(s, b)
               /\ IF status = "rejected"
                  THEN Balance(applied, tx.from) = Balance(s, tx.from)
                  ELSE Balance(applied, tx.from) >= Balance(s, tx.from) - tx.fee - tx.value
    BY AppliedBalance
  <1>5. status # "rejected" => Balance(s, tx.from) >= tx.value + tx.fee
    BY StatusFacts
  <1>6. ASSUME NEW b \in Account
        PROVE  Balance(s, b) \in Int /\ Balance(applied, b) \in Int
    BY <1>1, BalanceType
  <1>7. Transacted(s, index, tx) = t
    BY DEF Transacted
  <1> HIDE DEF status, applied, t
  <1>8. ASSUME Solvent(s), NEW b \in Account
        PROVE  Balance(t, b) >= -FeeExecute
    <2>1. Balance(s, b) >= -FeeExecute
      BY <1>8 DEF Solvent
    <2>2. Used(status) = (IF status = "rejected" THEN 0 ELSE FeeExecute) /\ FeeExecute \in Nat
      BY GenesisAssumption DEF Used
    <2>3. CASE b # tx.from
      BY <1>3, <1>4, <1>6, <2>1, <2>2, <2>3
    <2>4. CASE b = tx.from /\ status = "rejected"
      BY <1>3, <1>4, <1>6, <2>1, <2>2, <2>4, TxTypes
    <2>5. CASE b = tx.from /\ status # "rejected"
      BY <1>3, <1>4, <1>5, <1>6, <2>1, <2>2, <2>5, TxTypes
    <2> QED
      BY <2>3, <2>4, <2>5
  <1> QED
    BY <1>2, <1>7, <1>8 DEF Solvent

LEMMA StatusAlike ==
  ASSUME NEW s, NEW t, Alike(s, t), NEW tx \in Tx
  PROVE  Status(s, tx) = Status(t, tx)
  <1>1. GetAccount(s, tx.from) = GetAccount(t, tx.from)
    BY GetAccountIsContent, TxTypes DEF Alike
  <1> QED
    BY <1>1 DEF Status, Validated

LEMMA AppliedAlike ==
  ASSUME NEW s, NEW t, Alike(s, t), NEW tx \in Tx, NEW status \in Outcomes,
         status = "transferred" => tx.to \in Account
  PROVE  Alike(Applied(s, tx, status), Applied(t, tx, status))
  <1>1. Alike(Prepared(s, tx), Prepared(t, tx))
    BY TxTypes, ComputeBalanceAlike, IncreaseNonceAlike DEF Prepared
  <1>2. Alike(Executed(s, tx), Executed(t, tx))
    BY <1>1, TxTypes, IncreaseNonceAlike DEF Executed
  <1>3. Alike(Debited(Executed(s, tx), tx), Debited(Executed(t, tx), tx))
    BY <1>2, TxTypes, ComputeBalanceAlike DEF Debited
  <1>4. Alike(Read(Executed(s, tx), Contract), Read(Executed(t, tx), Contract))
    BY <1>2, ReadAlike, AddressAssumption
  <1>5. status = "transferred" =>
          Alike(ComputeBalance(Debited(Executed(s, tx), tx), tx.to, tx.value),
                ComputeBalance(Debited(Executed(t, tx), tx), tx.to, tx.value))
    BY <1>3, TxTypes, ComputeBalanceAlike
  <1> QED
    BY <1>1, <1>2, <1>3, <1>4, <1>5 DEF Applied, Outcomes

\* Nothing but the accounts decides what the receipt says.
LEMMA TransactedAlike ==
  ASSUME NEW s, NEW t, Alike(s, t), NEW index \in Nat, NEW tx \in Tx
  PROVE  Alike(Transacted(s, index, tx), Transacted(t, index, tx))
  <1> DEFINE status == Status(s, tx)
             receipt == [index |-> index, tx |-> tx, status |-> status, paid |-> Used(status)]
             back == tx.fee - Used(status)
             used == Used(status)
             sEnd == ComputeBalance(Applied(s, tx, status), tx.from, back)
             tEnd == ComputeBalance(Applied(t, tx, status), tx.from, back)
             sDone == Transacted(s, index, tx)
             tDone == Transacted(t, index, tx)
  <1>1. s \in StateRecord /\ t \in StateRecord
    BY DEF Alike
  <1>2. status \in Outcomes /\ (status = "transferred" => tx.to \in Account)
    BY <1>1, StatusFacts
  <1>3. Status(t, tx) = status
    BY StatusAlike
  <1>4. tx.from \in Account /\ back \in Int
    BY TxTypes, UsedType
  <1>5. Alike(Applied(s, tx, status), Applied(t, tx, status))
    <2> HIDE DEF status
    <2> QED
      BY <1>2, AppliedAlike
  <1>6. Alike(sEnd, tEnd)
    <2> HIDE DEF back, status
    <2> QED
      BY <1>4, <1>5, ComputeBalanceAlike
  <1>7. /\ sDone = [sEnd EXCEPT !.receipts = Append(@, receipt), !.paid = @ + used]
        /\ tDone = [tEnd EXCEPT !.receipts = Append(@, receipt), !.paid = @ + used]
    BY <1>3 DEF Transacted, Settled, Refunded
  <1>8. sDone \in StateRecord /\ tDone \in StateRecord
    BY <1>1, TransactedFacts
  <1> HIDE DEF status, receipt, back, used, sEnd, tEnd, sDone, tDone
  <1>9. /\ sDone.work = sEnd.work /\ sDone.cache = sEnd.cache
        /\ tDone.work = tEnd.work /\ tDone.cache = tEnd.cache
        /\ sDone.receipts = tDone.receipts /\ sDone.paid = tDone.paid
    <2>1. sEnd.receipts = tEnd.receipts /\ sEnd.paid = tEnd.paid
      BY <1>6 DEF Alike
    <2>2. sEnd \in StateRecord /\ tEnd \in StateRecord
      BY <1>6 DEF Alike
    <2> QED
      BY <1>7, <2>1, <2>2 DEF StateRecord
  <1>10. Alike(sDone, tDone)
    BY <1>6, <1>8, <1>9 DEF Alike, Agrees
  <1> QED
    BY <1>10 DEF sDone, tDone

-----------------------------------------------------------------------------
(***************************************************************************)
(* The rewards and the end of a wagon.                                     *)
(***************************************************************************)

LEMMA ShareType ==
  ASSUME NEW paid \in Nat, NEW block \in Block
  PROVE  paid \div Cardinality(block.voters) \in Nat
  <1>1. IsFiniteSet(block.voters) /\ block.voters # {} /\ block.voters \in SUBSET Account
    BY BlockAssumption
  <1>2. Cardinality(block.voters) \in Nat /\ Cardinality(block.voters) # 0
    BY <1>1, FS_CardinalityType, FS_EmptySet
  <1> DEFINE many == Cardinality(block.voters)
  <1> HIDE DEF many
  <1>3. paid \div many \in Nat
    BY <1>2 DEF many
  <1> QED
    BY <1>3 DEF many

\* What Rewarded puts into the trie and the cache.
LEMMA RewardedFacts ==
  ASSUME NEW s \in StateRecord, NEW block \in Block
  PROVE  LET r == Rewarded(s, block.voters)
             share == s.paid \div Cardinality(block.voters)
             account(a) == [GetAccount(s, a) EXCEPT !.balance = @ + share]
         IN  /\ r \in StateRecord
             /\ r.receipts = s.receipts /\ r.paid = s.paid
             /\ \A a \in Account :
                  /\ r.work[a] = IF a \in block.voters THEN account(a) ELSE s.work[a]
                  /\ r.cache[a] = IF a \in block.voters THEN account(a) ELSE s.cache[a]
                  /\ account(a) \in AccountRecord
                  /\ account(a).balance >= Balance(s, a)
  <1> DEFINE r == Rewarded(s, block.voters)
             share == s.paid \div Cardinality(block.voters)
             account(a) == [GetAccount(s, a) EXCEPT !.balance = @ + share]
  <1>1. s.paid \in Nat /\ s.work \in Accounts /\ s.cache \in Accounts /\ s.receipts \in Seq(Receipt)
    BY DEF StateRecord
  <1>2. share \in Nat
    BY <1>1, ShareType
  <1>3. ASSUME NEW a \in Account
        PROVE  account(a) \in AccountRecord /\ account(a).balance >= Balance(s, a)
    <2>1. GetAccount(s, a) \in AccountRecord
      BY GetAccountType
    <2> HIDE DEF share
    <2> QED
      BY <1>2, <2>1 DEF AccountRecord, Balance
  <1> DEFINE cache == [a \in Account |-> IF a \in block.voters THEN account(a) ELSE s.cache[a]]
             work == [a \in Account |-> IF a \in block.voters THEN account(a) ELSE s.work[a]]
  <1>4. r = [s EXCEPT !.cache = cache, !.work = work]
    BY DEF Rewarded
  <1> HIDE DEF account, r
  <1>5. cache \in Accounts /\ work \in Accounts
    BY <1>1, <1>3 DEF Accounts
  <1>6. ASSUME NEW a \in Account
        PROVE  /\ work[a] = IF a \in block.voters THEN account(a) ELSE s.work[a]
               /\ cache[a] = IF a \in block.voters THEN account(a) ELSE s.cache[a]
    OBVIOUS
  <1> HIDE DEF cache, work
  <1>7. /\ r \in StateRecord
        /\ r.work = work /\ r.cache = cache /\ r.receipts = s.receipts /\ r.paid = s.paid
    BY <1>1, <1>4, <1>5 DEF StateRecord
  <1>8. /\ r \in StateRecord
        /\ r.receipts = s.receipts /\ r.paid = s.paid
        /\ \A a \in Account :
             /\ r.work[a] = IF a \in block.voters THEN account(a) ELSE s.work[a]
             /\ r.cache[a] = IF a \in block.voters THEN account(a) ELSE s.cache[a]
             /\ account(a) \in AccountRecord
             /\ account(a).balance >= Balance(s, a)
    BY <1>3, <1>6, <1>7
  <1> QED
    BY <1>8 DEF account, r

LEMMA RewardedSolvent ==
  ASSUME NEW s \in StateRecord, NEW block \in Block, Solvent(s)
  PROVE  Solvent(Rewarded(s, block.voters))
  <1> DEFINE r == Rewarded(s, block.voters)
             account(a) == [GetAccount(s, a) EXCEPT !.balance =
                               @ + s.paid \div Cardinality(block.voters)]
  <1>1. ASSUME NEW a \in Account
        PROVE  /\ r.work[a] = IF a \in block.voters THEN account(a) ELSE s.work[a]
               /\ r.cache[a] = IF a \in block.voters THEN account(a) ELSE s.cache[a]
               /\ account(a) \in AccountRecord
               /\ account(a).balance >= Balance(s, a)
    BY RewardedFacts
  <1> HIDE DEF r, account
  <1>2. ASSUME NEW a \in Account
        PROVE  Balance(r, a) >= -FeeExecute
    <2>1. Balance(s, a) >= -FeeExecute /\ Balance(s, a) \in Int
      BY BalanceType DEF Solvent
    <2>2. CASE a \in block.voters
      <3>1. GetAccount(r, a) = account(a)
        BY <1>1, <2>2, NoneIsNoAccount DEF GetAccount
      <3> QED
        BY <1>1, <2>1, <3>1, GenesisAssumption DEF Balance, AccountRecord
    <2>3. CASE a \notin block.voters
      BY <1>1, <2>1, <2>3 DEF Balance, GetAccount, Content
    <2> QED
      BY <2>2, <2>3
  <1> QED
    BY <1>2 DEF Solvent, r

LEMMA RewardedAlike ==
  ASSUME NEW s, NEW t, Alike(s, t), NEW block \in Block
  PROVE  Alike(Rewarded(s, block.voters), Rewarded(t, block.voters))
  <1> DEFINE voters == block.voters
             account(u, a) == [GetAccount(u, a) EXCEPT !.balance =
                                  @ + u.paid \div Cardinality(voters)]
             sDone == Rewarded(s, voters)
             tDone == Rewarded(t, voters)
  <1>1. /\ s \in StateRecord /\ t \in StateRecord /\ Agrees(s) /\ Agrees(t)
        /\ s.work = t.work /\ s.receipts = t.receipts /\ s.paid = t.paid
    BY DEF Alike
  <1>2. ASSUME NEW u \in StateRecord, Agrees(u)
        PROVE  /\ Rewarded(u, voters) \in StateRecord
               /\ Rewarded(u, voters).receipts = u.receipts
               /\ Rewarded(u, voters).paid = u.paid
               /\ Agrees(Rewarded(u, voters))
               /\ \A a \in Account :
                    Rewarded(u, voters).work[a] = IF a \in voters THEN account(u, a) ELSE u.work[a]
    <2> DEFINE v == Rewarded(u, voters)
    <2>1. /\ v \in StateRecord
          /\ v.receipts = u.receipts /\ v.paid = u.paid
      BY RewardedFacts
    <2>2. ASSUME NEW a \in Account
          PROVE  /\ v.work[a] = IF a \in voters THEN account(u, a) ELSE u.work[a]
                 /\ v.cache[a] = IF a \in voters THEN account(u, a) ELSE u.cache[a]
                 /\ account(u, a) \in AccountRecord
      BY RewardedFacts
    <2> HIDE DEF v, account
    <2>3. ASSUME NEW a \in Account
          PROVE  v.cache[a] = None \/ v.cache[a] = Content(v.work, a)
      <3>1. CASE a \in voters
        BY <2>2, <3>1, NoneIsNoAccount DEF Content
      <3>2. CASE a \notin voters
        BY <1>2, <2>2, <3>2 DEF Content, Agrees
      <3> QED
        BY <3>1, <3>2
    <2> QED
      BY <2>1, <2>2, <2>3 DEF Agrees, v
  <1>3. ASSUME NEW a \in Account
        PROVE  account(s, a) = account(t, a)
    <2>1. GetAccount(s, a) = GetAccount(t, a)
      BY <1>1, GetAccountIsContent
    <2> QED
      BY <1>1, <2>1
  <1> HIDE DEF account, voters
  <1>4. /\ Agrees(sDone) /\ Agrees(tDone)
        /\ sDone \in StateRecord /\ tDone \in StateRecord
        /\ sDone.receipts = tDone.receipts /\ sDone.paid = tDone.paid
    BY <1>1, <1>2
  <1>5. ASSUME NEW a \in Account
        PROVE  sDone.work[a] = tDone.work[a]
    BY <1>1, <1>2, <1>3
  <1>6. sDone.work = tDone.work
    <2>1. sDone.work \in Accounts /\ tDone.work \in Accounts
      BY <1>4 DEF StateRecord
    <2> HIDE DEF sDone, tDone
    <2> QED
      BY <1>5, <2>1 DEF Accounts
  <1> QED
    BY <1>4, <1>6 DEF Alike, voters

LEMMA CleanFacts ==
  ASSUME NEW map \in Accounts
  PROVE  /\ Clean(map) \in StateRecord
         /\ Agrees(Clean(map))
         /\ Clean(map).work = map /\ Clean(map).cache = NoAccounts
         /\ Clean(map).receipts = <<>> /\ Clean(map).paid = 0
         /\ \A a \in Account : Balance(Clean(map), a) = Content(map, a).balance
  <1>1. NoAccounts \in Accounts /\ \A a \in Account : NoAccounts[a] = None
    BY DEF NoAccounts, Accounts
  <1>2. <<>> \in Seq(Receipt)
    OBVIOUS
  <1> QED
    BY <1>1, <1>2 DEF Clean, StateRecord, Agrees, Balance, GetAccount

LEMMA NoAccountsType == NoAccounts \in Accounts
  BY DEF NoAccounts, Accounts

LEMMA SetRootFacts ==
  ASSUME NEW s \in StateRecord, committed \in Accounts
  PROVE  /\ SetRoot(s) \in StateRecord
         /\ SetRoot(s).work = committed /\ SetRoot(s).cache = s.cache
         /\ SetRoot(s).receipts = s.receipts /\ SetRoot(s).paid = 0
  BY DEF SetRoot, StateRecord

\* Equal tries give equal headers, and a cache that agrees passes the commit.
LEMMA AlikeHeaders ==
  ASSUME NEW s, NEW t, Alike(s, t)
  PROVE  Header(s) = Header(t) /\ ~CacheError(s)
  <1>1. Header(s) = Header(t)
    BY DEF Header, Alike
  <1>2. ~CacheError(s)
    BY DEF CacheError, Alike, Agrees, Content
  <1> QED
    BY <1>1, <1>2

-----------------------------------------------------------------------------
(***************************************************************************)
(* The invariant.                                                          *)
(***************************************************************************)

CachesChain == \A a \in Account : exec.cache[a] = None \/ exec.cache[a] = Content(committed, a)

\* What is left to an account while the validators are being endowed.
AtLeast(a) == IF a = Creator THEN Published - (next - 1) * Minimum ELSE 0

\* Without trouble, a wagon finds no receipts and a cache that says what the chain
\* says, and stays alike to a clean one; a clean one is always solvent.
IInv ==
    /\ TypeOK
    /\ NoDeepDebt
    /\ pc = "genesis" =>
        /\ Agrees(exec) /\ exec.receipts = <<>> /\ trouble = {}
        /\ next <= Len(Validator) + 1
        /\ \A a \in Account : Balance(exec, a) >= AtLeast(a)
    /\ pc = "idle" /\ trouble = {} => exec.receipts = <<>> /\ CachesChain
    /\ pc \in {"execute", "executed"} =>
        /\ height < MaxHeight
        /\ Agrees(ref) /\ Solvent(ref)
        /\ trouble = {} => Alike(exec, ref)

LEMMA SelfAlike ==
  ASSUME NEW s
  PROVE  Alike(s, s) <=> s \in StateRecord /\ Agrees(s)
  BY DEF Alike

\* A state that agrees is solvent if the accounts in its trie are.
LEMMA AgreesBalance ==
  ASSUME NEW s \in StateRecord, Agrees(s), NEW a \in Account
  PROVE  Balance(s, a) = Content(s.work, a).balance
  BY GetAccountIsContent DEF Balance

LEMMA SetDelegatedFacts ==
  ASSUME NEW s \in StateRecord, NEW a \in Account, NEW value \in Nat
  PROVE  /\ SetDelegated(s, a, value) \in StateRecord
         /\ SetDelegated(s, a, value).receipts = s.receipts
         /\ Agrees(s) => Agrees(SetDelegated(s, a, value))
         /\ \A b \in Account :
              Balance(SetDelegated(s, a, value), b) =
                IF b = a THEN Balance(s, a) + -value ELSE Balance(s, b)
  <1> DEFINE paid == ComputeBalance(s, a, -value)
             account == [GetAccount(paid, a) EXCEPT !.stake = @ + value]
  <1>1. -value \in Int /\ value \in Int
    OBVIOUS
  <1>2. /\ paid \in StateRecord
        /\ \A b \in Account :
             Balance(paid, b) = IF b = a THEN Balance(s, a) + -value ELSE Balance(s, b)
    BY <1>1, ComputeBalanceFacts
  <1>3. Agrees(s) => Agrees(paid)
    BY <1>1, SelfAlike, ComputeBalanceAlike
  <1>4. paid.receipts = s.receipts
    BY DEF ComputeBalance, SetAccount, StateRecord
  <1>5. SetDelegated(s, a, value) = SetAccount(paid, a, account)
    BY DEF SetDelegated
  <1> HIDE DEF paid
  <1>6. account \in AccountRecord /\ account.balance = Balance(paid, a)
    BY <1>1, <1>2, GetAccountType DEF AccountRecord, Balance
  <1> HIDE DEF account
  <1>7. /\ SetAccount(paid, a, account) \in StateRecord
        /\ SetAccount(paid, a, account).receipts = paid.receipts
    BY <1>2, <1>6, SetAccountFacts
  <1>8. Agrees(paid) => Agrees(SetAccount(paid, a, account))
    BY <1>2, <1>6, SelfAlike, SetAccountAlike
  <1>9. ASSUME NEW b \in Account
        PROVE  Balance(SetAccount(paid, a, account), b) = Balance(paid, b)
    BY <1>2, <1>6, SetAccountRead DEF Balance
  <1> QED
    BY <1>2, <1>3, <1>4, <1>5, <1>7, <1>8, <1>9

LEMMA EndowedFacts ==
  ASSUME NEW s \in StateRecord, Agrees(s), s.receipts = <<>>, NEW a \in Account
  PROVE  /\ Endowed(s, a) \in StateRecord
         /\ Agrees(Endowed(s, a))
         /\ Endowed(s, a).receipts = <<>>
         /\ \A b \in Account :
              Balance(Endowed(s, a), b) =
                IF b = Creator THEN Balance(s, b) + -Minimum ELSE Balance(s, b)
  <1> DEFINE first == IncreaseNonce(s, Creator)
             nonces == IncreaseNonce(first, a)
             taken == ComputeBalance(nonces, Creator, -Minimum)
             given == ComputeBalance(taken, a, Minimum)
  <1>1. Creator \in Account /\ Minimum \in Nat /\ -Minimum \in Int /\ Minimum \in Int
    BY GenesisAssumption
  <1>2. /\ first \in StateRecord /\ Agrees(first)
        /\ \A b \in Account : Balance(first, b) = Balance(s, b)
    BY <1>1, IncreaseNonceFacts, IncreaseNonceAlike, SelfAlike
  <1>3. /\ nonces \in StateRecord /\ Agrees(nonces)
        /\ \A b \in Account : Balance(nonces, b) = Balance(first, b)
    <2> HIDE DEF first
    <2> QED
      BY <1>2, IncreaseNonceFacts, IncreaseNonceAlike, SelfAlike
  <1>4. /\ taken \in StateRecord /\ Agrees(taken)
        /\ \A b \in Account :
             Balance(taken, b) = IF b = Creator THEN Balance(nonces, Creator) + -Minimum
                                 ELSE Balance(nonces, b)
    <2> HIDE DEF nonces
    <2> QED
      BY <1>1, <1>3, ComputeBalanceFacts, ComputeBalanceAlike, SelfAlike
  <1>5. /\ given \in StateRecord /\ Agrees(given)
        /\ \A b \in Account :
             Balance(given, b) = IF b = a THEN Balance(taken, a) + Minimum ELSE Balance(taken, b)
    <2> HIDE DEF taken
    <2> QED
      BY <1>1, <1>4, ComputeBalanceFacts, ComputeBalanceAlike, SelfAlike
  <1>6. given.receipts = <<>>
    <2>1. ASSUME NEW u \in StateRecord, NEW d \in Account, NEW account
          PROVE  SetAccount(u, d, account).receipts = u.receipts
      BY DEF SetAccount, StateRecord
    <2> QED
      BY <1>1, <1>2, <1>3, <1>4, <2>1 DEF ComputeBalance, IncreaseNonce
  <1>7. Endowed(s, a) = SetDelegated(given, a, Minimum)
    BY DEF Endowed
  <1> HIDE DEF given
  <1>8. /\ SetDelegated(given, a, Minimum) \in StateRecord
        /\ SetDelegated(given, a, Minimum).receipts = given.receipts
        /\ Agrees(SetDelegated(given, a, Minimum))
        /\ \A b \in Account :
             Balance(SetDelegated(given, a, Minimum), b) =
               IF b = a THEN Balance(given, a) + -Minimum ELSE Balance(given, b)
    BY <1>1, <1>5, SetDelegatedFacts
  <1> HIDE DEF first, nonces, taken
  <1>9. ASSUME NEW b \in Account
        PROVE  Balance(Endowed(s, a), b) =
                 IF b = Creator THEN Balance(s, b) + -Minimum ELSE Balance(s, b)
    <2>1. Balance(s, b) \in Int /\ Balance(taken, b) \in Int
      BY <1>4, BalanceType
    <2> QED
      BY <1>1, <1>2, <1>3, <1>4, <1>5, <1>7, <1>8, <2>1
  <1> QED
    BY <1>6, <1>7, <1>8, <1>9

LEMMA InitInvariant == Init => IInv
  <1> SUFFICES ASSUME Init PROVE IInv
    OBVIOUS
  <1> DEFINE clean == Clean(NoAccounts)
  <1>1. /\ Creator \in Account /\ Published \in Nat /\ Minimum \in Nat /\ FeeExecute \in Nat
        /\ MaxHeight \in Nat /\ Validator \in Seq(Account) /\ Published \in Int
    BY GenesisAssumption
  <1>2. /\ clean \in StateRecord /\ Agrees(clean) /\ clean.receipts = <<>>
        /\ \A a \in Account : Balance(clean, a) = 0
    BY NoAccountsType, CleanFacts DEF Content, NoAccounts, Default
  <1>3. exec = ComputeBalance(clean, Creator, Published) /\ ref = clean
    BY DEF Init
  <1> HIDE DEF clean
  <1>4. /\ exec \in StateRecord /\ Agrees(exec)
        /\ \A a \in Account : Balance(exec, a) = IF a = Creator THEN Published ELSE 0
    BY <1>1, <1>2, <1>3, ComputeBalanceFacts, ComputeBalanceAlike, SelfAlike
  <1>5. exec.receipts = <<>>
    BY <1>2, <1>3 DEF ComputeBalance, SetAccount, StateRecord
  <1>6. TypeOK
    BY <1>1, <1>2, <1>3, <1>4, NoAccountsType DEF TypeOK, Init
  <1>7. NoDeepDebt
    BY <1>1 DEF NoDeepDebt, Init, Content, NoAccounts, Default
  <1>8. \A a \in Account : Balance(exec, a) >= AtLeast(a)
    <2>1. AtLeast(Creator) = Published
      BY <1>1 DEF AtLeast, Init
    <2> QED
      BY <1>1, <1>4, <2>1 DEF AtLeast
  <1>9. next <= Len(Validator) + 1
    BY <1>1 DEF Init
  <1> QED
    BY <1>4, <1>5, <1>6, <1>7, <1>8, <1>9 DEF IInv, Init

LEMMA DeclareValidatorInvariant == IInv /\ DeclareValidator => IInv'
  <1> SUFFICES ASSUME IInv, DeclareValidator PROVE IInv'
    OBVIOUS
  <1> DEFINE v == Validator[next]
  <1>1. /\ Creator \in Account /\ Published \in Nat /\ Minimum \in Nat
        /\ Validator \in Seq(Account)
    BY GenesisAssumption
  <1>2. next \in 1..Len(Validator) /\ v \in Account
    BY <1>1 DEF IInv, TypeOK, DeclareValidator
  <1>3. exec \in StateRecord /\ Agrees(exec) /\ exec.receipts = <<>>
    BY DEF IInv, TypeOK, DeclareValidator
  <1>4. exec' = Endowed(exec, v)
    BY DEF DeclareValidator
  <1> HIDE DEF v
  <1>5. /\ exec' \in StateRecord /\ Agrees(exec)' /\ exec'.receipts = <<>>
        /\ \A a \in Account :
             Balance(exec', a) = IF a = Creator THEN Balance(exec, a) + -Minimum ELSE Balance(exec, a)
    BY <1>2, <1>3, <1>4, EndowedFacts DEF Agrees
  <1>6. TypeOK'
    BY <1>2, <1>5 DEF IInv, TypeOK, DeclareValidator
  <1>7. NoDeepDebt'
    BY DEF IInv, NoDeepDebt, DeclareValidator
  <1>8. ASSUME NEW a \in Account
        PROVE  Balance(exec', a) >= AtLeast(a)'
    <2>1. Balance(exec, a) >= AtLeast(a) /\ Balance(exec, a) \in Int
      BY <1>3, BalanceType DEF IInv, DeclareValidator
    <2>2. next' = next + 1
      BY DEF DeclareValidator
    <2>3. (next' - 1) * Minimum = (next - 1) * Minimum + Minimum
      BY <1>1, <1>2, <2>2
    <2>4. (next - 1) * Minimum \in Int
      BY <1>1, <1>2
    <2> DEFINE before == (next - 1) * Minimum
               after == (next' - 1) * Minimum
    <2>5. after = before + Minimum /\ before \in Int
      BY <2>3, <2>4
    <2>6. AtLeast(a) = IF a = Creator THEN Published - before ELSE 0
      BY DEF AtLeast
    <2>7. AtLeast(a)' = IF a = Creator THEN Published - after ELSE 0
      BY DEF AtLeast
    <2> HIDE DEF before, after
    <2> QED
      BY <1>1, <1>5, <2>1, <2>5, <2>6, <2>7
  <1>9. next' <= Len(Validator) + 1
    BY <1>1, <1>2 DEF DeclareValidator
  <1> QED
    BY <1>5, <1>6, <1>7, <1>8, <1>9 DEF IInv, DeclareValidator, Balance, GetAccount, Content

LEMMA DeclareGenesisInvariant == IInv /\ DeclareGenesis => IInv'
  <1> SUFFICES ASSUME IInv, DeclareGenesis PROVE IInv'
    OBVIOUS
  <1>1. /\ Creator \in Account /\ Published \in Nat /\ Minimum \in Nat /\ FeeExecute \in Nat
        /\ Validator \in Seq(Account) /\ Len(Validator) * Minimum <= Published
    BY GenesisAssumption
  <1>2. /\ exec \in StateRecord /\ Agrees(exec) /\ exec.receipts = <<>>
        /\ \A a \in Account : Balance(exec, a) >= AtLeast(a)
        /\ next \in Nat /\ next <= Len(Validator) + 1 /\ next > Len(Validator)
    BY DEF IInv, TypeOK, DeclareGenesis
  <1>3. next - 1 = Len(Validator)
    BY <1>1, <1>2
  <1>4. ASSUME NEW a \in Account
        PROVE  AtLeast(a) >= 0
    <2>1. Len(Validator) \in Nat /\ Len(Validator) * Minimum \in Nat
      BY <1>1
    <2> DEFINE given == Len(Validator) * Minimum
    <2>2. AtLeast(a) = IF a = Creator THEN Published - given ELSE 0
      BY <1>3 DEF AtLeast
    <2>3. given \in Nat /\ given <= Published
      BY <1>1, <2>1
    <2> HIDE DEF given
    <2> QED
      BY <1>1, <2>2, <2>3
  <1>5. committed' = exec.work /\ committed' \in Accounts /\ ref' = Clean(committed')
    BY <1>2 DEF DeclareGenesis, StateRecord
  <1>6. NoDeepDebt'
    <2> SUFFICES ASSUME NEW a \in Account PROVE Content(exec.work, a).balance >= -FeeExecute
      BY <1>5 DEF NoDeepDebt
    <2>1. Content(exec.work, a).balance = Balance(exec, a) /\ Balance(exec, a) \in Int
      BY <1>2, AgreesBalance, BalanceType
    <2>2. AtLeast(a) \in Int
      BY <1>1, <1>2 DEF AtLeast
    <2> QED
      BY <1>1, <1>2, <1>4, <2>1, <2>2
  <1>7. ref' \in StateRecord
    BY <1>5, CleanFacts
  <1>8. TypeOK'
    BY <1>1, <1>2, <1>5, <1>7 DEF IInv, TypeOK, DeclareGenesis
  <1>9. CachesChain'
    BY <1>2, <1>5 DEF CachesChain, Agrees, DeclareGenesis
  <1> QED
    BY <1>2, <1>6, <1>8, <1>9 DEF IInv, DeclareGenesis

LEMMA StartInvariant ==
  ASSUME NEW block \in Block, NEW links \in BOOLEAN, NEW right \in BOOLEAN,
         IInv, Start(block, links, right)
  PROVE  IInv'
  <1> DEFINE given == SetRoot(exec)
             clean == Clean(committed)
  <1>1. exec \in StateRecord /\ committed \in Accounts /\ FeeExecute \in Nat
    BY GenesisAssumption DEF IInv, TypeOK
  <1>2. exec' = given /\ ref' = clean /\ committed' = committed
    BY DEF Start
  <1>3. /\ given \in StateRecord
        /\ given.work = committed /\ given.cache = exec.cache
        /\ given.receipts = exec.receipts /\ given.paid = 0
    BY <1>1, SetRootFacts
  <1>4. /\ clean \in StateRecord /\ Agrees(clean)
        /\ clean.work = committed /\ clean.receipts = <<>> /\ clean.paid = 0
        /\ \A a \in Account : Balance(clean, a) = Content(committed, a).balance
    BY <1>1, CleanFacts
  <1> HIDE DEF given, clean
  <1>5. TypeOK'
    BY <1>1, <1>2, <1>3, <1>4, AddressAssumption DEF IInv, TypeOK, Start
  <1>6. NoDeepDebt'
    BY <1>2 DEF IInv, NoDeepDebt
  <1>7. Solvent(clean)
    BY <1>4 DEF IInv, NoDeepDebt, Solvent
  <1>8. trouble = {} => Alike(given, clean)
    BY <1>3, <1>4 DEF IInv, CachesChain, Alike, Agrees, Start
  <1>9. /\ Agrees(ref)' /\ Solvent(ref)' /\ (trouble' = {} => Alike(exec, ref)')
    BY <1>2, <1>4, <1>7, <1>8 DEF Start
  <1>10. height' < MaxHeight /\ pc' = "execute"
    BY DEF Start
  <1> QED
    BY <1>5, <1>6, <1>9, <1>10 DEF IInv

LEMMA ExecuteTransactionInvariant == IInv /\ ExecuteTransaction => IInv'
  <1> SUFFICES ASSUME IInv, ExecuteTransaction PROVE IInv'
    OBVIOUS
  <1> DEFINE tx == job.block.txs[next]
             done == Transacted(exec, next, tx)
             refDone == Transacted(ref, next, tx)
  <1>1. job.block \in Block
    BY DEF IInv, TypeOK, ExecuteTransaction
  <1>2. next \in Nat /\ tx \in Tx
    BY <1>1, BlockAssumption DEF IInv, TypeOK, ExecuteTransaction
  <1>3. /\ exec \in StateRecord /\ ref \in StateRecord /\ Agrees(ref) /\ Solvent(ref)
        /\ trouble = {} => Alike(exec, ref)
    BY DEF IInv, TypeOK, ExecuteTransaction
  <1>4. exec' = done /\ ref' = refDone
    BY DEF ExecuteTransaction
  <1> HIDE DEF tx
  <1>5. done \in StateRecord /\ refDone \in StateRecord /\ Solvent(refDone)
    BY <1>2, <1>3, TransactedFacts
  <1>6. Agrees(refDone)
    BY <1>2, <1>3, SelfAlike, TransactedAlike
  <1>7. trouble = {} => Alike(done, refDone)
    BY <1>2, <1>3, TransactedAlike
  <1> HIDE DEF done, refDone
  <1>8. TypeOK'
    BY <1>2, <1>4, <1>5 DEF IInv, TypeOK, ExecuteTransaction
  <1>9. NoDeepDebt'
    BY DEF IInv, NoDeepDebt, ExecuteTransaction
  <1>10. Agrees(ref)' /\ Solvent(ref)' /\ (trouble' = {} => Alike(exec, ref)')
    BY <1>4, <1>5, <1>6, <1>7 DEF ExecuteTransaction
  <1> QED
    BY <1>8, <1>9, <1>10 DEF IInv, ExecuteTransaction

LEMMA PreFinalizeInvariant == IInv /\ PreFinalize => IInv'
  <1> SUFFICES ASSUME IInv, PreFinalize PROVE IInv'
    OBVIOUS
  <1> DEFINE block == job.block
             done == Rewarded(exec, block.voters)
             refDone == Rewarded(ref, block.voters)
  <1>1. block \in Block
    BY DEF IInv, TypeOK, PreFinalize
  <1>2. /\ exec \in StateRecord /\ ref \in StateRecord /\ Agrees(ref) /\ Solvent(ref)
        /\ trouble = {} => Alike(exec, ref)
    BY DEF IInv, TypeOK, PreFinalize
  <1>3. exec' = done /\ ref' = refDone
    BY DEF PreFinalize
  <1> HIDE DEF block
  <1>4. done \in StateRecord /\ refDone \in StateRecord
    BY <1>1, <1>2, RewardedFacts
  <1>5. Solvent(refDone)
    BY <1>1, <1>2, RewardedSolvent
  <1>6. Agrees(refDone)
    BY <1>1, <1>2, SelfAlike, RewardedAlike
  <1>7. trouble = {} => Alike(done, refDone)
    BY <1>1, <1>2, RewardedAlike
  <1> HIDE DEF done, refDone
  <1>8. TypeOK'
    BY <1>3, <1>4 DEF IInv, TypeOK, PreFinalize
  <1>9. NoDeepDebt'
    BY DEF IInv, NoDeepDebt, PreFinalize
  <1>10. Agrees(ref)' /\ Solvent(ref)' /\ (trouble' = {} => Alike(exec, ref)')
    BY <1>3, <1>5, <1>6, <1>7 DEF PreFinalize
  <1> QED
    BY <1>8, <1>9, <1>10 DEF IInv, PreFinalize

\* A wagon that is cleared finds nothing of what it has done.
LEMMA ClearFacts ==
  ASSUME NEW s, NEW map \in Accounts
  PROVE  /\ Clear(s, map) \in StateRecord
         /\ Clear(s, map).receipts = <<>> /\ Clear(s, map).cache = NoAccounts
  BY NoAccountsType, CleanFacts DEF Clear

\* The end of a block: the chain is what it was, or what the clean wagon says.
LEMMA FinishInvariant ==
  ASSUME IInv, Finish, pc = "executed",
         committed' \in {committed, ref.work}, height' \in {height, height + 1},
         exec' \in StateRecord,
         own' \in [block : Block, right : BOOLEAN] \cup {None},
         trouble' \in SUBSET {"refused", "queried"},
         trouble' = {} => exec'.receipts = <<>> /\ exec'.cache = NoAccounts
  PROVE  IInv'
  <1>1. ref \in StateRecord /\ Agrees(ref) /\ Solvent(ref) /\ committed \in Accounts
    BY DEF IInv, TypeOK
  <1>2. committed' \in Accounts
    BY <1>1 DEF StateRecord
  <1>3. ref' \in StateRecord
    BY <1>2, CleanFacts DEF Finish
  <1>4. height' \in 0..MaxHeight
    BY GenesisAssumption DEF IInv, TypeOK
  <1>5. TypeOK'
    BY <1>2, <1>3, <1>4 DEF TypeOK, Finish
  <1>6. ASSUME NEW a \in Account
        PROVE  Content(ref.work, a).balance >= -FeeExecute
    BY <1>1, AgreesBalance DEF Solvent
  <1>7. NoDeepDebt'
    BY <1>6 DEF IInv, NoDeepDebt
  <1>8. trouble' = {} => CachesChain'
    BY DEF CachesChain, NoAccounts
  <1> QED
    BY <1>5, <1>7, <1>8 DEF IInv, Finish

LEMMA MakeFinalizeInvariant == IInv /\ MakeFinalize => IInv'
  <1> SUFFICES ASSUME IInv, MakeFinalize PROVE IInv'
    OBVIOUS
  <1>1. /\ Clear(exec, committed) \in StateRecord
        /\ Clear(exec, committed).receipts = <<>> /\ Clear(exec, committed).cache = NoAccounts
    BY ClearFacts DEF IInv, TypeOK
  <1>2. own' \in [block : Block, right : BOOLEAN] \cup {None}
    <2> DEFINE right == (Header(exec) = Header(ref))
    <2>1. right \in BOOLEAN
      OBVIOUS
    <2>2. job.block \in Block
      BY DEF IInv, TypeOK, MakeFinalize
    <2>3. own' = [block |-> job.block, right |-> right]
      BY DEF MakeFinalize
    <2> HIDE DEF right
    <2> QED
      BY <2>1, <2>2, <2>3
  <1> QED
    BY <1>1, <1>2, FinishInvariant DEF MakeFinalize

LEMMA RefuseInvariant == IInv /\ Refuse => IInv'
  BY FinishInvariant DEF Refuse, IInv, TypeOK

LEMMA CommitInvariant == IInv /\ Commit => IInv'
  <1> SUFFICES ASSUME IInv, Commit PROVE IInv'
    OBVIOUS
  <1>1. exec.work = ref.work /\ exec.work \in Accounts
    BY DEF Commit, HashMatches, Header, IInv, TypeOK, StateRecord
  <1>2. /\ Clear(exec, exec.work) \in StateRecord
        /\ Clear(exec, exec.work).receipts = <<>> /\ Clear(exec, exec.work).cache = NoAccounts
    BY <1>1, ClearFacts
  <1> QED
    BY <1>1, <1>2, FinishInvariant DEF Commit

LEMMA CommitFailsInvariant == IInv /\ CommitFails => IInv'
  <1> SUFFICES ASSUME IInv, CommitFails PROVE IInv'
    OBVIOUS
  <1>1. /\ Clear(exec, committed) \in StateRecord
        /\ Clear(exec, committed).receipts = <<>> /\ Clear(exec, committed).cache = NoAccounts
    BY ClearFacts DEF IInv, TypeOK
  <1>2. own' \in [block : Block, right : BOOLEAN] \cup {None}
    BY DEF IInv, TypeOK, CommitFails
  <1> QED
    BY <1>1, <1>2, FinishInvariant DEF CommitFails

LEMMA QueryInvariant ==
  ASSUME NEW a \in Account, IInv, Query(a)
  PROVE  IInv'
  <1>1. exec \in StateRecord /\ committed \in Accounts
    BY DEF IInv, TypeOK
  <1>2. /\ Read(exec, a) \in StateRecord
        /\ Read(exec, a).cache = [exec.cache EXCEPT ![a] = GetAccount(exec, a)]
        /\ Read(exec, a).receipts = exec.receipts
    BY <1>1, ReadFacts
  <1>3. TypeOK'
    BY <1>2 DEF IInv, TypeOK, Query
  <1>4. NoDeepDebt'
    BY DEF IInv, NoDeepDebt, Query
  <1>5. trouble' = {} => exec'.receipts = <<>> /\ CachesChain'
    <2> SUFFICES ASSUME trouble' = {} PROVE exec'.receipts = <<>> /\ CachesChain'
      OBVIOUS
    <2>1. trouble = {} /\ exec.work = committed
      BY DEF Query
    <2>2. exec.receipts = <<>> /\ CachesChain
      BY <2>1 DEF IInv, Query
    <2>3. GetAccount(exec, a) = Content(committed, a)
      BY <2>1, <2>2 DEF GetAccount, CachesChain
    <2>4. exec.cache \in [Account -> AccountRecord \cup {None}]
      BY <1>1 DEF StateRecord, Accounts
    <2>5. exec' = Read(exec, a) /\ committed' = committed
      BY DEF Query
    <2> QED
      BY <1>2, <2>2, <2>3, <2>4, <2>5 DEF CachesChain
  <1> QED
    BY <1>3, <1>4, <1>5 DEF IInv, Query

LEMMA RestartInvariant == IInv /\ Restart => IInv'
  <1> SUFFICES ASSUME IInv, Restart PROVE IInv'
    OBVIOUS
  <1>1. committed \in Accounts
    BY DEF IInv, TypeOK
  <1>2. /\ Clean(committed) \in StateRecord
        /\ Clean(committed).receipts = <<>> /\ Clean(committed).cache = NoAccounts
    BY <1>1, CleanFacts
  <1>3. TypeOK'
    BY <1>2 DEF IInv, TypeOK, Restart
  <1>4. NoDeepDebt'
    BY DEF IInv, NoDeepDebt, Restart
  <1>5. exec'.receipts = <<>> /\ CachesChain'
    BY <1>2 DEF Restart, CachesChain, NoAccounts
  <1> QED
    BY <1>3, <1>4, <1>5 DEF IInv, Restart

\* The inductive invariant is one: every step of Wagon preserves it, and so do
\* steps that change nothing.
LEMMA StepInvariant == IInv /\ [Next]_vars => IInv'
  <1> SUFFICES ASSUME IInv, [Next]_vars PROVE IInv'
    OBVIOUS
  <1>1. CASE DeclareValidator
    BY <1>1, DeclareValidatorInvariant
  <1>2. CASE DeclareGenesis
    BY <1>2, DeclareGenesisInvariant
  <1>3. ASSUME NEW block \in Block, StartPropose(block) PROVE IInv'
    BY <1>3, StartInvariant DEF StartPropose
  <1>4. CASE StartLink
    <2>1. ASSUME NEW block \in Block, NEW right \in BOOLEAN, Start(block, TRUE, right)
          PROVE  IInv'
      BY <2>1, StartInvariant
    <2>2. CASE own # None /\ Start(own.block, TRUE, own.right)
      <3>1. own.block \in Block /\ own.right \in BOOLEAN
        BY <2>2 DEF IInv, TypeOK
      <3> QED
        BY <2>2, <3>1, StartInvariant
    <2> QED
      BY <1>4, <2>1, <2>2 DEF StartLink
  <1>5. CASE ExecuteTransaction
    BY <1>5, ExecuteTransactionInvariant
  <1>6. CASE PreFinalize
    BY <1>6, PreFinalizeInvariant
  <1>7. CASE MakeFinalize
    BY <1>7, MakeFinalizeInvariant
  <1>8. CASE Refuse
    BY <1>8, RefuseInvariant
  <1>9. CASE Commit
    BY <1>9, CommitInvariant
  <1>10. CASE CommitFails
    BY <1>10, CommitFailsInvariant
  <1>11. ASSUME NEW a \in Account, Query(a) PROVE IInv'
    BY <1>11, QueryInvariant
  <1>12. CASE Restart
    BY <1>12, RestartInvariant
  <1>13. CASE UNCHANGED vars
    BY <1>13 DEF vars, IInv, TypeOK, NoDeepDebt, CachesChain, AtLeast
  <1> QED
    BY <1>1, <1>2, <1>3, <1>4, <1>5, <1>6, <1>7, <1>8, <1>9, <1>10, <1>11, <1>12, <1>13 DEF Next

-----------------------------------------------------------------------------
(***************************************************************************)
(* The theorems.                                                           *)
(***************************************************************************)

\* The invariant holds in every state a node can reach.
THEOREM Invariance == Spec => []IInv
  <1>1. Init => IInv
    BY InitInvariant
  <1>2. IInv /\ [Next]_vars => IInv'
    BY StepInvariant
  <1> QED
    BY <1>1, <1>2, PTL DEF Spec

\* The variables of Wagon have their types: no fee counted, no nonce is negative
\* (StateDB, Wagon).
THEOREM TypeCorrect == Spec => []TypeOK
  <1>1. IInv => TypeOK
    BY DEF IInv
  <1> QED
    BY <1>1, Invariance, PTL

\* Whatever was proposed, linked or asked for before, a wagon that starts without
\* trouble computes the header every other node computes, and its commit succeeds
\* (Wagon.execute_transactions, StateDB.commit).
THEOREM HonestLinks == Spec => []HonestIsLinkable
  <1>1. IInv => HonestIsLinkable
    <2> SUFFICES ASSUME IInv, pc = "executed", trouble = {}
                 PROVE  Header(exec) = Header(ref) /\ ~CacheError(exec)
      BY DEF HonestIsLinkable
    <2>1. Alike(exec, ref)
      BY DEF IInv
    <2> QED
      BY <2>1, AlikeHeaders
  <1> QED
    BY <1>1, Invariance, PTL

\* No account the chain knows owes more than one fee (ExecuteContext.use,
\* State.validate_transaction), whatever the blocks, the fee and the validators.
THEOREM DebtIsBounded == Spec => []NoDeepDebt
  <1>1. IInv => NoDeepDebt
    BY DEF IInv
  <1> QED
    BY <1>1, Invariance, PTL

=============================================================================

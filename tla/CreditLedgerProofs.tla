------------------------- MODULE CreditLedgerProofs -------------------------
(***************************************************************************)
(* Proofs about CreditLedger for every number of users and transactions,   *)
(* every set of amounts and every column width: the balances never go      *)
(* below zero, the ledger explains them, and the interleaved transactions  *)
(* implement the atomic movements of Accounts.                             *)
(***************************************************************************)
EXTENDS CreditLedger, SequenceTheorems, SumTheorems, TLAPS

-----------------------------------------------------------------------------
(* The inductive invariant: what holding a row means. *)

\* A transaction past its SELECT ... FOR UPDATE is the one holder of the row.
HoldersLock == \A t \in Txns : pc[t] \in Holding => lock[UserOf(t)] = t

\* What it read then is still the stored balance, and its account has not come
\* to exist, or ceased to be missing, in the meantime.
HoldersAreFresh ==
  \A t \in Txns : pc[t] \in Holding =>
    /\ seen[t] = balance[UserOf(t)]
    /\ job[t].opens <=> UserOf(t) \notin accounts

\* Past the guard the new balance is legal.
GuardPassed == \A t \in Txns : pc[t] \in {"insert", "commit"} => After(t) \in 0..MaxInt

\* The amount is the caller's, or the starter credits of a registration.
AmountsKnown ==
  \A t \in Txns : pc[t] # "idle" =>
    job[t].amount \in (IF job[t].opens THEN {StarterCredits} ELSE Amounts)

\* Without an account there is no balance.
ClosedIsEmpty == \A u \in Users \ accounts : balance[u] = 0

IInv ==
  /\ TypeOK /\ NeverOverdrawn /\ LedgerExplainsBalance
  /\ HoldersLock /\ HoldersAreFresh /\ GuardPassed /\ AmountsKnown /\ ClosedIsEmpty

-----------------------------------------------------------------------------
\* A ledger stays coherent when the row transfer appends starts from the last
\* balanceAfter, and that row is then the last one.
LEMMA AppendedRowContinues ==
  ASSUME NEW rows \in Seq(Row), NEW r \in Row, Continues(rows),
         r.after = r.amount + (IF rows = <<>> THEN 0 ELSE rows[Len(rows)].after)
  PROVE  /\ Append(rows, r) \in Seq(Row)
         /\ Append(rows, r) # <<>>
         /\ Append(rows, r)[Len(Append(rows, r))] = r
         /\ Continues(Append(rows, r))
<1> DEFINE new == Append(rows, r)
<1>1. /\ new \in Seq(Row) /\ Len(new) = Len(rows) + 1 /\ new # <<>>
      /\ \A i \in 1..Len(rows) : new[i] = rows[i]
      /\ new[Len(rows) + 1] = r
  BY AppendProperties
<1>2. Len(rows) \in Nat /\ (rows = <<>> <=> Len(rows) = 0)
  BY EmptySeq, LenProperties
<1>3. ASSUME NEW i \in 1..Len(new)
      PROVE  new[i].after = new[i].amount + (IF i = 1 THEN 0 ELSE new[i - 1].after)
  <2>1. CASE i = Len(rows) + 1
    BY <1>1, <1>2, <2>1
  <2>2. CASE i # Len(rows) + 1
    BY <1>1, <1>2, <2>2 DEF Continues
  <2> QED BY <2>1, <2>2
<1> QED BY <1>1, <1>3 DEF Continues

\* balanceAfter is an integer.
LEMMA AfterIsInteger ==
  ASSUME TypeOK, NEW t \in Txns
  PROVE  After(t) \in Int /\ job[t].amount \in Int
<1>1. job[t] \in Jobs /\ seen[t] \in Int
  BY DEF TypeOK
<1>2. job[t].amount \in Amounts \cup {0, StarterCredits}
  BY <1>1 DEF Jobs
<1>3. job[t].amount \in Int
  <2>1. StarterCredits \in Int
    BY LedgerConstants
  <2>2. \A a \in Amounts : a \in Int
    BY LedgerConstants
  <2> QED BY <1>2, <2>1, <2>2
<1> QED BY <1>1, <1>3 DEF After

-----------------------------------------------------------------------------
\* The invariant holds in the empty database.
LEMMA InitEstablishes == Init => IInv
<1> USE LedgerConstants
<1> SUFFICES ASSUME Init PROVE IInv
  OBVIOUS
<1>1. TypeOK
  BY DEF Init, TypeOK, Phases, Jobs, NoJob, Row
<1>2. NeverOverdrawn /\ LedgerExplainsBalance
  BY EmptySeq DEF Init, NeverOverdrawn, LedgerExplainsBalance, Continues
<1>3. HoldersLock /\ HoldersAreFresh /\ GuardPassed /\ AmountsKnown /\ ClosedIsEmpty
  BY DEF Init, HoldersLock, HoldersAreFresh, GuardPassed, AmountsKnown, ClosedIsEmpty, Holding
<1> QED BY <1>1, <1>2, <1>3 DEF IInv

\* Rolling back keeps the invariant: the committed data stay, a row is freed.
LEMMA AbortPreserves ==
  ASSUME IInv, NEW t \in Txns, pc[t] # "idle", Abort(t)
  PROVE  IInv'
<1> USE LedgerConstants
<1>1. /\ pc' = [pc EXCEPT ![t] = "idle"]
      /\ lock' = [u \in Users |-> IF lock[u] = t THEN Nobody ELSE lock[u]]
      /\ job' = [job EXCEPT ![t] = NoJob]
      /\ seen' = [seen EXCEPT ![t] = 0]
      /\ UNCHANGED <<accounts, balance, ledger>>
  BY DEF Abort, EndTxn, Goto, Unlocked
<1>2. TypeOK'
  BY <1>1 DEF IInv, TypeOK, Phases, Jobs, NoJob, UserOf
<1>3. NeverOverdrawn' /\ LedgerExplainsBalance' /\ ClosedIsEmpty'
  BY <1>1 DEF IInv, NeverOverdrawn, LedgerExplainsBalance, ClosedIsEmpty
<1>4. \A q \in Txns : q # t => pc'[q] = pc[q] /\ job'[q] = job[q] /\ seen'[q] = seen[q]
  BY <1>1 DEF IInv, TypeOK
<1>5. pc'[t] = "idle"
  BY <1>1 DEF IInv, TypeOK
<1>6. HoldersLock'
  <2> SUFFICES ASSUME NEW q \in Txns, pc'[q] \in Holding
               PROVE  lock'[job'[q].user] = q
    BY DEF HoldersLock, UserOf
  <2>1. q # t /\ pc[q] \in Holding /\ lock[UserOf(q)] = q /\ UserOf(q) \in Users
    BY <1>4, <1>5 DEF IInv, HoldersLock, Holding, TypeOK
  <2> QED BY <1>1, <1>4, <2>1 DEF UserOf
<1>7. HoldersAreFresh' /\ GuardPassed' /\ AmountsKnown'
  BY <1>1, <1>4, <1>5
     DEF IInv, HoldersAreFresh, GuardPassed, AmountsKnown, UserOf, After, Holding
<1> QED BY <1>2, <1>3, <1>6, <1>7 DEF IInv

\* Taking the row lock: the reader's balance is the stored one, and stays so
\* while it holds the row.
LEMMA LockRowPreserves ==
  ASSUME IInv, NEW t \in Txns, LockRow(t)
  PROVE  IInv'
<1> USE LedgerConstants
<1> DEFINE u == UserOf(t)
<1>1. u \in Users /\ lock[u] = Nobody /\ pc[t] = "select"
  BY DEF LockRow, RowFree, IInv, TypeOK
<1>2. /\ pc' = [pc EXCEPT ![t] = "update"]
      /\ lock' = [lock EXCEPT ![u] = t]
      /\ seen' = [seen EXCEPT ![t] = balance[u]]
      /\ UNCHANGED <<accounts, balance, ledger, job>>
      /\ job[t].opens <=> u \notin accounts
  BY DEF LockRow, Goto
<1>3. TypeOK'
  BY <1>1, <1>2 DEF IInv, TypeOK, Phases, UserOf
<1>4. NeverOverdrawn' /\ LedgerExplainsBalance' /\ ClosedIsEmpty'
  BY <1>2 DEF IInv, NeverOverdrawn, LedgerExplainsBalance, ClosedIsEmpty
<1>5. \A q \in Txns : q # t => pc'[q] = pc[q] /\ seen'[q] = seen[q]
  BY <1>2 DEF IInv, TypeOK
<1>6. pc'[t] = "update" /\ seen'[t] = balance[u] /\ lock'[u] = t
  BY <1>1, <1>2 DEF IInv, TypeOK
<1>7. HoldersLock'
  <2> SUFFICES ASSUME NEW q \in Txns, pc'[q] \in Holding
               PROVE  lock'[job'[q].user] = q
    BY DEF HoldersLock, UserOf
  <2>1. CASE q = t
    BY <1>2, <1>6, <2>1 DEF UserOf
  <2>2. CASE q # t
    <3>1. pc[q] \in Holding /\ lock[UserOf(q)] = q /\ UserOf(q) \in Users
      BY <1>5, <2>2 DEF IInv, HoldersLock, Holding, TypeOK
    <3>2. UserOf(q) # u
      BY <1>1, <3>1
    <3> QED BY <1>2, <3>1, <3>2 DEF UserOf, IInv, TypeOK
  <2> QED BY <2>1, <2>2
<1>8. HoldersAreFresh'
  BY <1>2, <1>5, <1>6 DEF IInv, HoldersAreFresh, UserOf
<1>9. GuardPassed' /\ AmountsKnown'
  BY <1>1, <1>2, <1>5, <1>6 DEF IInv, GuardPassed, AmountsKnown, After
<1> QED BY <1>3, <1>4, <1>7, <1>8, <1>9 DEF IInv

\* A statement inside the transaction moves nothing but its own phase.
LEMMA StatementPreserves ==
  ASSUME IInv, NEW t \in Txns, UpdateBalance(t) \/ InsertRow(t)
  PROVE  IInv'
<1> USE LedgerConstants
<1>1. /\ UNCHANGED <<accounts, balance, ledger, lock, job, seen>>
      /\ \/ /\ pc[t] = "update" /\ pc' = [pc EXCEPT ![t] = "insert"]
            /\ After(t) >= 0 /\ After(t) <= MaxInt
         \/ pc[t] = "insert" /\ pc' = [pc EXCEPT ![t] = "commit"]
  BY DEF UpdateBalance, InsertRow, Goto, Affordable, Storable
<1>2. After(t) \in Int
  BY AfterIsInteger DEF IInv
<1>3. TypeOK'
  BY <1>1 DEF IInv, TypeOK, Phases, UserOf
<1>4. NeverOverdrawn' /\ LedgerExplainsBalance' /\ ClosedIsEmpty'
  BY <1>1 DEF IInv, NeverOverdrawn, LedgerExplainsBalance, ClosedIsEmpty
<1>5. /\ \A q \in Txns : q # t => pc'[q] = pc[q]
      /\ pc[t] \in Holding /\ pc'[t] \in Holding
  BY <1>1 DEF IInv, TypeOK, Holding
<1>6. HoldersLock' /\ HoldersAreFresh'
  BY <1>1, <1>5 DEF IInv, HoldersLock, HoldersAreFresh, UserOf
<1>7. GuardPassed'
  BY <1>1, <1>2, <1>5 DEF IInv, GuardPassed, After, TypeOK
<1>8. AmountsKnown'
  BY <1>1, <1>5 DEF IInv, AmountsKnown, Holding
<1> QED BY <1>3, <1>4, <1>6, <1>7, <1>8 DEF IInv

\* A transaction that begins holds no row and touches no data.
LEMMA BeginPreserves ==
  ASSUME IInv, NEW t \in Txns, NEW u \in Users,
         BeginRegister(t, u) \/ \E a \in Amounts : BeginTransfer(t, u, a)
  PROVE  IInv'
<1> USE LedgerConstants
<1>1. PICK j \in Jobs :
        /\ j.user = u
        /\ j.amount \in (IF j.opens THEN {StarterCredits} ELSE Amounts)
        /\ job' = [job EXCEPT ![t] = j]
        /\ pc' = [pc EXCEPT ![t] = "select"]
        /\ UNCHANGED <<accounts, balance, ledger, lock, seen>>
  <2>1. CASE BeginRegister(t, u)
    <3>1. [user |-> u, amount |-> StarterCredits, opens |-> TRUE] \in Jobs
      BY DEF Jobs
    <3> QED BY <2>1, <3>1 DEF BeginRegister, Goto
  <2>2. CASE \E a \in Amounts : BeginTransfer(t, u, a)
    <3>1. PICK a \in Amounts : BeginTransfer(t, u, a)
      BY <2>2
    <3>2. [user |-> u, amount |-> a, opens |-> FALSE] \in Jobs
      BY DEF Jobs
    <3> QED BY <3>1, <3>2 DEF BeginTransfer, Goto
  <2> QED BY <2>1, <2>2
<1>2. TypeOK'
  BY <1>1 DEF IInv, TypeOK, Phases, UserOf
<1>3. NeverOverdrawn' /\ LedgerExplainsBalance' /\ ClosedIsEmpty'
  BY <1>1 DEF IInv, NeverOverdrawn, LedgerExplainsBalance, ClosedIsEmpty
<1>4. /\ \A q \in Txns : q # t => pc'[q] = pc[q] /\ job'[q] = job[q]
      /\ pc'[t] = "select" /\ job'[t] = j
  BY <1>1 DEF IInv, TypeOK
<1>5. HoldersLock' /\ HoldersAreFresh' /\ GuardPassed' /\ AmountsKnown'
  BY <1>1, <1>4
     DEF IInv, HoldersLock, HoldersAreFresh, GuardPassed, AmountsKnown, UserOf, After, Holding
<1> QED BY <1>2, <1>3, <1>5 DEF IInv

\* Committing: the stored balance and the ledger move together, and nobody else
\* holds the row whose balance changes.
LEMMA CommitPreserves ==
  ASSUME IInv, NEW t \in Txns, Commit(t)
  PROVE  IInv'
<1> USE LedgerConstants
<1> DEFINE u == UserOf(t)
           r == LedgerRow(t)
<1>1. /\ pc[t] = "commit" /\ u \in Users /\ lock[u] = t
      /\ seen[t] = balance[u] /\ After(t) \in 0..MaxInt
      /\ job[t].amount \in Int
  BY AfterIsInteger
     DEF Commit, IInv, TypeOK, HoldersLock, HoldersAreFresh, GuardPassed, Holding
<1>2. /\ accounts' = accounts \cup {u}
      /\ balance' = [balance EXCEPT ![u] = After(t)]
      /\ ledger' = [ledger EXCEPT ![u] = Append(ledger[u], r)]
      /\ pc' = [pc EXCEPT ![t] = "idle"]
      /\ lock' = [x \in Users |-> IF lock[x] = t THEN Nobody ELSE lock[x]]
      /\ job' = [job EXCEPT ![t] = NoJob]
      /\ seen' = [seen EXCEPT ![t] = 0]
  BY <1>1 DEF Commit, EndTxn, Goto, Unlocked, IInv, TypeOK
<1>3. /\ r \in Row /\ ledger[u] \in Seq(Row) /\ Continues(ledger[u])
      /\ r.after = After(t) /\ r.amount = job[t].amount
  BY <1>1 DEF LedgerRow, Row, IInv, TypeOK, LedgerExplainsBalance
<1>4. r.after = r.amount + (IF ledger[u] = <<>> THEN 0 ELSE ledger[u][Len(ledger[u])].after)
  <2>1. balance[u] = (IF ledger[u] = <<>> THEN 0 ELSE ledger[u][Len(ledger[u])].after)
    BY <1>1 DEF IInv, LedgerExplainsBalance
  <2>2. balance[u] \in Int /\ After(t) = balance[u] + job[t].amount
    BY <1>1 DEF After, IInv, TypeOK
  <2>3. After(t) = job[t].amount + balance[u]
    BY <1>1, <2>2
  <2> QED BY <1>3, <2>1, <2>3
<1>5. /\ ledger'[u] = Append(ledger[u], r)
      /\ \A x \in Users : x # u => ledger'[x] = ledger[x] /\ balance'[x] = balance[x]
      /\ balance'[u] = After(t)
  BY <1>1, <1>2 DEF IInv, TypeOK
<1>6. /\ ledger'[u] \in Seq(Row) /\ ledger'[u] # <<>>
      /\ ledger'[u][Len(ledger'[u])].after = balance'[u]
      /\ Continues(ledger'[u])
  BY <1>3, <1>4, <1>5, AppendedRowContinues
<1>7. TypeOK'
  <2>1. ledger' \in [Users -> Seq(Row)]
    BY <1>1, <1>2, <1>6 DEF IInv, TypeOK
  <2>2. balance' \in [Users -> Int] /\ \A x \in Users : balance'[x] <= MaxInt
    BY <1>1, <1>2 DEF IInv, TypeOK
  <2> QED BY <1>1, <1>2, <2>1, <2>2 DEF IInv, TypeOK, Phases, Jobs, NoJob, UserOf
<1>8. NeverOverdrawn'
  BY <1>1, <1>5 DEF IInv, NeverOverdrawn
<1>9. LedgerExplainsBalance'
  <2>1. \A x \in Users : Continues(ledger'[x])
    BY <1>5, <1>6 DEF IInv, LedgerExplainsBalance
  <2>2. \A x \in Users : balance'[x] = (IF ledger'[x] = <<>> THEN 0
                                        ELSE ledger'[x][Len(ledger'[x])].after)
    BY <1>5, <1>6 DEF IInv, LedgerExplainsBalance
  <2> QED BY <2>1, <2>2 DEF LedgerExplainsBalance
<1>10. /\ \A q \in Txns : q # t => pc'[q] = pc[q] /\ job'[q] = job[q] /\ seen'[q] = seen[q]
       /\ pc'[t] = "idle"
  BY <1>2 DEF IInv, TypeOK
<1>11. \A q \in Txns : q # t /\ pc[q] \in Holding => UserOf(q) \in Users /\ UserOf(q) # u
  BY <1>1 DEF IInv, HoldersLock, TypeOK, Holding
<1>12. HoldersLock'
  <2> SUFFICES ASSUME NEW q \in Txns, pc'[q] \in Holding
               PROVE  lock'[job'[q].user] = q
    BY DEF HoldersLock, UserOf
  <2>1. q # t /\ pc[q] \in Holding /\ lock[UserOf(q)] = q /\ UserOf(q) \in Users
    BY <1>10 DEF IInv, HoldersLock, Holding, TypeOK
  <2> QED BY <1>2, <1>10, <2>1 DEF UserOf
<1>13. HoldersAreFresh'
  <2> SUFFICES ASSUME NEW q \in Txns, pc'[q] \in Holding
               PROVE  /\ seen'[q] = balance'[job'[q].user]
                      /\ job'[q].opens <=> job'[q].user \notin accounts'
    BY DEF HoldersAreFresh, UserOf
  <2>1. q # t /\ pc[q] \in Holding
    BY <1>10 DEF Holding
  <2> QED BY <1>2, <1>5, <1>10, <1>11, <2>1 DEF IInv, HoldersAreFresh, UserOf
<1>14. GuardPassed' /\ AmountsKnown'
  BY <1>10 DEF IInv, GuardPassed, AmountsKnown, After
<1>15. ClosedIsEmpty'
  BY <1>2, <1>5 DEF IInv, ClosedIsEmpty
<1> QED BY <1>7, <1>8, <1>9, <1>12, <1>13, <1>14, <1>15 DEF IInv

\* Every step keeps the invariant.
LEMMA NextPreserves == IInv /\ [Next]_vars => IInv'
<1> SUFFICES ASSUME IInv, [Next]_vars PROVE IInv'
  OBVIOUS
<1>1. CASE UNCHANGED vars
  BY <1>1 DEF vars, IInv, TypeOK, NeverOverdrawn, LedgerExplainsBalance, HoldersLock,
              HoldersAreFresh, GuardPassed, AmountsKnown, ClosedIsEmpty, UserOf, After
<1>2. ASSUME NEW t \in Txns, NEW u \in Users,
             BeginRegister(t, u) \/ \E a \in Amounts : BeginTransfer(t, u, a)
      PROVE  IInv'
  BY <1>2, BeginPreserves
<1>3. ASSUME NEW t \in Txns, LockRow(t)
      PROVE  IInv'
  BY <1>3, LockRowPreserves
<1>4. ASSUME NEW t \in Txns, UpdateBalance(t) \/ InsertRow(t)
      PROVE  IInv'
  BY <1>4, StatementPreserves
<1>5. ASSUME NEW t \in Txns, Commit(t)
      PROVE  IInv'
  BY <1>5, CommitPreserves
<1>6. ASSUME NEW t \in Txns,
             \/ UserNotFound(t) \/ EmailTaken(t) \/ InsufficientCredits(t)
             \/ ColumnOverflow(t) \/ Fail(t)
      PROVE  IInv'
  <2>1. pc[t] # "idle" /\ Abort(t)
    BY <1>6 DEF UserNotFound, EmailTaken, InsufficientCredits, ColumnOverflow, Fail
  <2> QED BY <2>1, AbortPreserves
<1> QED BY <1>1, <1>2, <1>3, <1>4, <1>5, <1>6 DEF Next, Step, AtRest

\* The invariant holds throughout.
THEOREM Invariance == Spec => []IInv
BY InitEstablishes, NextPreserves, PTL DEF Spec

\* Every variable keeps its type, and every stored balance fits its column.
THEOREM TypeCorrect == Spec => []TypeOK
<1>1. IInv => TypeOK
  BY DEF IInv
<1> QED BY <1>1, Invariance, PTL

\* Concurrent transfers never drive a balance below zero (credit.service.ts:26-34).
THEOREM NoOverdraft == Spec => []NeverOverdrawn
<1>1. IInv => NeverOverdrawn
  BY DEF IInv
<1> QED BY <1>1, Invariance, PTL

\* The committed ledger always explains the stored balance, row by row.
THEOREM LedgerCoherent == Spec => []LedgerExplainsBalance
<1>1. IInv => LedgerExplainsBalance
  BY DEF IInv
<1> QED BY <1>1, Invariance, PTL

-----------------------------------------------------------------------------
(* The sum of the ledger. *)

Movements(rows) == [i \in 1..Len(rows) |-> rows[i].amount]

\* What getTransactions lists adds up to what getBalance answers.
BalanceIsSum == \A u \in Users : balance[u] = SumFunction(Movements(ledger[u]))

LEMMA MovementsAppend ==
  ASSUME NEW rows \in Seq(Row), NEW r \in Row
  PROVE  SumFunction(Movements(Append(rows, r))) = SumFunction(Movements(rows)) + r.amount
<1>1. Len(rows) \in Nat /\ r.amount \in Int
  BY LenProperties DEF Row
<1>0. \A i \in 1..Len(rows) : rows[i].amount \in Int
  <2>1. \A i \in 1..Len(rows) : rows[i] \in Row
    BY ElementOfSeq
  <2> QED BY <2>1 DEF Row
<1>2. Movements(rows) \in Seq(Int)
  BY <1>0, <1>1, IsASeq DEF Movements
<1>3. Movements(Append(rows, r)) = Append(Movements(rows), r.amount)
  BY <1>1 DEF Movements
<1> QED BY <1>1, <1>2, <1>3, SumAppend

LEMMA SumInit == Init => BalanceIsSum
<1> DEFINE none == Movements(<<>>)
<1>1. DOMAIN none = {}
  BY DEF Movements
<1> HIDE DEF none
<1>2. SumFunction(none) = 0
  BY <1>1, SumEmpty DEF SumFunction
<1>3. SumFunction(Movements(<<>>)) = 0
  BY <1>2 DEF none
<1>4. ASSUME Init, NEW u \in Users PROVE balance[u] = SumFunction(Movements(ledger[u]))
  <2>1. balance[u] = 0 /\ ledger[u] = <<>>
    BY <1>4 DEF Init
  <2> QED BY <1>3, <2>1
<1> QED BY <1>4 DEF BalanceIsSum

LEMMA SumStep == IInv /\ BalanceIsSum /\ [Next]_vars => BalanceIsSum'
<1> SUFFICES ASSUME IInv, BalanceIsSum, [Next]_vars PROVE BalanceIsSum'
  OBVIOUS
<1>1. ASSUME NEW t \in Txns, Commit(t) PROVE BalanceIsSum'
  <2> DEFINE u == UserOf(t)
             r == LedgerRow(t)
  <2>1. /\ u \in Users /\ seen[t] = balance[u]
        /\ job[t].amount \in Int /\ balance[u] \in Int /\ After(t) \in Int
    BY <1>1, AfterIsInteger DEF Commit, IInv, TypeOK, HoldersAreFresh, Holding
  <2>2. r \in Row /\ r.amount = job[t].amount
    BY <2>1 DEF LedgerRow, Row
  <2>3. /\ ledger'[u] = Append(ledger[u], r) /\ ledger[u] \in Seq(Row)
        /\ balance'[u] = balance[u] + job[t].amount
    BY <1>1, <2>1 DEF Commit, After, IInv, TypeOK
  <2>4. \A x \in Users : x # u => ledger'[x] = ledger[x] /\ balance'[x] = balance[x]
    BY <1>1, <2>1 DEF Commit, IInv, TypeOK
  <2>5. SumFunction(Movements(Append(ledger[u], r))) = balance[u] + r.amount
    BY <2>1, <2>2, <2>3, MovementsAppend DEF BalanceIsSum
  <2>6. balance'[u] = SumFunction(Movements(ledger'[u]))
    BY <2>2, <2>3, <2>5
  <2>7. ASSUME NEW x \in Users PROVE balance'[x] = SumFunction(Movements(ledger'[x]))
    <3>1. CASE x = u
      BY <2>6, <3>1
    <3>2. CASE x # u
      <4>1. balance[x] = SumFunction(Movements(ledger[x]))
        BY DEF BalanceIsSum
      <4> QED BY <2>4, <3>2, <4>1
    <3> QED BY <3>1, <3>2
  <2> QED BY <2>7 DEF BalanceIsSum
<1>2. CASE UNCHANGED <<balance, ledger>>
  BY <1>2 DEF BalanceIsSum
<1>3. ASSUME NEW t \in Txns, ~Commit(t),
             Step(t) \/ Fail(t) \/ \E u \in Users : BeginRegister(t, u) \/ \E a \in Amounts : BeginTransfer(t, u, a)
      PROVE  UNCHANGED <<balance, ledger>>
  BY <1>3 DEF Step, BeginRegister, BeginTransfer, LockRow, UserNotFound, EmailTaken, UpdateBalance,
              InsufficientCredits, ColumnOverflow, InsertRow, Fail, Abort
<1> QED BY <1>1, <1>2, <1>3 DEF Next, AtRest, vars

\* The stored balance is the sum of every movement ever committed, for any number of
\* transactions and failures (credit.service.ts:45-80): no movement is lost or counted
\* twice.
THEOREM LedgerTotals == Spec => []BalanceIsSum
BY SumInit, SumStep, Invariance, PTL DEF Spec

-----------------------------------------------------------------------------
(* The refinement of Accounts. *)

\* A commit is one atomic movement, or the opening of an account; every other
\* step of a transaction is invisible to the reader of committed balances.
LEMMA StepRefines ==
  ASSUME IInv, [Next]_vars
  PROVE  [Abstract!Next]_(Abstract!vars)
<1> USE LedgerConstants
<1>1. ASSUME NEW t \in Txns, Commit(t)
      PROVE  Abstract!Next
  <2> DEFINE u == UserOf(t)
  <2>1. /\ u \in Users /\ seen[t] = balance[u] /\ After(t) \in 0..MaxInt
        /\ job[t].opens <=> u \notin accounts
        /\ job[t].amount \in (IF job[t].opens THEN {StarterCredits} ELSE Amounts)
        /\ job[t].amount \in Int /\ balance[u] \in Int /\ balance \in [Users -> Int]
    BY <1>1, AfterIsInteger
       DEF Commit, IInv, TypeOK, HoldersAreFresh, GuardPassed, AmountsKnown, Holding
  <2>2. /\ accounts' = accounts \cup {u}
        /\ balance' = [balance EXCEPT ![u] = balance[u] + job[t].amount]
    BY <1>1, <2>1 DEF Commit, After
  <2>3. CASE u \notin accounts
    <3>1. balance[u] = 0 /\ job[t].amount = StarterCredits
      BY <2>1, <2>3 DEF IInv, ClosedIsEmpty
    <3>2. Abstract!Open(u)
      BY <2>1, <2>2, <2>3, <3>1 DEF Abstract!Open
    <3> QED BY <2>1, <3>2 DEF Abstract!Next
  <2>4. CASE u \in accounts
    <3>1. accounts' = accounts /\ job[t].amount \in Amounts
      BY <2>1, <2>2, <2>4
    <3>2. Abstract!Move(u, job[t].amount)
      BY <2>1, <2>2, <2>4, <3>1 DEF Abstract!Move, After
    <3> QED BY <2>1, <3>1, <3>2 DEF Abstract!Next
  <2> QED BY <2>3, <2>4
<1>2. ASSUME NEW t \in Txns,
             \/ \E u \in Users : BeginRegister(t, u) \/ \E a \in Amounts : BeginTransfer(t, u, a)
             \/ LockRow(t) \/ UserNotFound(t) \/ EmailTaken(t) \/ UpdateBalance(t)
             \/ InsufficientCredits(t) \/ ColumnOverflow(t) \/ InsertRow(t) \/ Fail(t)
      PROVE  UNCHANGED Abstract!vars
  BY <1>2 DEF Abstract!vars, BeginRegister, BeginTransfer, LockRow, UserNotFound, EmailTaken,
              UpdateBalance, InsufficientCredits, ColumnOverflow, InsertRow, Fail, Abort
<1>3. CASE UNCHANGED vars
  BY <1>3 DEF vars, Abstract!vars
<1> QED BY <1>1, <1>2, <1>3 DEF Next, Step, AtRest

\* The interleaved transactions implement the atomic movements of Accounts.
THEOREM Refinement == Spec => ImplementsAccounts
<1>1. Init => Abstract!Init
  BY DEF Init, Abstract!Init
<1>2. IInv /\ [Next]_vars => [Abstract!Next]_(Abstract!vars)
  BY StepRefines
<1> QED BY <1>1, <1>2, Invariance, PTL DEF Spec, ImplementsAccounts, Abstract!Spec

=============================================================================

---------------------------- MODULE CreditLedger ----------------------------
(***************************************************************************)
(* creditService.transfer, statement by statement, run by concurrent       *)
(* database transactions on PostgreSQL's READ COMMITTED level.  A          *)
(* transaction locks the user's row with SELECT ... FOR UPDATE, checks the *)
(* balance it read, writes the new balance, inserts the ledger row, and    *)
(* commits.  Its writes are invisible to the others until it commits; any  *)
(* statement may fail, the process may die and the transaction may time    *)
(* out, which rolls everything back.                                       *)
(***************************************************************************)
EXTENDS Integers, Sequences

CONSTANTS
  Users,           \* e-mails that may register
  Txns,            \* database transactions that may be open at once
  Amounts,         \* signed movements the callers ask for
  StarterCredits,  \* auth.service.ts STARTER_CREDITS
  MaxInt,          \* largest value of the INTEGER column creditBalance
  MaxRows,         \* BOUND: no movement begins for a user with this many rows
  Nobody           \* neither a user nor a transaction

ASSUME LedgerConstants ==
  /\ Amounts \subseteq Int
  /\ MaxInt \in Nat
  /\ StarterCredits \in 0..MaxInt
  /\ MaxRows \in Nat
  /\ Nobody \notin Txns

VARIABLES
  accounts,  \* users whose row is committed
  balance,   \* committed creditBalance
  ledger,    \* ledger[u]: the committed credit_transactions of u, oldest first
  lock,      \* lock[u]: the transaction that holds u's row, or Nobody
  pc,        \* pc[t]: the statement transaction t is about to run
  job,       \* job[t]: the TransferInput of t, and whether t opens the account
  seen       \* seen[t]: the balance t's SELECT ... FOR UPDATE returned

vars == <<accounts, balance, ledger, lock, pc, job, seen>>

-----------------------------------------------------------------------------
Phases  == {"idle", "select", "update", "insert", "commit"}
Holding == {"update", "insert", "commit"}      \* phases after the row lock

NoJob  == [user |-> Nobody, amount |-> 0, opens |-> FALSE]
Jobs   == [user : Users \cup {Nobody}, amount : Amounts \cup {0, StarterCredits},
           opens : BOOLEAN]
Row    == [amount : Int, after : Int]

UserOf(t) == job[t].user
After(t)  == seen[t] + job[t].amount           \* balanceAfter

\* Slips a change to this code could make; none is part of the specification.
PlainSelect(u)   == TRUE                       \* SELECT without FOR UPDATE
Unchecked(n)     == TRUE                       \* the guard forgotten
RowBefore(t)     == [amount |-> job[t].amount, after |-> seen[t]]

\* SELECT ... FOR UPDATE (or the INSERT of the same e-mail) waits for the row.
RowFree(u) == lock[u] = Nobody

\* The guard of transfer, and the range of the INTEGER column it writes.
Affordable(n) == n >= 0
Storable(n)   == n <= MaxInt

\* The row transfer inserts into the ledger.
LedgerRow(t) == [amount |-> job[t].amount, after |-> After(t)]

Init ==
  /\ accounts = {}
  /\ balance = [u \in Users |-> 0]
  /\ ledger = [u \in Users |-> <<>>]
  /\ lock = [u \in Users |-> Nobody]
  /\ pc = [t \in Txns |-> "idle"]
  /\ job = [t \in Txns |-> NoJob]
  /\ seen = [t \in Txns |-> 0]

-----------------------------------------------------------------------------
Goto(t, p) == pc' = [pc EXCEPT ![t] = p]

\* COMMIT and ROLLBACK both end the transaction and free the row it holds.
Unlocked(t) == [u \in Users |-> IF lock[u] = t THEN Nobody ELSE lock[u]]

EndTxn(t) ==
  /\ Goto(t, "idle")
  /\ lock' = Unlocked(t)
  /\ job' = [job EXCEPT ![t] = NoJob]
  /\ seen' = [seen EXCEPT ![t] = 0]

Abort(t) == EndTxn(t) /\ UNCHANGED <<accounts, balance, ledger>>

\* A caller opens a transaction and calls transfer in it.
BeginTransfer(t, u, a) ==
  /\ pc[t] = "idle"
  /\ Len(ledger[u]) < MaxRows
  /\ Goto(t, "select")
  /\ job' = [job EXCEPT ![t] = [user |-> u, amount |-> a, opens |-> FALSE]]
  /\ UNCHANGED <<accounts, balance, ledger, lock, seen>>

\* register found no account for the e-mail and opens the transaction.
BeginRegister(t, u) ==
  /\ pc[t] = "idle"
  /\ u \notin accounts
  /\ Goto(t, "select")
  /\ job' = [job EXCEPT ![t] = [user |-> u, amount |-> StarterCredits, opens |-> TRUE]]
  /\ UNCHANGED <<accounts, balance, ledger, lock, seen>>

\* The row is locked and its latest committed balance read; for a registration
\* the row is the one just created, with creditBalance 0.
LockRow(t) ==
  /\ pc[t] = "select"
  /\ RowFree(UserOf(t))
  /\ job[t].opens <=> UserOf(t) \notin accounts
  /\ lock' = [lock EXCEPT ![UserOf(t)] = t]
  /\ seen' = [seen EXCEPT ![t] = balance[UserOf(t)]]
  /\ Goto(t, "update")
  /\ UNCHANGED <<accounts, balance, ledger, job>>

\* The SELECT returns no row: an uncommitted registration is invisible.
UserNotFound(t) ==
  /\ pc[t] = "select"
  /\ ~job[t].opens
  /\ UserOf(t) \notin accounts
  /\ Abort(t)

\* The unique index on the e-mail rejects the second of two registrations.
EmailTaken(t) ==
  /\ pc[t] = "select"
  /\ job[t].opens
  /\ RowFree(UserOf(t))
  /\ UserOf(t) \in accounts
  /\ Abort(t)

UpdateBalance(t) ==
  /\ pc[t] = "update"
  /\ Affordable(After(t))
  /\ Storable(After(t))
  /\ Goto(t, "insert")
  /\ UNCHANGED <<accounts, balance, ledger, lock, job, seen>>

InsufficientCredits(t) ==
  /\ pc[t] = "update"
  /\ ~Affordable(After(t))
  /\ Abort(t)

\* The database rejects a balance that does not fit the column.
ColumnOverflow(t) ==
  /\ pc[t] = "update"
  /\ Affordable(After(t))
  /\ ~Storable(After(t))
  /\ Abort(t)

InsertRow(t) ==
  /\ pc[t] = "insert"
  /\ Goto(t, "commit")
  /\ UNCHANGED <<accounts, balance, ledger, lock, job, seen>>

Commit(t) ==
  /\ pc[t] = "commit"
  /\ accounts' = accounts \cup {UserOf(t)}
  /\ balance' = [balance EXCEPT ![UserOf(t)] = After(t)]
  /\ ledger' = [ledger EXCEPT ![UserOf(t)] = Append(@, LedgerRow(t))]
  /\ EndTxn(t)

\* A crash, a lost connection, a transaction timeout or a failing statement.
Fail(t) ==
  /\ pc[t] # "idle"
  /\ Abort(t)

\* No request is in flight: the server waits (the bound may forbid new ones).
AtRest == (\A t \in Txns : pc[t] = "idle") /\ UNCHANGED vars

Step(t) ==
  \/ LockRow(t) \/ UserNotFound(t) \/ EmailTaken(t)
  \/ UpdateBalance(t) \/ InsufficientCredits(t) \/ ColumnOverflow(t)
  \/ InsertRow(t) \/ Commit(t)

Next ==
  \/ \E t \in Txns :
       \/ \E u \in Users : BeginRegister(t, u) \/ \E a \in Amounts : BeginTransfer(t, u, a)
       \/ Step(t)
       \/ Fail(t)
  \/ AtRest

Spec == Init /\ [][Next]_vars

-----------------------------------------------------------------------------
\* Every variable has its type; a stored balance fits the INTEGER column.
TypeOK ==
  /\ accounts \subseteq Users
  /\ balance \in [Users -> Int] /\ \A u \in Users : balance[u] <= MaxInt
  /\ ledger \in [Users -> Seq(Row)]
  /\ lock \in [Users -> Txns \cup {Nobody}]
  /\ pc \in [Txns -> Phases]
  /\ job \in [Txns -> Jobs]
  /\ \A t \in Txns : pc[t] # "idle" => UserOf(t) \in Users
  /\ seen \in [Txns -> Int]

\* Concurrent transfers cannot drive a balance below zero
\* (credit.service.ts:26-34), whatever they read before they were blocked.
NeverOverdrawn == \A u \in Users : balance[u] >= 0

\* The ledger explains the balance: each committed row continues the previous
\* one's balanceAfter by its own amount, and the newest row's balanceAfter is
\* the stored balance (the coherent ledger that seed.ts writes by hand and
\* transfer is to keep), although the two are written by separate statements.
Continues(rows) ==
  \A i \in 1..Len(rows) :
    rows[i].after = rows[i].amount + (IF i = 1 THEN 0 ELSE rows[i - 1].after)

LedgerExplainsBalance ==
  /\ \A u \in Users : Continues(ledger[u])
  /\ \A u \in Users : balance[u] = (IF ledger[u] = <<>> THEN 0
                                     ELSE ledger[u][Len(ledger[u])].after)

\* The interleaved transactions behave as atomic movements on accounts.
Abstract == INSTANCE Accounts

ImplementsAccounts == Abstract!Spec
=============================================================================

------------------------------ MODULE TxLocks ------------------------------
(***************************************************************************)
(* The row locks that the transactions of the services take, in the order  *)
(* their statements take them, on rows of users and sessions.  PostgreSQL  *)
(* locks a row referenced by a foreign key FOR KEY SHARE, an updated row   *)
(* FOR NO KEY UPDATE, and transfer selects the user FOR UPDATE; locks are  *)
(* kept to the end, and the deadlock detector aborts one of a cycle.       *)
(***************************************************************************)
EXTENDS Naturals, Sequences

CONSTANTS
  People, \* rows of users
  Rooms,  \* rows of sessions
  Txns    \* transactions at once

ASSUME LockConstants == People \cap Rooms = {}

VARIABLES
  plan,  \* plan[t]: the locks the transaction t takes, <<>> when it is none
  taken  \* taken[t]: how many of them it has

lockTableVars == <<plan, taken>>

Share  == "FOR KEY SHARE"
Write  == "FOR NO KEY UPDATE"
Update == "FOR UPDATE"
Modes  == {Share, Write, Update}

Excludes(a, b) == ~(a = Share /\ b = Share) /\ {a, b} # {Share, Write}

LocksInit == plan = [t \in Txns |-> <<>>] /\ taken = [t \in Txns |-> 0]

-----------------------------------------------------------------------------
\* A slip a change to this code could make.
PayFirst(m, s) == <<<<m, Update>>, <<s, Write>>>>

\* transfer.
Movement(u) == <<u, Update>>
\* The claim of the slot writes learnerId, which refers to the learner.
Booking(l, s) == <<<<s, Write>>, <<l, Share>>, Movement(l)>>
\* The new session refers to both.
Acceptance(m, l) == <<<<l, Share>>, <<m, Share>>, Movement(l)>>
Completion(m, s) == <<<<s, Write>>, Movement(m)>>
AutoCompletion(m, s) == <<<<s, Write>>, Movement(m)>>
Cancellation(l, s) == <<<<s, Write>>, Movement(l)>>
\* The feedback refers to session and learner, then the mentor's rating is written.
FeedbackLocks(m, l, s) == <<<<l, Share>>, <<s, Share>>, <<m, Write>>>>

Pairs == {p \in People \X People : p[1] # p[2]}

MovementPlans == {<<Movement(u)>> : u \in People}
SessionPlans ==
  UNION {{Booking(u, s), Completion(u, s), AutoCompletion(u, s), Cancellation(u, s)} :
           u \in People, s \in Rooms}
AcceptancePlans == {Acceptance(p[1], p[2]) : p \in Pairs}
FeedbackPlans   == {FeedbackLocks(p[1], p[2], s) : p \in Pairs, s \in Rooms}
Plans == MovementPlans \cup SessionPlans \cup AcceptancePlans \cup FeedbackPlans

-----------------------------------------------------------------------------
Holds(t)  == {plan[t][i] : i \in 1 .. taken[t]}
Wanted(t) == plan[t][taken[t] + 1]
Running(t) == taken[t] < Len(plan[t])

Blocks(u, t) ==
  u # t /\ \E held \in Holds(u) : held[1] = Wanted(t)[1] /\ Excludes(held[2], Wanted(t)[2])

BeginTxn(t, p) ==
  /\ plan[t] = <<>>
  /\ plan' = [plan EXCEPT ![t] = p]
  /\ UNCHANGED taken

TakeLock(t) ==
  /\ Running(t)
  /\ \A u \in Txns : ~Blocks(u, t)
  /\ taken' = [taken EXCEPT ![t] = @ + 1]
  /\ UNCHANGED plan

\* COMMIT, or ROLLBACK after a failure or on the detector's behalf.
Leave(t) ==
  /\ plan[t] # <<>>
  /\ plan' = [plan EXCEPT ![t] = <<>>]
  /\ taken' = [taken EXCEPT ![t] = 0]

LocksNext == \E t \in Txns : TakeLock(t) \/ Leave(t) \/ \E p \in Plans : BeginTxn(t, p)

LocksTypeOK ==
  /\ plan \in [Txns -> Plans \cup {<<>>}] /\ taken \in [Txns -> Nat]
  /\ \A t \in Txns : taken[t] \in 0 .. Len(plan[t])

\* Transactions each of which waits for another of them.
Deadlocked(D) == \A t \in D : Running(t) /\ \E u \in D : Blocks(u, t)

\* t shares the row it now wants for itself.
Upgrading(t) == <<Wanted(t)[1], Share>> \in Holds(t)

\* Sessions are locked before users and of users one at most is locked for
\* update, so transactions deadlock only where transfer asks for the row that a
\* foreign key has made them share (credit.service.ts:47 after
\* session.service.ts:178 or booking.service.ts:182).
DeadlocksAreUpgrades ==
  \A D \in (SUBSET Txns) \ {{}} : Deadlocked(D) => \E t \in D : Upgrading(t)
=============================================================================

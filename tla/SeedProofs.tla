----------------------------- MODULE SeedProofs -----------------------------
(***************************************************************************)
(* The demo data (prisma/seed.ts): what each statement of the seed can     *)
(* rely on, wherever earlier runs were killed, and so what a run that      *)
(* reaches its end leaves behind.                                          *)
(***************************************************************************)
EXTENDS Seed, SumTheorems

-----------------------------------------------------------------------------
\* What the data are.
LEMMA LedgerData ==
  /\ DOMAIN Ledgers = {"emma", "noah", "olivia", "sarah", "michael", "priya"}
  /\ DOMAIN Ledgers \subseteq SeedUsers
  /\ \A u \in DOMAIN Ledgers : Ledgers[u] \in Seq(Int)
<1>1. DOMAIN Ledgers = {"emma", "noah", "olivia", "sarah", "michael", "priya"}
  BY DEF Ledgers
<1>2. SeedUsers = {"admin", "sarah", "michael", "priya", "emma", "noah", "olivia", "james"}
  BY DEF SeedUsers, UserData, MentorData, LearnerData, ToSet
<1>3. \A u \in DOMAIN Ledgers : Ledgers[u] \in Seq(Int)
  <2>1. \A x, y, z, t \in Int : <<x, y, z>> \in Seq(Int) /\ <<x, y, z, t>> \in Seq(Int)
    OBVIOUS
  <2>2. Ledgers["emma"] \in Seq(Int) /\ Ledgers["noah"] \in Seq(Int)
    BY <2>1 DEF Ledgers, SIGNUP
  <2>3. Ledgers["olivia"] \in Seq(Int) /\ Ledgers["sarah"] \in Seq(Int)
    BY <2>1 DEF Ledgers, SIGNUP
  <2>4. Ledgers["michael"] \in Seq(Int) /\ Ledgers["priya"] \in Seq(Int)
    BY <2>1 DEF Ledgers, SIGNUP
  <2> QED
    BY <1>1, <2>2, <2>3, <2>4
<1> QED
  BY <1>1, <1>2, <1>3

LEMMA SessionFacts ==
  /\ IsFiniteSet(Ids)
  /\ \A k \in Kinds : SessionData[k].status \in {"SCHEDULED", "COMPLETED"} /\ SessionData[k].mentor \in SeedMentors
<1>1. Kinds = {"taught", "booked", "office"}
  BY DEF Kinds, SessionData
<1>2. \A k \in Kinds : SessionData[k].status \in {"SCHEDULED", "COMPLETED"} /\ SessionData[k].mentor \in {"sarah", "priya"}
  BY <1>1 DEF SessionData
<1>3. SeedMentors = {"sarah", "michael", "priya"}
  BY DEF SeedMentors, MentorData, ToSet
<1>4. IsFiniteSet(Kinds)
  <2>1. IsFiniteSet({"taught"})
    BY FS_Singleton, Zenon
  <2>2. IsFiniteSet({"taught"} \cup {"booked"})
    BY <2>1, FS_AddElement, Zenon
  <2>3. IsFiniteSet(({"taught"} \cup {"booked"}) \cup {"office"})
    BY <2>2, FS_AddElement, Zenon
  <2>4. Kinds = ({"taught"} \cup {"booked"}) \cup {"office"}
    BY <1>1
  <2> QED
    BY <2>3, <2>4
<1>5. IsFiniteSet(1 .. MaxRuns)
  BY FS_Interval, SeedConstants
<1>6. IsFiniteSet(Ids)
  BY <1>4, <1>5, FS_Product, Zenon DEF Ids
<1> QED
  BY <1>2, <1>3, <1>6

-----------------------------------------------------------------------------
(* The loops visit each user once. *)

Visits(U) ==
  /\ todo \in Seq(U) /\ todo # <<>>
  /\ \A i, j \in DOMAIN todo : todo[i] = todo[j] => i = j

Waiting(u) == \E i \in DOMAIN todo : todo[i] = u

LEMMA VisitAll ==
  /\ todo' = UserData => Visits(SeedUsers)'
  /\ todo' = MentorData => Visits(SeedMentors)' /\ \A m \in SeedMentors : Waiting(m)'
  /\ todo' = LedgerUsers => Visits(DOMAIN Ledgers)' /\ \A u \in DOMAIN Ledgers : Waiting(u)'
<1>1. todo' = UserData => Visits(SeedUsers)'
  BY DEF Visits, UserData, MentorData, LearnerData, SeedUsers, ToSet
<1>2. todo' = MentorData => Visits(SeedMentors)' /\ \A m \in SeedMentors : Waiting(m)'
  BY DEF Visits, Waiting, MentorData, SeedMentors, ToSet
<1>3. todo' = LedgerUsers => Visits(DOMAIN Ledgers)' /\ \A u \in DOMAIN Ledgers : Waiting(u)'
  BY LedgerData DEF Visits, Waiting, LedgerUsers
<1> QED
  BY <1>1, <1>2, <1>3

LEMMA VisitNext ==
  ASSUME NEW U, Visits(U), todo' = Tail(todo)
  PROVE  /\ Head(todo) \in U
         /\ todo' \in Seq(U)
         /\ Len(todo) = 1 <=> todo' = <<>>
         /\ Len(todo) # 1 => Visits(U)'
         /\ \A u \in U : Waiting(u)' <=> Waiting(u) /\ u # Head(todo)
         /\ Waiting(Head(todo))
<1>0. todo \in Seq(U) /\ todo # <<>> /\ \A i, j \in DOMAIN todo : todo[i] = todo[j] => i = j
  BY DEF Visits
<1> DEFINE n == Len(todo)
<1>1. n \in Nat /\ n >= 1 /\ DOMAIN todo = 1 .. n /\ Head(todo) = todo[1] /\ todo[1] \in U
  BY <1>0
<1>2. todo' \in Seq(U) /\ Len(todo') = n - 1 /\ DOMAIN todo' = 1 .. n - 1
  BY <1>0, <1>1
<1>3. \A i \in 1 .. n - 1 : todo'[i] = todo[i + 1]
  BY <1>0, <1>1
<1>4. Len(todo) = 1 <=> todo' = <<>>
  BY <1>1, <1>2
<1>5. \A i, j \in DOMAIN todo' : todo'[i] = todo'[j] => i = j
  <2> TAKE i, j \in DOMAIN todo'
  <2>1. i + 1 \in DOMAIN todo /\ j + 1 \in DOMAIN todo /\ todo'[i] = todo[i + 1] /\ todo'[j] = todo[j + 1]
    BY <1>1, <1>2, <1>3
  <2>2. todo'[i] = todo'[j] => i + 1 = j + 1
    BY <1>0, <2>1
  <2> QED
    BY <1>2, <2>2
<1>6. \A u \in U : Waiting(u)' <=> Waiting(u) /\ u # Head(todo)
  <2> TAKE u \in U
  <2>1. ASSUME Waiting(u)' PROVE Waiting(u) /\ u # Head(todo)
    <3>1. PICK i \in DOMAIN todo' : todo'[i] = u
      BY <2>1 DEF Waiting
    <3>2. i \in Int /\ i >= 1 /\ i + 1 \in DOMAIN todo /\ 1 \in DOMAIN todo /\ todo[i + 1] = u /\ i + 1 # 1
      BY <1>1, <1>2, <1>3, <3>1
    <3>3. u # todo[1]
      BY <1>0, <3>2
    <3> QED
      BY <1>1, <3>2, <3>3 DEF Waiting
  <2>2. ASSUME Waiting(u), u # Head(todo) PROVE Waiting(u)'
    <3>1. PICK i \in DOMAIN todo : todo[i] = u
      BY <2>2 DEF Waiting
    <3>2. i \in 2 .. n
      BY <1>1, <2>2, <3>1
    <3>3. i - 1 \in DOMAIN todo' /\ todo'[i - 1] = todo[(i - 1) + 1] /\ (i - 1) + 1 = i
      BY <1>1, <1>2, <1>3, <3>2
    <3> QED
      BY <3>1, <3>3 DEF Waiting
  <2> QED
    BY <2>1, <2>2
<1>7. Waiting(Head(todo))
  BY <1>1 DEF Waiting
<1> QED
  BY <1>1, <1>2, <1>4, <1>5, <1>6, <1>7 DEF Visits

-----------------------------------------------------------------------------
(* What holds at each statement. *)

Early  == {"users", "skills", "sessions"}
Late   == {"availability", "requests", "ledger rows", "ledger balance",
           "notifications", "reports", "auditLogs", "applicants"}
Steps  == {"off", "feedback", "stats", "wipe"} \cup Early \cup Late
SeedCounts == [taught : Nat, ratings : Nat]

SeedFlow ==
  /\ SeedTypeOK /\ stats \in [SeedMentors -> SeedCounts]
  /\ step \in Steps /\ complete \in BOOLEAN
  /\ run \in Nat /\ run <= MaxRuns
  /\ step # "off" => ~complete /\ run \in 1 .. MaxRuns
  /\ step = "users" => Visits(SeedUsers)
  /\ step = "stats" => Visits(SeedMentors)
  /\ step \in {"ledger rows", "ledger balance"} => Visits(DOMAIN Ledgers)

\* Sessions that a run has still to add are not there, and only completed ones
\* have feedback.
Unborn(n) == n > run \/ (n = run /\ step \in Early)
SessionsKept ==
  /\ \A n \in 1 .. MaxRuns : Unborn(n) => \A k \in Kinds : session[n][k] = "absent"
  /\ \A i \in reviewed : StatusOf(i) = "COMPLETED"

Backfilled(m) == complete \/ step \in Late \cup {"wipe"} \/ (step = "stats" /\ ~Waiting(m))
StatsDone  == \A m \in SeedMentors : Backfilled(m) => stats[m] = StatsOf(m)

Emptied(u) ==
  \/ step \in {"availability", "requests"}
  \/ step \in {"ledger rows", "ledger balance"} /\ Waiting(u) /\ (step = "ledger balance" => u # Head(todo))
Settled(u) ==
  \/ complete \/ step \in {"notifications", "reports", "auditLogs", "applicants"}
  \/ step \in {"ledger rows", "ledger balance"} /\ ~Waiting(u)
LedgersDone ==
  /\ \A u \in DOMAIN Ledgers : /\ Emptied(u) => ledger[u] = <<>>
                               /\ Settled(u) => balance[u] = Sum(ledger[u])
  /\ step = "ledger balance" => ledger[Head(todo)] = Ledgers[Head(todo)]

Written(t) ==
  \/ complete
  \/ t = "availability"  /\ step \in Late \ {"availability"}
  \/ t = "notifications" /\ step \in {"reports", "auditLogs", "applicants"}
  \/ t = "reports"       /\ step \in {"auditLogs", "applicants"}
  \/ t = "auditLogs"     /\ step = "applicants"
DemoOnce ==
  \A t \in Demo : /\ Written(t) => copies[t] = 1
                  /\ ~Written(t) /\ step \in Late => copies[t] = 0


Rest    == SessionsKept /\ StatsDone /\ LedgersDone /\ DemoOnce
SeedInv == SeedFlow /\ Rest

LEMMA StatsType ==
  ASSUME NEW m
  PROVE  StatsOf(m) \in SeedCounts
<1>1. TaughtBy(m) \in SUBSET Ids
  BY DEF TaughtBy
<1>2. IsFiniteSet(TaughtBy(m)) /\ IsFiniteSet(TaughtBy(m) \cap reviewed)
  BY <1>1, SessionFacts, FS_Subset
<1> QED
  BY <1>2, FS_CardinalityType DEF StatsOf, SeedCounts

LEMMA FlowInit == SeedInit => SeedFlow
<1> SUFFICES ASSUME SeedInit PROVE SeedFlow
  OBVIOUS
<1>1. SeedTypeOK
  BY SeedConstants DEF SeedInit, SeedTypeOK, SIGNUP
<1>2. stats \in [SeedMentors -> SeedCounts]
  BY DEF SeedInit, SeedCounts
<1>3. step = "off" /\ complete = FALSE /\ run = 0
  BY DEF SeedInit
<1>4. run \in Nat /\ run <= MaxRuns
  BY <1>3, SeedConstants
<1> QED
  BY <1>1, <1>2, <1>3, <1>4 DEF SeedFlow, Steps

\* Statements that leave the tables of the application alone.
LEMMA FlowGoto ==
  ASSUME SeedFlow, UNCHANGED <<balance, ledger, session, reviewed, stats, applied, run, complete, requests>>,
         seeded' \subseteq SeedUsers, copies' \in [Demo -> 0 .. 1],
         step # "off", step' \in Steps,
         step' = "users" => Visits(SeedUsers)',
         step' = "stats" => Visits(SeedMentors)',
         step' \in {"ledger rows", "ledger balance"} => Visits(DOMAIN Ledgers)'
  PROVE  SeedFlow'
BY DEF SeedFlow, SeedTypeOK

LEMMA FlowSeed ==
  ASSUME SeedFlow, DemoOnce, SessionsKept,
         \/ Start \/ CreateSkills \/ CreateSessions \/ UpsertFeedback \/ Wipe \/ CreateRequests
         \/ UpsertUser \/ BackfillStats \/ CreateDemo \/ InsertLedger \/ OverwriteBalance
         \/ UpdateApplicants \/ Killed
  PROVE  SeedFlow'
<1>1. CASE Start
  <2>1. /\ step' = "users" /\ todo' = UserData /\ complete' = FALSE
        /\ run' = run + 1 /\ run < MaxRuns
        /\ UNCHANGED <<seeded, balance, ledger, session, reviewed, stats, applied, requests, copies>>
    BY <1>1 DEF Start, appVars, tableVars
  <2>2. Visits(SeedUsers)'
    BY <2>1, VisitAll
  <2>3. run' \in Nat /\ run' <= MaxRuns /\ run' \in 1 .. MaxRuns
    <3>1. run \in Nat /\ MaxRuns \in Nat
      BY SeedConstants DEF SeedFlow
    <3> QED
      BY <2>1, <3>1
  <2>4. SeedTypeOK'
    BY <2>1 DEF SeedFlow, SeedTypeOK
  <2> QED
    BY <2>1, <2>2, <2>3, <2>4 DEF SeedFlow, Steps, Early
<1>2. CASE CreateSkills
  <2>1. step' = "sessions" /\ step = "skills"
    BY <1>2 DEF CreateSkills, Goto, Loop
  <2> QED
    BY <1>2, <2>1, FlowGoto DEF CreateSkills, Goto, Loop, Stay, SeedFlow, SeedTypeOK, Steps, Early
<1>3. CASE CreateSessions
  <2>1. /\ step = "sessions" /\ step' = "feedback"
        /\ session' = [session EXCEPT ![run] = [k \in Kinds |-> SessionData[k].status]]
        /\ UNCHANGED <<seeded, balance, ledger, reviewed, stats, applied, requests, copies, run, complete>>
    BY <1>3 DEF CreateSessions, Goto, Loop, Stay
  <2>2. [k \in Kinds |-> SessionData[k].status] \in [Kinds -> {"absent", "SCHEDULED", "COMPLETED"}]
    BY SessionFacts
  <2>3. session' \in [1 .. MaxRuns -> [Kinds -> {"absent", "SCHEDULED", "COMPLETED"}]]
    <3> HIDE DEF Kinds
    <3> QED
      BY <2>1, <2>2 DEF SeedFlow, SeedTypeOK
  <2> QED
    BY <2>1, <2>3 DEF SeedFlow, SeedTypeOK, Steps
<1>4. CASE UpsertFeedback
  <2>1. /\ step = "feedback"
        /\ \/ step' = "feedback" /\ \E i \in With("COMPLETED") \ reviewed : reviewed' = reviewed \cup {i}
           \/ step' = "stats" /\ todo' = MentorData /\ reviewed' = reviewed
        /\ UNCHANGED <<seeded, balance, ledger, session, stats, applied, requests, copies, run, complete>>
    BY <1>4 DEF UpsertFeedback, Goto, Loop, Stay
  <2>2. reviewed' \subseteq Ids
    BY <2>1 DEF With, SeedFlow, SeedTypeOK
  <2> QED
    BY <2>1, <2>2, VisitAll DEF SeedFlow, SeedTypeOK, Steps
<1>5. CASE Wipe
  <2>1. /\ step = "wipe" /\ step' = "availability"
        /\ ledger' = [u \in SeedUsers |-> <<>>] /\ copies' = [t \in Demo |-> 0] /\ requests' = {}
        /\ UNCHANGED <<seeded, balance, session, reviewed, stats, applied, run, complete>>
    BY <1>5 DEF Wipe, WipeLedgers, WipeDemo, Goto, Loop, Stay
  <2> QED
    BY <2>1 DEF SeedFlow, SeedTypeOK, Steps, Late
<1>6. CASE CreateRequests
  <2>1. /\ step = "requests" /\ step' = "ledger rows" /\ todo' = LedgerUsers
        /\ requests' = With("SCHEDULED")
        /\ UNCHANGED <<seeded, balance, ledger, session, reviewed, stats, applied, copies, run, complete>>
    BY <1>6 DEF CreateRequests, Loop, Stay
  <2>2. requests' \subseteq Ids
    BY <2>1 DEF With
  <2> QED
    BY <2>1, <2>2, VisitAll DEF SeedFlow, SeedTypeOK, Steps, Late
<1>7. CASE UpsertUser
  <2>1. /\ step = "users" /\ seeded' = seeded \cup {Head(todo)} /\ todo' = Tail(todo)
        /\ step' = IF Len(todo) = 1 THEN "skills" ELSE step
        /\ UNCHANGED <<balance, ledger, session, reviewed, stats, applied, requests, copies, run, complete>>
    BY <1>7 DEF UpsertUser, Each, Loop, Stay
  <2>2. Visits(SeedUsers)
    BY <2>1 DEF SeedFlow
  <2>3. Head(todo) \in SeedUsers /\ (Len(todo) # 1 => Visits(SeedUsers)')
    BY <2>1, <2>2, VisitNext
  <2>4. seeded' \subseteq SeedUsers /\ copies' \in [Demo -> 0 .. 1]
    BY <2>1, <2>3 DEF SeedFlow, SeedTypeOK
  <2> QED
    BY <2>1, <2>3, <2>4, FlowGoto DEF Steps, Early
<1>8. CASE BackfillStats
  <2>1. /\ step = "stats" /\ todo' = Tail(todo)
        /\ stats' = [stats EXCEPT ![Head(todo)] = StatsOf(Head(todo))]
        /\ step' = IF Len(todo) = 1 THEN "wipe" ELSE step
        /\ UNCHANGED <<seeded, balance, ledger, session, reviewed, applied, requests, copies, run, complete>>
    BY <1>8 DEF BackfillStats, Each, Loop, Stay
  <2>2. Visits(SeedMentors)
    BY <2>1 DEF SeedFlow
  <2>3. Len(todo) # 1 => Visits(SeedMentors)'
    BY <2>1, <2>2, VisitNext
  <2>4. stats' \in [SeedMentors -> SeedCounts]
    BY <2>1, StatsType DEF SeedFlow
  <2> QED
    BY <2>1, <2>3, <2>4 DEF SeedFlow, SeedTypeOK, Steps
<1>9. CASE CreateDemo
  <2>1. /\ step \in Demo /\ step' = After[step]
        /\ copies' = [copies EXCEPT ![step] = @ + 1]
        /\ UNCHANGED <<seeded, balance, ledger, session, reviewed, stats, applied, requests, run, complete>>
    BY <1>9 DEF CreateDemo, Goto, Loop, Stay
  <2>2. copies[step] = 0
    BY <2>1 DEF DemoOnce, Written, Demo, Late, SeedFlow
  <2>3. copies' \in [Demo -> 0 .. 1]
    <3>1. copies \in [Demo -> 0 .. 1]
      BY DEF SeedFlow, SeedTypeOK
    <3>2. copies[step] + 1 \in 0 .. 1
      BY <2>2
    <3> QED
      BY <2>1, <3>1, <3>2
  <2>4. step' \in {"requests", "reports", "auditLogs", "applicants"}
    BY <2>1 DEF Demo, After
  <2>5. step # "off" /\ seeded' \subseteq SeedUsers
    BY <2>1 DEF Demo, SeedFlow, SeedTypeOK
  <2> QED
    BY <2>1, <2>3, <2>4, <2>5, FlowGoto DEF Steps, Late
<1>10. CASE InsertLedger
  <2> DEFINE u == Head(todo)
  <2>1. /\ step = "ledger rows" /\ step' = "ledger balance" /\ todo' = todo
        /\ ledger' = [ledger EXCEPT ![u] = @ \o Ledgers[u]]
        /\ UNCHANGED <<seeded, balance, session, reviewed, stats, applied, requests, copies, run, complete>>
    BY <1>10 DEF InsertLedger, Loop, Stay
  <2>2. Visits(DOMAIN Ledgers)
    BY <2>1 DEF SeedFlow
  <2>3. u \in DOMAIN Ledgers
    BY <2>2 DEF Visits
  <2>4. Ledgers[u] \in Seq(Int) /\ u \in SeedUsers
    BY <2>3, LedgerData
  <2>5. ledger' \in [SeedUsers -> Seq(Int)]
    <3> HIDE DEF u
    <3>0. ledger[u] \in Seq(Int)
      BY <2>4 DEF SeedFlow, SeedTypeOK
    <3>1. ledger[u] \o Ledgers[u] \in Seq(Int)
      BY <2>4, <3>0
    <3> QED
      BY <2>1, <3>1 DEF SeedFlow, SeedTypeOK
  <2>6. Visits(DOMAIN Ledgers)'
    BY <2>1, <2>2 DEF Visits
  <2> QED
    BY <2>1, <2>5, <2>6 DEF SeedFlow, SeedTypeOK, Steps, Late
<1>11. CASE OverwriteBalance
  <2> DEFINE u == Head(todo)
  <2>1. /\ step = "ledger balance" /\ todo' = Tail(todo)
        /\ step' = IF Len(todo) = 1 THEN "notifications" ELSE "ledger rows"
        /\ balance' = [balance EXCEPT ![u] = Sum(Ledgers[u])]
        /\ UNCHANGED <<seeded, ledger, session, reviewed, stats, applied, requests, copies, run, complete>>
    BY <1>11 DEF OverwriteBalance, Loop, Stay
  <2>2. Visits(DOMAIN Ledgers)
    BY <2>1 DEF SeedFlow
  <2>3. u \in DOMAIN Ledgers /\ (Len(todo) # 1 => Visits(DOMAIN Ledgers)')
    BY <2>1, <2>2, VisitNext
  <2>4. Ledgers[u] \in Seq(Int) /\ u \in SeedUsers
    BY <2>3, LedgerData
  <2>5. Sum(Ledgers[u]) \in Int
    BY <2>4, SumFunctionInt DEF Sum
  <2>6. balance' \in [SeedUsers -> Int]
    <3> HIDE DEF u
    <3> QED
      BY <2>1, <2>5 DEF SeedFlow, SeedTypeOK
  <2> QED
    BY <2>1, <2>3, <2>6 DEF SeedFlow, SeedTypeOK, Steps, Late
<1>12. CASE UpdateApplicants
  BY <1>12 DEF UpdateApplicants, Goto, Loop, SeedFlow, SeedTypeOK, Steps
<1>13. CASE Killed
  BY <1>13 DEF Killed, Goto, Loop, Stay, SeedFlow, SeedTypeOK, Steps, tableVars
<1> QED
  BY <1>1, <1>2, <1>3, <1>4, <1>5, <1>6, <1>7, <1>8, <1>9, <1>10, <1>11, <1>12, <1>13

\* What a credit does to a user's rows and balance.
LEMMA Credited ==
  ASSUME SeedFlow, NEW u \in SeedUsers, NEW amount \in Int, Credit(u, amount)
  PROVE  /\ balance' \in [SeedUsers -> Int] /\ ledger' \in [SeedUsers -> Seq(Int)]
         /\ \A v \in SeedUsers : balance[v] = Sum(ledger[v]) => balance'[v] = Sum(ledger'[v])
<1>1. balance \in [SeedUsers -> Int] /\ ledger \in [SeedUsers -> Seq(Int)]
  BY DEF SeedFlow, SeedTypeOK
<1>2. /\ balance' = [balance EXCEPT ![u] = @ + amount]
      /\ ledger' = [ledger EXCEPT ![u] = Append(@, amount)]
  BY DEF Credit
<1>3. balance' \in [SeedUsers -> Int] /\ ledger' \in [SeedUsers -> Seq(Int)]
  BY <1>1, <1>2
<1>4. Sum(Append(ledger[u], amount)) = Sum(ledger[u]) + amount
  BY <1>1, SumAppend DEF Sum
<1>5. ASSUME NEW v \in SeedUsers, balance[v] = Sum(ledger[v]) PROVE balance'[v] = Sum(ledger'[v])
  <2>1. CASE v = u
    <3>1. balance'[v] = balance[u] + amount /\ ledger'[v] = Append(ledger[u], amount)
      BY <1>1, <1>2, <2>1
    <3> QED
      BY <1>4, <1>5, <2>1, <3>1
  <2>2. CASE v # u
    BY <1>1, <1>2, <1>5, <2>2
  <2> QED
    BY <2>1, <2>2
<1> QED
  BY <1>3, <1>5

LEMMA FlowUse ==
  ASSUME SeedFlow,
         \/ \E u \in SeedUsers : DecideApplicant(u) \/ \E n \in {-1, 1} : MoveCredit(u, n)
         \/ \E i \in Ids : CompleteSession(i) \/ ReviewSession(i)
  PROVE  SeedFlow'
<1>1. ASSUME NEW u \in SeedUsers, NEW n \in {-1, 1}, MoveCredit(u, n) PROVE SeedFlow'
  <2>1. /\ n \in Int /\ Credit(u, n) /\ step = "off" /\ step' = step /\ todo' = todo
        /\ UNCHANGED <<seeded, session, reviewed, stats, applied, requests, copies, run, complete>>
    BY <1>1 DEF MoveCredit, Use, tableVars
  <2>2. balance' \in [SeedUsers -> Int] /\ ledger' \in [SeedUsers -> Seq(Int)]
    BY <2>1, Credited
  <2> QED
    BY <2>1, <2>2 DEF SeedFlow, SeedTypeOK
<1>2. ASSUME NEW u \in SeedUsers, DecideApplicant(u) PROVE SeedFlow'
  BY <1>2 DEF DecideApplicant, Use, tableVars, SeedFlow, SeedTypeOK
<1>3. ASSUME NEW i \in Ids, CompleteSession(i) PROVE SeedFlow'
  <2> DEFINE m == SessionData[i[2]].mentor
  <2>1. /\ step = "off" /\ step' = step /\ todo' = todo
        /\ session' = [session EXCEPT ![i[1]][i[2]] = "COMPLETED"]
        /\ stats' = [stats EXCEPT ![m].taught = @ + 1]
        /\ UNCHANGED <<seeded, balance, ledger, reviewed, applied, requests, copies, run, complete>>
    BY <1>3 DEF CompleteSession, Use, tableVars
  <2>2. i[1] \in 1 .. MaxRuns /\ i[2] \in Kinds
    BY DEF Ids
  <2>3. m \in SeedMentors
    BY <2>2, SessionFacts
  <2> HIDE DEF m
  <2>4. session' \in [1 .. MaxRuns -> [Kinds -> {"absent", "SCHEDULED", "COMPLETED"}]]
    BY <2>1, <2>2 DEF SeedFlow, SeedTypeOK
  <2>5. stats' \in [SeedMentors -> SeedCounts]
    BY <2>1, <2>3 DEF SeedFlow, SeedCounts
  <2> QED
    BY <2>1, <2>4, <2>5 DEF SeedFlow, SeedTypeOK
<1>4. ASSUME NEW i \in Ids, ReviewSession(i) PROVE SeedFlow'
  <2> DEFINE m == SessionData[i[2]].mentor
             n == Cardinality(TaughtBy(m) \cap reviewed')
  <2>1. /\ step = "off" /\ step' = step /\ todo' = todo
        /\ reviewed' = reviewed \cup {i}
        /\ stats' = [stats EXCEPT ![m].ratings = n]
        /\ UNCHANGED <<seeded, balance, ledger, session, applied, requests, copies, run, complete>>
    BY <1>4 DEF ReviewSession, Use, tableVars
  <2>2. m \in SeedMentors
    BY SessionFacts DEF Ids
  <2>3. n \in Nat
    <3>1. TaughtBy(m) \cap reviewed' \in SUBSET Ids
      BY DEF TaughtBy
    <3> QED
      BY <3>1, SessionFacts, FS_Subset, FS_CardinalityType
  <2> HIDE DEF m, n
  <2>4. stats' \in [SeedMentors -> SeedCounts]
    BY <2>1, <2>2, <2>3 DEF SeedFlow, SeedCounts
  <2> QED
    BY <2>1, <2>4 DEF SeedFlow, SeedTypeOK
<1> QED
  BY <1>1, <1>2, <1>3, <1>4

LEMMA SessionsStay ==
  ASSUME SessionsKept, UNCHANGED <<session, reviewed>>, \A n \in 1 .. MaxRuns : Unborn(n)' => Unborn(n)
  PROVE  SessionsKept'
BY DEF SessionsKept, StatusOf

LEMMA SameStats ==
  ASSUME UNCHANGED <<session, reviewed>>, NEW m
  PROVE  StatsOf(m)' = StatsOf(m)
BY DEF StatsOf, TaughtBy, StatusOf

LEMMA StatsStay ==
  ASSUME StatsDone, UNCHANGED <<session, reviewed, stats>>, \A m \in SeedMentors : Backfilled(m)' => Backfilled(m)
  PROVE  StatsDone'
BY SameStats DEF StatsDone

LEMMA LedgersStay ==
  ASSUME LedgersDone, UNCHANGED <<balance, ledger>>, step' # "ledger balance",
         \A u \in DOMAIN Ledgers : (Emptied(u)' => Emptied(u)) /\ (Settled(u)' => Settled(u))
  PROVE  LedgersDone'
BY DEF LedgersDone

LEMMA DemoStays ==
  ASSUME DemoOnce, UNCHANGED copies, step' \in Late => step \in Late,
         step' \in Late \/ complete' => \A t \in Demo : Written(t)' <=> Written(t)
  PROVE  DemoOnce'
BY DEF DemoOnce, Written, Late

LEMMA RestStart == ASSUME SeedFlow, Rest, Start PROVE Rest'
<1>1. /\ step = "off" /\ step' = "users" /\ run' = run + 1 /\ complete' = FALSE
      /\ UNCHANGED <<balance, ledger, session, reviewed, stats, copies>>
  BY DEF Start, appVars, tableVars
<1>2. SessionsKept'
  <2>1. run \in Nat
    BY DEF SeedFlow
  <2>2. \A n \in 1 .. MaxRuns : Unborn(n)' => Unborn(n)
    BY <1>1, <2>1 DEF Unborn
  <2> QED
    BY <1>1, <2>2, SessionsStay DEF Rest
<1>3. StatsDone' /\ LedgersDone' /\ DemoOnce'
  BY <1>1 DEF StatsDone, Backfilled, Late, LedgersDone, Emptied, Settled, DemoOnce, Written
<1> QED
  BY <1>2, <1>3 DEF Rest

LEMMA RestEarly == ASSUME SeedFlow, Rest, UpsertUser \/ CreateSkills PROVE Rest'
<1>1. /\ step \in Early /\ step' \in Early /\ run' = run /\ ~complete' /\ ~complete
      /\ UNCHANGED <<balance, ledger, session, reviewed, stats, copies>>
  <2>1. CASE UpsertUser
    BY <2>1 DEF UpsertUser, Each, Loop, Stay, Early, SeedFlow
  <2>2. CASE CreateSkills
    BY <2>2 DEF CreateSkills, Goto, Loop, Stay, Early, SeedFlow
  <2> QED
    BY <2>1, <2>2
<1>2. SessionsKept'
  BY <1>1, SessionsStay DEF Rest, Unborn
<1>3. StatsDone' /\ LedgersDone' /\ DemoOnce'
  BY <1>1 DEF StatsDone, Backfilled, Late, Early, LedgersDone, Emptied, Settled, DemoOnce, Written
<1> QED
  BY <1>2, <1>3 DEF Rest

LEMMA RestCreateSessions == ASSUME SeedFlow, Rest, CreateSessions PROVE Rest'
<1>1. /\ step = "sessions" /\ step' = "feedback" /\ run' = run /\ ~complete'
      /\ session' = [session EXCEPT ![run] = [k \in Kinds |-> SessionData[k].status]]
      /\ UNCHANGED <<balance, ledger, reviewed, stats, copies>>
  BY DEF CreateSessions, Goto, Loop, Stay, SeedFlow
<1>2. /\ run \in 1 .. MaxRuns /\ reviewed \subseteq Ids
      /\ session \in [1 .. MaxRuns -> [Kinds -> {"absent", "SCHEDULED", "COMPLETED"}]]
  BY <1>1 DEF SeedFlow, SeedTypeOK
<1>3. SessionsKept'
  <2>1. \A n \in 1 .. MaxRuns : n # run => session'[n] = session[n]
    BY <1>1, <1>2
  <2>2. \A n \in 1 .. MaxRuns : Unborn(n)' => Unborn(n) /\ n # run
    BY <1>1, <1>2 DEF Unborn, Early
  <2>3. ASSUME NEW i \in reviewed PROVE StatusOf(i)' = "COMPLETED"
    <3>1. i \in Ids /\ StatusOf(i) = "COMPLETED"
      BY <1>2, <2>3 DEF Rest, SessionsKept
    <3>2. i[1] \in 1 .. MaxRuns /\ i[2] \in Kinds
      BY <3>1 DEF Ids
    <3>3. i[1] # run
      BY <1>1, <1>2, <3>1, <3>2 DEF Rest, SessionsKept, Unborn, Early, StatusOf
    <3> QED
      BY <2>1, <3>1, <3>2, <3>3 DEF StatusOf
  <2> QED
    BY <1>1, <2>1, <2>2, <2>3 DEF Rest, SessionsKept
<1>4. StatsDone' /\ LedgersDone' /\ DemoOnce'
  BY <1>1 DEF StatsDone, Backfilled, Late, LedgersDone, Emptied, Settled, DemoOnce, Written
<1> QED
  BY <1>3, <1>4 DEF Rest

LEMMA RestUpsertFeedback == ASSUME SeedFlow, Rest, UpsertFeedback PROVE Rest'
<1>1. /\ step = "feedback" /\ run' = run /\ ~complete' /\ ~complete
      /\ \/ step' = "feedback" /\ \E i \in With("COMPLETED") \ reviewed : reviewed' = reviewed \cup {i}
         \/ step' = "stats" /\ todo' = MentorData /\ reviewed' = reviewed
      /\ UNCHANGED <<balance, ledger, session, stats, copies>>
  BY DEF UpsertFeedback, Goto, Loop, Stay, SeedFlow
<1>2. SessionsKept'
  <2>1. \A i : StatusOf(i)' = StatusOf(i)
    BY <1>1 DEF StatusOf
  <2>2. \A i \in reviewed' : StatusOf(i) = "COMPLETED"
    BY <1>1 DEF Rest, SessionsKept, With
  <2>3. \A n \in 1 .. MaxRuns : Unborn(n)' => Unborn(n)
    BY <1>1 DEF Unborn, Early
  <2> QED
    BY <1>1, <2>1, <2>2, <2>3 DEF Rest, SessionsKept
<1>3. StatsDone'
  <2>1. \A m \in SeedMentors : ~Backfilled(m)'
    BY <1>1, VisitAll DEF Backfilled, Late
  <2> QED
    BY <2>1 DEF StatsDone
<1>4. LedgersDone' /\ DemoOnce'
  BY <1>1 DEF Late, LedgersDone, Emptied, Settled, DemoOnce, Written
<1> QED
  BY <1>2, <1>3, <1>4 DEF Rest

LEMMA RestBackfillStats == ASSUME SeedFlow, Rest, BackfillStats PROVE Rest'
<1> DEFINE h == Head(todo)
<1>1. /\ step = "stats" /\ todo' = Tail(todo) /\ run' = run /\ ~complete' /\ ~complete
      /\ stats' = [stats EXCEPT ![h] = StatsOf(h)]
      /\ step' = IF Len(todo) = 1 THEN "wipe" ELSE step
      /\ UNCHANGED <<balance, ledger, session, reviewed, copies>>
  BY DEF BackfillStats, Each, Loop, Stay, SeedFlow
<1>2. SessionsKept'
  BY <1>1, SessionsStay DEF Rest, Unborn, Early
<1>3. StatsDone'
  <2>1. Visits(SeedMentors)
    BY <1>1 DEF SeedFlow
  <2>2. /\ h \in SeedMentors
        /\ Len(todo) = 1 => todo' = <<>>
        /\ \A m \in SeedMentors : Waiting(m)' <=> Waiting(m) /\ m # h
    BY <1>1, <2>1, VisitNext
  <2>3. ASSUME NEW m \in SeedMentors, Backfilled(m)' PROVE stats'[m] = StatsOf(m)'
    <3>1. ~Waiting(m)'
      <4>1. CASE Len(todo) = 1
        BY <2>2, <4>1 DEF Waiting
      <4>2. CASE Len(todo) # 1
        BY <1>1, <2>3, <4>2 DEF Backfilled, Late
      <4> QED
        BY <4>1, <4>2
    <3>2. StatsOf(m)' = StatsOf(m) /\ stats \in [SeedMentors -> SeedCounts]
      BY <1>1, SameStats DEF SeedFlow
    <3>3. CASE m = h
      BY <1>1, <3>2, <3>3
    <3>4. CASE m # h
      BY <1>1, <2>2, <3>1, <3>2, <3>4 DEF Rest, StatsDone, Backfilled
    <3> QED
      BY <3>3, <3>4
  <2> QED
    BY <2>3 DEF StatsDone
<1>4. LedgersDone' /\ DemoOnce'
  BY <1>1 DEF Late, LedgersDone, Emptied, Settled, DemoOnce, Written
<1> QED
  BY <1>2, <1>3, <1>4 DEF Rest

LEMMA RestWipe == ASSUME SeedFlow, Rest, Wipe PROVE Rest'
<1>1. /\ step = "wipe" /\ step' = "availability" /\ run' = run /\ ~complete' /\ ~complete
      /\ ledger' = [u \in SeedUsers |-> <<>>] /\ copies' = [t \in Demo |-> 0]
      /\ UNCHANGED <<balance, session, reviewed, stats>>
  BY DEF Wipe, WipeLedgers, WipeDemo, Goto, Loop, Stay, SeedFlow
<1>2. SessionsKept' /\ StatsDone'
  BY <1>1, SessionsStay, StatsStay DEF Rest, Unborn, Early, Backfilled, Late
<1>3. LedgersDone'
  BY <1>1, LedgerData DEF LedgersDone, Settled
<1>4. DemoOnce'
  BY <1>1 DEF DemoOnce, Written, Demo
<1> QED
  BY <1>2, <1>3, <1>4 DEF Rest

LEMMA RestCreateDemo == ASSUME SeedFlow, Rest, CreateDemo PROVE Rest'
<1>1. /\ step \in Demo /\ step' = After[step] /\ run' = run /\ ~complete' /\ ~complete
      /\ copies' = [copies EXCEPT ![step] = @ + 1]
      /\ UNCHANGED <<balance, ledger, session, reviewed, stats>>
  BY DEF CreateDemo, Goto, Loop, Stay, SeedFlow, Demo
<1>2. \/ step = "availability" /\ step' = "requests"
      \/ step = "notifications" /\ step' = "reports"
      \/ step = "reports" /\ step' = "auditLogs"
      \/ step = "auditLogs" /\ step' = "applicants"
  BY <1>1 DEF Demo, After
<1>3. SessionsKept' /\ StatsDone'
  BY <1>1, <1>2, SessionsStay, StatsStay DEF Rest, Unborn, Early, Backfilled, Late
<1>4. LedgersDone'
  BY <1>1, <1>2, LedgersStay DEF Rest, Emptied, Settled
<1>5. DemoOnce'
  <2>1. copies \in [Demo -> 0 .. 1] /\ copies[step] = 0
    BY <1>1, <1>2 DEF Rest, DemoOnce, Written, Late, SeedFlow, SeedTypeOK
  <2>2. copies'[step] = 1 /\ \A t \in Demo \ {step} : copies'[t] = copies[t]
    BY <1>1, <2>1
  <2>3. ASSUME NEW t \in Demo PROVE (Written(t)' <=> Written(t) \/ t = step) /\ ~(Written(t) /\ t = step)
    BY <1>1, <1>2 DEF Written, Late, Demo
  <2>4. step \in Late
    BY <1>2 DEF Late
  <2> QED
    BY <2>2, <2>3, <2>4 DEF Rest, DemoOnce
<1> QED
  BY <1>3, <1>4, <1>5 DEF Rest

LEMMA RestCreateRequests == ASSUME SeedFlow, Rest, CreateRequests PROVE Rest'
<1>1. /\ step = "requests" /\ step' = "ledger rows" /\ todo' = LedgerUsers
      /\ run' = run /\ ~complete' /\ ~complete
      /\ UNCHANGED <<balance, ledger, session, reviewed, stats, copies>>
  BY DEF CreateRequests, Loop, Stay, SeedFlow
<1>2. SessionsKept' /\ StatsDone'
  BY <1>1, SessionsStay, StatsStay DEF Rest, Unborn, Early, Backfilled, Late
<1>3. LedgersDone'
  <2>1. \A u \in DOMAIN Ledgers : Emptied(u) /\ ~Settled(u)'
    BY <1>1, VisitAll DEF Emptied, Settled
  <2> QED
    BY <1>1, <2>1 DEF Rest, LedgersDone
<1>4. DemoOnce'
  BY <1>1, DemoStays DEF Rest, Written, Late, Demo
<1> QED
  BY <1>2, <1>3, <1>4 DEF Rest

LEMMA RestInsertLedger == ASSUME SeedFlow, Rest, InsertLedger PROVE Rest'
<1> DEFINE h == Head(todo)
<1>1. /\ step = "ledger rows" /\ step' = "ledger balance" /\ todo' = todo
      /\ run' = run /\ ~complete' /\ ~complete
      /\ ledger' = [ledger EXCEPT ![h] = @ \o Ledgers[h]]
      /\ UNCHANGED <<balance, session, reviewed, stats, copies>>
  BY DEF InsertLedger, Loop, Stay, SeedFlow
<1>2. SessionsKept' /\ StatsDone'
  BY <1>1, SessionsStay, StatsStay DEF Rest, Unborn, Early, Backfilled, Late
<1>3. LedgersDone'
  <2>1. Visits(DOMAIN Ledgers)
    BY <1>1 DEF SeedFlow
  <2>2. h \in DOMAIN Ledgers /\ Waiting(h)
    <3>1. todo \in Seq(DOMAIN Ledgers) /\ todo # <<>>
      BY <2>1 DEF Visits
    <3> QED
      BY <3>1 DEF Waiting
  <2> HIDE DEF h
  <2>3. /\ ledger \in [SeedUsers -> Seq(Int)] /\ ledger[h] = <<>> /\ h \in SeedUsers
        /\ Ledgers[h] \in Seq(Int)
    BY <1>1, <2>2, LedgerData DEF SeedFlow, SeedTypeOK, Rest, LedgersDone, Emptied
  <2>4. ledger'[h] = Ledgers[h]
    <3>1. <<>> \o Ledgers[h] = Ledgers[h]
      BY <2>3
    <3> QED
      BY <1>1, <2>3, <3>1
  <2>5. \A u \in DOMAIN Ledgers : u # h => ledger'[u] = ledger[u]
    BY <1>1, <2>3, LedgerData
  <2>6. \A u : Waiting(u)' <=> Waiting(u)
    BY <1>1 DEF Waiting
  <2>7. Head(todo') = h
    BY <1>1 DEF h
  <2> QED
    BY <1>1, <2>2, <2>4, <2>5, <2>6, <2>7 DEF Rest, LedgersDone, Emptied, Settled
<1>4. DemoOnce'
  BY <1>1, DemoStays DEF Rest, Written, Late, Demo
<1> QED
  BY <1>2, <1>3, <1>4 DEF Rest

LEMMA RestOverwriteBalance == ASSUME SeedFlow, Rest, OverwriteBalance PROVE Rest'
<1> DEFINE h == Head(todo)
<1>1. /\ step = "ledger balance" /\ todo' = Tail(todo)
      /\ step' = IF Len(todo) = 1 THEN "notifications" ELSE "ledger rows"
      /\ run' = run /\ ~complete' /\ ~complete
      /\ balance' = [balance EXCEPT ![h] = Sum(Ledgers[h])]
      /\ UNCHANGED <<ledger, session, reviewed, stats, copies>>
  BY DEF OverwriteBalance, Loop, Stay, SeedFlow
<1>2. SessionsKept' /\ StatsDone'
  BY <1>1, SessionsStay, StatsStay DEF Rest, Unborn, Early, Backfilled, Late
<1>3. LedgersDone'
  <2>1. Visits(DOMAIN Ledgers)
    BY <1>1 DEF SeedFlow
  <2>2. /\ h \in DOMAIN Ledgers
        /\ Len(todo) = 1 <=> todo' = <<>>
        /\ \A u \in DOMAIN Ledgers : Waiting(u)' <=> Waiting(u) /\ u # h
    BY <1>1, <2>1, VisitNext
  <2>3. balance \in [SeedUsers -> Int] /\ h \in SeedUsers
    BY <2>2, LedgerData DEF SeedFlow, SeedTypeOK
  <2>4. ledger[h] = Ledgers[h]
    BY <1>1 DEF Rest, LedgersDone
  <2>5. ASSUME NEW u \in DOMAIN Ledgers, Settled(u)' PROVE balance'[u] = Sum(ledger'[u])
    <3>1. ~Waiting(u)'
      <4>1. CASE Len(todo) = 1
        BY <2>2, <4>1 DEF Waiting
      <4>2. CASE Len(todo) # 1
        BY <1>1, <2>5, <4>2 DEF Settled
      <4> QED
        BY <4>1, <4>2
    <3>2. CASE u = h
      <4> HIDE DEF h
      <4> QED
        BY <1>1, <2>3, <2>4, <3>2
    <3>3. CASE u # h
      <4>1. Settled(u) /\ u \in SeedUsers
        BY <1>1, <2>2, <3>1, <3>3, LedgerData DEF Settled
      <4>2. balance[u] = Sum(ledger[u])
        BY <4>1 DEF Rest, LedgersDone
      <4> HIDE DEF h
      <4> QED
        BY <1>1, <2>3, <3>3, <4>1, <4>2
    <3> QED
      BY <3>2, <3>3
  <2>6. ASSUME NEW u \in DOMAIN Ledgers, Emptied(u)' PROVE ledger'[u] = <<>>
    <3>1. Emptied(u)
      BY <1>1, <2>2, <2>6 DEF Emptied
    <3> QED
      BY <1>1, <3>1 DEF Rest, LedgersDone
  <2> QED
    BY <1>1, <2>5, <2>6 DEF LedgersDone
<1>4. DemoOnce'
  BY <1>1, DemoStays DEF Rest, Written, Late, Demo
<1> QED
  BY <1>2, <1>3, <1>4 DEF Rest

LEMMA RestEnd == ASSUME SeedFlow, Rest, UpdateApplicants \/ Killed PROVE Rest'
<1>1. /\ step # "off" /\ step' = "off" /\ run' = run /\ ~complete
      /\ complete' => step = "applicants"
      /\ UNCHANGED <<balance, ledger, session, reviewed, stats, copies>>
  <2>1. CASE UpdateApplicants
    BY <2>1 DEF UpdateApplicants, Goto, Loop, SeedFlow
  <2>2. CASE Killed
    BY <2>2 DEF Killed, Goto, Loop, Stay, tableVars, SeedFlow
  <2> QED
    BY <2>1, <2>2
<1>2. SessionsKept' /\ StatsDone'
  BY <1>1, SessionsStay, StatsStay DEF Rest, Unborn, Early, Backfilled, Late
<1>3. LedgersDone'
  BY <1>1, LedgersStay DEF Rest, Emptied, Settled
<1>4. DemoOnce'
  <2>1. CASE complete'
    BY <1>1, <2>1 DEF Rest, DemoOnce, Written, Late, Demo
  <2>2. CASE ~complete'
    BY <1>1, <2>2 DEF DemoOnce, Written, Late
  <2> QED
    BY <2>1, <2>2
<1> QED
  BY <1>2, <1>3, <1>4 DEF Rest

\* Use of the application finds the seed off.
LEMMA RestUse ==
  ASSUME SeedFlow, Rest, step = "off", UNCHANGED <<step, todo, run, complete, copies>>,
         SessionsKept',
         \A m \in SeedMentors : stats[m] = StatsOf(m) => stats'[m] = StatsOf(m)',
         \A u \in SeedUsers : balance[u] = Sum(ledger[u]) => balance'[u] = Sum(ledger'[u])
  PROVE  Rest'
<1>1. StatsDone'
  BY DEF Rest, StatsDone, Backfilled, Late
<1>2. LedgersDone'
  BY LedgerData DEF Rest, LedgersDone, Emptied, Settled
<1>3. DemoOnce'
  BY DEF Rest, DemoOnce, Written, Late
<1> QED
  BY <1>1, <1>2, <1>3 DEF Rest

LEMMA RestMove ==
  ASSUME SeedFlow, Rest, NEW u \in SeedUsers, NEW n \in {-1, 1}, MoveCredit(u, n) \/ DecideApplicant(u)
  PROVE  Rest'
<1>1. CASE MoveCredit(u, n)
  <2>1. /\ n \in Int /\ Credit(u, n) /\ step = "off" /\ step' = step /\ todo' = todo
        /\ UNCHANGED <<session, reviewed, stats, copies, run, complete>>
    BY <1>1 DEF MoveCredit, Use, tableVars
  <2>2. \A v \in SeedUsers : balance[v] = Sum(ledger[v]) => balance'[v] = Sum(ledger'[v])
    BY <2>1, Credited
  <2>3. SessionsKept'
    BY <2>1, SessionsStay DEF Rest, Unborn
  <2> QED
    BY <2>1, <2>2, <2>3, SameStats, RestUse
<1>2. CASE DecideApplicant(u)
  <2>1. /\ step = "off" /\ step' = step /\ todo' = todo
        /\ UNCHANGED <<balance, ledger, session, reviewed, stats, copies, run, complete>>
    BY <1>2 DEF DecideApplicant, Use, tableVars
  <2>2. SessionsKept'
    BY <2>1, SessionsStay DEF Rest, Unborn
  <2> QED
    BY <2>1, <2>2, SameStats, RestUse
<1> QED
  BY <1>1, <1>2

LEMMA RestComplete == ASSUME SeedFlow, Rest, NEW i \in Ids, CompleteSession(i) PROVE Rest'
<1> DEFINE o == SessionData[i[2]].mentor
<1>1. /\ step = "off" /\ step' = step /\ todo' = todo
      /\ i \in With("SCHEDULED")
      /\ session' = [session EXCEPT ![i[1]][i[2]] = "COMPLETED"]
      /\ stats' = [stats EXCEPT ![o].taught = @ + 1]
      /\ UNCHANGED <<balance, ledger, reviewed, copies, run, complete>>
  BY DEF CompleteSession, Use, tableVars
<1>2. i[1] \in 1 .. MaxRuns /\ i[2] \in Kinds /\ StatusOf(i) = "SCHEDULED"
  BY <1>1 DEF Ids, With
<1>3. /\ session \in [1 .. MaxRuns -> [Kinds -> {"absent", "SCHEDULED", "COMPLETED"}]]
      /\ stats \in [SeedMentors -> SeedCounts] /\ reviewed \subseteq Ids
  BY DEF SeedFlow, SeedTypeOK
<1>4. \A j \in Ids : StatusOf(j)' = IF j = i THEN "COMPLETED" ELSE StatusOf(j)
  <2> TAKE j \in Ids
  <2>1. j[1] \in 1 .. MaxRuns /\ j[2] \in Kinds /\ (j = i <=> j[1] = i[1] /\ j[2] = i[2])
    BY DEF Ids
  <2> QED
    BY <1>1, <1>2, <1>3, <2>1 DEF StatusOf
<1>5. \A u \in SeedUsers : balance[u] = Sum(ledger[u]) => balance'[u] = Sum(ledger'[u])
  BY <1>1
<1>6. SessionsKept'
  <2>1. ~Unborn(i[1])
    BY <1>2 DEF Rest, SessionsKept, StatusOf
  <2>2. \A n \in 1 .. MaxRuns : Unborn(n)' => Unborn(n) /\ session'[n] = session[n]
    BY <1>1, <1>2, <1>3, <2>1 DEF Unborn
  <2>3. \A j \in reviewed : StatusOf(j)' = "COMPLETED"
    BY <1>3, <1>4 DEF Rest, SessionsKept
  <2> QED
    BY <1>1, <2>2, <2>3 DEF Rest, SessionsKept
<1>7. ASSUME NEW m \in SeedMentors, stats[m] = StatsOf(m) PROVE stats'[m] = StatsOf(m)'
  <2>1. IsFiniteSet(TaughtBy(m))
    <3>1. TaughtBy(m) \in SUBSET Ids
      BY DEF TaughtBy
    <3> QED
      BY <3>1, SessionFacts, FS_Subset
  <2>2. i \notin TaughtBy(m) /\ i \notin reviewed
    BY <1>2 DEF TaughtBy, Rest, SessionsKept
  <2>3. CASE m = o
    <3>1. TaughtBy(m)' = TaughtBy(m) \cup {i}
      BY <1>4, <2>3 DEF TaughtBy
    <3>2. Cardinality(TaughtBy(m)') = Cardinality(TaughtBy(m)) + 1
      BY <2>1, <2>2, <3>1, FS_AddElement
    <3>3. TaughtBy(m)' \cap reviewed' = TaughtBy(m) \cap reviewed
      BY <1>1, <2>2, <3>1
    <3>4. StatsOf(m)' = [taught |-> Cardinality(TaughtBy(m)) + 1, ratings |-> Cardinality(TaughtBy(m) \cap reviewed)]
      BY <3>2, <3>3 DEF StatsOf
    <3>5. stats'[m] = [stats[m] EXCEPT !.taught = @ + 1]
      BY <1>1, <1>3, <2>3
    <3> QED
      BY <1>7, <3>4, <3>5 DEF StatsOf
  <2>4. CASE m # o
    <3>1. TaughtBy(m)' = TaughtBy(m)
      BY <1>4, <2>4 DEF TaughtBy
    <3>2. StatsOf(m)' = StatsOf(m)
      BY <1>1, <3>1 DEF StatsOf
    <3>3. stats'[m] = stats[m]
      BY <1>1, <1>3, <2>4
    <3> QED
      BY <1>7, <3>2, <3>3
  <2> QED
    BY <2>3, <2>4
<1> QED
  BY <1>1, <1>5, <1>6, <1>7, RestUse

LEMMA RestReview == ASSUME SeedFlow, Rest, NEW i \in Ids, ReviewSession(i) PROVE Rest'
<1> DEFINE o == SessionData[i[2]].mentor
<1>1. /\ step = "off" /\ step' = step /\ todo' = todo
      /\ i \in With("COMPLETED") \ reviewed
      /\ reviewed' = reviewed \cup {i}
      /\ stats' = [stats EXCEPT ![o].ratings = Cardinality(TaughtBy(o) \cap reviewed')]
      /\ UNCHANGED <<balance, ledger, session, copies, run, complete>>
  BY DEF ReviewSession, Use, tableVars
<1>2. stats \in [SeedMentors -> SeedCounts] /\ o \in SeedMentors
  BY SessionFacts DEF SeedFlow, Ids
<1>3. \A j : StatusOf(j)' = StatusOf(j)
  BY <1>1 DEF StatusOf
<1>4. \A m : TaughtBy(m)' = TaughtBy(m)
  BY <1>3 DEF TaughtBy
<1>5. SessionsKept'
  BY <1>1, <1>3 DEF Rest, SessionsKept, Unborn, With
<1>6. ASSUME NEW m \in SeedMentors, stats[m] = StatsOf(m) PROVE stats'[m] = StatsOf(m)'
  <2>1. StatsOf(m)' = [taught |-> Cardinality(TaughtBy(m)), ratings |-> Cardinality(TaughtBy(m) \cap reviewed')]
    BY <1>4 DEF StatsOf
  <2>2. CASE m = o
    <3>1. stats'[m] = [stats[m] EXCEPT !.ratings = Cardinality(TaughtBy(m) \cap reviewed')]
      BY <1>1, <1>2, <2>2
    <3> QED
      BY <1>6, <2>1, <3>1 DEF StatsOf
  <2>3. CASE m # o
    <3>1. i \notin TaughtBy(m)
      BY <2>3 DEF TaughtBy
    <3>2. TaughtBy(m) \cap reviewed' = TaughtBy(m) \cap reviewed
      BY <1>1, <3>1
    <3>3. stats'[m] = stats[m]
      BY <1>1, <1>2, <2>3
    <3> QED
      BY <1>6, <2>1, <3>2, <3>3 DEF StatsOf
  <2> QED
    BY <2>2, <2>3
<1>7. \A u \in SeedUsers : balance[u] = Sum(ledger[u]) => balance'[u] = Sum(ledger'[u])
  BY <1>1
<1> QED
  BY <1>1, <1>5, <1>6, <1>7, RestUse

LEMMA SeedStart == SeedInit => SeedInv
<1> SUFFICES ASSUME SeedInit PROVE SeedInv
  OBVIOUS
<1>1. /\ reviewed = {} /\ session = [n \in 1 .. MaxRuns |-> [k \in Kinds |-> "absent"]]
      /\ step = "off" /\ complete = FALSE
  BY DEF SeedInit
<1>2. SessionsKept
  BY <1>1 DEF SessionsKept
<1>3. StatsDone /\ LedgersDone /\ DemoOnce
  BY <1>1 DEF StatsDone, Backfilled, LedgersDone, Emptied, Settled, DemoOnce, Written, Late
<1> QED
  BY <1>2, <1>3, FlowInit DEF SeedInv, Rest

LEMMA SeedStep == SeedInv /\ [SeedNext]_seedVars => SeedInv'
<1> SUFFICES ASSUME SeedFlow, Rest, [SeedNext]_seedVars PROVE SeedFlow' /\ Rest'
  BY DEF SeedInv
<1>1. CASE \/ Start \/ CreateSkills \/ CreateSessions \/ UpsertFeedback \/ Wipe \/ CreateRequests
           \/ UpsertUser \/ BackfillStats \/ CreateDemo \/ InsertLedger \/ OverwriteBalance
           \/ UpdateApplicants \/ Killed
  <2>1. SeedFlow'
    BY <1>1, FlowSeed DEF Rest
  <2>2. Rest'
    BY <1>1, RestStart, RestEarly, RestCreateSessions, RestUpsertFeedback, RestBackfillStats, RestWipe,
       RestCreateDemo, RestCreateRequests, RestInsertLedger, RestOverwriteBalance, RestEnd
  <2> QED
    BY <2>1, <2>2
<1>2. CASE \/ \E u \in SeedUsers : DecideApplicant(u) \/ \E n \in {-1, 1} : MoveCredit(u, n)
           \/ \E i \in Ids : CompleteSession(i) \/ ReviewSession(i)
  <2>1. SeedFlow'
    BY <1>2, FlowUse
  <2>2. Rest'
    BY <1>2, RestMove, RestComplete, RestReview
  <2> QED
    BY <2>1, <2>2
<1>3. CASE UNCHANGED seedVars
  <2>1. UNCHANGED <<balance, ledger, session, reviewed, stats, applied, used, seeded, skills, requests,
                    copies, step, todo, run, complete>>
    BY <1>3 DEF seedVars, appVars, tableVars
  <2>2. \A U : Visits(U)' <=> Visits(U)
    BY <2>1 DEF Visits
  <2>3. \A u : Waiting(u)' <=> Waiting(u)
    BY <2>1 DEF Waiting
  <2>4. SeedFlow'
    BY <2>1, <2>2 DEF SeedFlow, SeedTypeOK
  <2>5. SessionsKept' /\ StatsDone'
    BY <2>1, <2>3, SessionsStay, StatsStay DEF Rest, Unborn, Backfilled
  <2>6. LedgersDone' /\ DemoOnce'
    BY <2>1, <2>3 DEF Rest, LedgersDone, Emptied, Settled, DemoOnce, Written
  <2> QED
    BY <2>4, <2>5, <2>6 DEF Rest
<1> QED
  BY <1>1, <1>2, <1>3 DEF SeedNext

LEMMA SeedInvariant == SeedInit /\ [][SeedNext]_seedVars => []SeedInv
BY SeedStart, SeedStep, PTL

\* A run of the seed that reaches its end leaves every balance equal to the sum
\* of the ledger the credits page shows, the statistics equal to what they count
\* and each demo table written once, and the use of the application that follows
\* keeps it so, whatever earlier runs were killed where (prisma/seed.ts).
THEOREM SeedRepairs == SeedInit /\ [][SeedNext]_seedVars => []RerunRepairs
<1>1. SeedInv => RerunRepairs
  BY DEF SeedInv, Rest, StatsDone, Backfilled, LedgersDone, Settled, DemoOnce, Written, RerunRepairs
<1> QED
  BY <1>1, SeedInvariant, PTL
=============================================================================

-------------------------------- MODULE Seed --------------------------------
(***************************************************************************)
(* The demo data (prisma/seed.ts): one statement after the other, without  *)
(* a transaction but for the wipe.  It may be killed anywhere and run      *)
(* again, and the application is used between runs.  Users are upserted,   *)
(* skills and sessions are added again, and the tables of section 8 are    *)
(* wiped and written anew.                                                 *)
(***************************************************************************)
EXTENDS Integers, Sequences, SequencesExt

CONSTANTS
  MaxRuns, \* BOUND: runs started
  MaxUses  \* BOUND: uses of the application between runs

ASSUME SeedConstants == MaxRuns \in Nat \ {0} /\ MaxUses \in Nat

VARIABLES
  seeded,   \* users that exist
  balance,  \* User.creditBalance
  ledger,   \* ledger[u]: amounts of the CreditTransactions of u, oldest first
  skills,   \* how often the skills were added
  session,  \* session[n]: the sessions that run n added, by kind, with their status
  reviewed, \* sessions with a Feedback row
  stats,    \* stats[m]: totalSessionsTaught and ratingCount
  applied,  \* applicants whose mentorStatus is PENDING
  requests, \* sessions an ACCEPTED booking request points at
  copies,   \* copies[t]: how often table t holds the seed's rows
  step,     \* the statement the seed is at, "off" when it does not run
  todo,     \* users the loop has still to visit, in order
  used,     \* uses so far
  run,      \* runs started
  complete  \* ghost: the last run reached its end

appVars  == <<balance, ledger, session, reviewed, stats, applied, used>>
tableVars == <<seeded, skills, requests, copies>>
seedVars == <<appVars, tableVars, step, todo, run, complete>>

-----------------------------------------------------------------------------
(* The data: one user, session or row for each kind the seed writes. *)

MentorData  == <<"sarah", "michael", "priya">>
LearnerData == <<"emma", "noah", "olivia", "james">>
UserData    == <<"admin">> \o MentorData \o LearnerData
SeedMentors == ToSet(MentorData)
SeedUsers   == ToSet(UserData)
Applicants  == {"james"}

SIGNUP      == 3
LedgerUsers == <<"emma", "noah", "olivia", "sarah", "michael", "priya">>
Ledgers == [emma    |-> <<SIGNUP, -1, -1>>,
            noah    |-> <<SIGNUP, -1, 1>>,
            olivia  |-> <<SIGNUP, -1, -1, 2>>,
            sarah   |-> <<SIGNUP, 1, 1>>,
            michael |-> <<SIGNUP, 1, 1, -1>>,
            priya   |-> <<SIGNUP, 1, -1, 1>>]

SessionData == [taught |-> [mentor |-> "sarah", learner |-> {"noah"}, status |-> "COMPLETED"],
                booked |-> [mentor |-> "sarah", learner |-> {"emma"}, status |-> "SCHEDULED"],
                office |-> [mentor |-> "priya", learner |-> {},       status |-> "SCHEDULED"]]

Kinds == DOMAIN SessionData
Ids   == (1 .. MaxRuns) \X Kinds
Demo  == {"availability", "notifications", "reports", "auditLogs"}

StatusOf(i) == session[i[1]][i[2]]
With(status) == {i \in Ids : StatusOf(i) = status /\ SessionData[i[2]].learner # {}}
TaughtBy(m)   == {i \in Ids : StatusOf(i) = "COMPLETED" /\ SessionData[i[2]].mentor = m}

\* What the backfill counts.
StatsOf(m) == [taught |-> Cardinality(TaughtBy(m)), ratings |-> Cardinality(TaughtBy(m) \cap reviewed)]
Sum(s)     == SumFunction(s)

SeedInit ==
  /\ seeded = {} /\ applied = {} /\ reviewed = {} /\ requests = {}
  /\ balance = [u \in SeedUsers |-> SIGNUP]       \* the column's default
  /\ ledger = [u \in SeedUsers |-> <<>>]
  /\ skills = 0
  /\ session = [n \in 1 .. MaxRuns |-> [k \in Kinds |-> "absent"]]
  /\ stats = [m \in SeedMentors |-> [taught |-> 0, ratings |-> 0]]
  /\ copies = [t \in Demo |-> 0]
  /\ step = "off" /\ todo = <<>>
  /\ used = 0 /\ run = 0 /\ complete = FALSE

-----------------------------------------------------------------------------
(* The statements, in the order of main. *)

Loop(next, users) == step' = next /\ todo' = users /\ UNCHANGED <<used, run>>
Goto(next)        == Loop(next, <<>>)
Each(next)        == Loop(IF Len(todo) = 1 THEN next ELSE step, Tail(todo))
Stay              == UNCHANGED complete

Start ==
  /\ step = "off" /\ run < MaxRuns
  /\ run' = run + 1 /\ complete' = FALSE
  /\ step' = "users" /\ todo' = UserData
  /\ UNCHANGED <<appVars, tableVars>>

\* An upsert that updates nothing.
UpsertUser ==
  /\ step = "users"
  /\ seeded' = seeded \cup {Head(todo)}
  /\ Each("skills") /\ Stay
  /\ UNCHANGED <<balance, ledger, skills, session, reviewed, stats, applied, requests, copies>>

CreateSkills ==
  /\ step = "skills"
  /\ skills' = skills + 1
  /\ Goto("sessions") /\ Stay
  /\ UNCHANGED <<seeded, balance, ledger, session, reviewed, stats, applied, requests, copies>>

CreateSessions ==
  /\ step = "sessions"
  /\ session' = [session EXCEPT ![run] = [k \in Kinds |-> SessionData[k].status]]
  /\ Goto("feedback") /\ Stay
  /\ UNCHANGED <<seeded, balance, ledger, skills, reviewed, stats, applied, requests, copies>>

\* For all completed sessions with a learner, those of earlier runs included.
UpsertFeedback ==
  /\ step = "feedback"
  /\ \/ \E i \in With("COMPLETED") \ reviewed :
          reviewed' = reviewed \cup {i} /\ Goto(step)
     \/ With("COMPLETED") \subseteq reviewed /\ UNCHANGED reviewed /\ Loop("stats", MentorData)
  /\ Stay
  /\ UNCHANGED <<seeded, balance, ledger, skills, session, stats, applied, requests, copies>>

BackfillStats ==
  /\ step = "stats"
  /\ stats' = [stats EXCEPT ![Head(todo)] = StatsOf(Head(todo))]
  /\ Each("wipe") /\ Stay
  /\ UNCHANGED <<seeded, balance, ledger, skills, session, reviewed, applied, requests, copies>>

\* Slips a change to this code could make; none is part of the specification.
KeepLedgers == UNCHANGED ledger
KeepDemo    == UNCHANGED copies

\* Everybody's rows, the seeded users' or not.
WipeLedgers == ledger' = [u \in SeedUsers |-> <<>>]
WipeDemo    == copies' = [t \in Demo |-> 0]

\* One transaction.
Wipe ==
  /\ step = "wipe"
  /\ WipeLedgers
  /\ WipeDemo
  /\ requests' = {}
  /\ Goto("availability") /\ Stay
  /\ UNCHANGED <<seeded, balance, skills, session, reviewed, stats, applied>>

After == [availability  |-> "requests",
          notifications |-> "reports",
          reports       |-> "auditLogs",
          auditLogs     |-> "applicants"]

CreateDemo ==
  /\ step \in Demo
  /\ copies' = [copies EXCEPT ![step] = @ + 1]
  /\ Goto(After[step]) /\ Stay
  /\ UNCHANGED <<seeded, balance, ledger, skills, session, reviewed, stats, applied, requests>>

\* The accepted requests take scheduled sessions with a learner, wherever from.
CreateRequests ==
  /\ step = "requests"
  /\ requests' = With("SCHEDULED")
  /\ Loop("ledger rows", LedgerUsers) /\ Stay
  /\ UNCHANGED <<seeded, balance, ledger, skills, session, reviewed, stats, applied, copies>>

\* buildLedger inserts the rows of one user ...
InsertLedger ==
  LET u == Head(todo) IN
  /\ step = "ledger rows"
  /\ ledger' = [ledger EXCEPT ![u] = @ \o Ledgers[u]]
  /\ Loop("ledger balance", todo) /\ Stay
  /\ UNCHANGED <<seeded, balance, skills, session, reviewed, stats, applied, requests, copies>>

\* ... and overwrites the balance with their sum.
OverwriteBalance ==
  LET u == Head(todo) IN
  /\ step = "ledger balance"
  /\ balance' = [balance EXCEPT ![u] = Sum(Ledgers[u])]
  /\ Loop(IF Len(todo) = 1 THEN "notifications" ELSE "ledger rows", Tail(todo)) /\ Stay
  /\ UNCHANGED <<seeded, ledger, skills, session, reviewed, stats, applied, requests, copies>>

UpdateApplicants ==
  /\ step = "applicants"
  /\ applied' = Applicants
  /\ complete' = TRUE
  /\ Goto("off")
  /\ UNCHANGED <<seeded, balance, ledger, skills, session, reviewed, stats, requests, copies>>

Killed ==
  /\ step # "off"
  /\ Goto("off") /\ Stay
  /\ UNCHANGED <<balance, ledger, session, reviewed, stats, applied, tableVars>>

-----------------------------------------------------------------------------
(* The application between runs, by what the services do to these tables. *)

Use == step = "off" /\ used < MaxUses /\ used' = used + 1
Credit(u, amount) ==
  /\ balance' = [balance EXCEPT ![u] = @ + amount]
  /\ ledger' = [ledger EXCEPT ![u] = Append(@, amount)]

\* A booking is paid, a session of the application's own earns.
MoveCredit(u, amount) ==
  /\ Use /\ u \in seeded /\ balance[u] + amount >= 0
  /\ Credit(u, amount)
  /\ UNCHANGED <<session, reviewed, stats, applied, tableVars, step, todo, run, complete>>

\* No row of a ledger holds credits for a scheduled session of the seed (the rows
\* name the oldest sessions, which are past), so there is nothing to pay out.
CompleteSession(i) ==
  /\ Use /\ i \in With("SCHEDULED")
  /\ session' = [session EXCEPT ![i[1]][i[2]] = "COMPLETED"]
  /\ stats' = [stats EXCEPT ![SessionData[i[2]].mentor].taught = @ + 1]
  /\ UNCHANGED <<balance, ledger, reviewed, applied, tableVars, step, todo, run, complete>>

ReviewSession(i) ==
  /\ Use /\ i \in With("COMPLETED") \ reviewed
  /\ reviewed' = reviewed \cup {i}
  /\ LET m == SessionData[i[2]].mentor
     IN stats' = [stats EXCEPT ![m].ratings = Cardinality(TaughtBy(m) \cap reviewed')]
  /\ UNCHANGED <<balance, ledger, session, applied, tableVars, step, todo, run, complete>>

DecideApplicant(u) ==
  /\ Use /\ u \in applied
  /\ applied' = applied \ {u}
  /\ UNCHANGED <<balance, ledger, session, reviewed, stats, tableVars, step, todo, run, complete>>

SeedNext ==
  \/ Start \/ CreateSkills \/ CreateSessions \/ UpsertFeedback \/ Wipe \/ CreateRequests
  \/ UpsertUser \/ BackfillStats \/ CreateDemo \/ InsertLedger \/ OverwriteBalance
  \/ UpdateApplicants \/ Killed
  \/ \E u \in SeedUsers : DecideApplicant(u) \/ \E n \in {-1, 1} : MoveCredit(u, n)
  \/ \E i \in Ids : CompleteSession(i) \/ ReviewSession(i)

SeedTypeOK ==
  /\ seeded \subseteq SeedUsers /\ applied \subseteq Applicants
  /\ balance \in [SeedUsers -> Int] /\ ledger \in [SeedUsers -> Seq(Int)]
  /\ session \in [1 .. MaxRuns -> [Kinds -> {"absent", "SCHEDULED", "COMPLETED"}]]
  /\ reviewed \subseteq Ids /\ requests \subseteq Ids
  /\ copies \in [Demo -> 0 .. 1]

\* Whatever runs were killed where, and however the application was used, once a
\* run reaches its end the credits page and the balance agree for every user with
\* a ledger, the mentors' statistics count what is there, and nothing the seed
\* wiped is there twice (seed.ts:258, 404); use does not part them again.
RerunRepairs ==
  complete => /\ \A u \in DOMAIN Ledgers : balance[u] = Sum(ledger[u])
              /\ \A m \in SeedMentors : stats[m] = StatsOf(m)
              /\ \A t \in Demo : copies[t] = 1
=============================================================================

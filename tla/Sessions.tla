------------------------------ MODULE Sessions ------------------------------
(***************************************************************************)
(* The life of mentoring sessions and of the credits booked on them        *)
(* (modules/sessions/session.service.ts).  A request reads the database,   *)
(* awaits, and commits one transaction later; between the two anything may *)
(* happen.  bookSession commits by a guarded write, updateSessionStatus by *)
(* an unguarded one, the auto-complete job by a guarded one per session of *)
(* a list it read before.  A transaction is one step: each first locks the *)
(* session's row, so the transactions of one session do not interleave,    *)
(* and CreditLedger shows that transfer is atomic.                         *)
(***************************************************************************)
EXTENDS Integers, FiniteSets, Functions

CONSTANTS
  Users,       \* people with a balance: learners and mentors
  Admins,      \* administrators, who may teach as well
  SessionIds,  \* sessions that may come to exist
  MentorOf,    \* MentorOf[s]: the mentor who offers s
  Handlers,    \* HTTP requests that may be in flight at once
  Sweepers,    \* runs of the auto-complete job that may overlap
  Prices,      \* values a skill's creditCost may have (1..10 in skill.schema)
  StartCredits,\* balance everybody starts with
  Adjustments, \* movements an administrator may make
  MaxCredits,  \* BOUND: nobody is granted more than this
  MaxDeaths,   \* BOUND: how often a run of the job is cut short or fails
  Nobody

ASSUME SessionConstants ==
  /\ MentorOf \in [SessionIds -> Users]
  /\ Prices \subseteq Nat \ {0}
  /\ Prices # {}
  /\ StartCredits \in Nat
  /\ Adjustments \subseteq Int
  /\ MaxCredits \in Nat
  /\ MaxDeaths \in Nat
  /\ Nobody \notin Users \cup Admins \cup SessionIds

VARIABLES
  status,   \* Session.status, "ABSENT" before the row is created
  learner,  \* Session.learnerId
  phase,    \* where now is: before scheduledAt, after it, 24 h after the end
  price,    \* creditCost of the session's skill
  balance,  \* User.creditBalance
  ledger,   \* ledger[s][u]: sum of the credit_transactions of u for session s
  taught,   \* User.totalSessionsTaught
  inbox,    \* inbox[s]: kinds of notification sent about s
  request,  \* request[h]: what the request in flight at h has read
  due,      \* due[j]: <<session, learner>> pairs job run j has still to close
  deaths    \* mishaps of the job so far

rows    == <<status, learner, taught>>
credits == <<balance, ledger>>
clock   == <<phase, price>>
vars    == <<rows, credits, clock, inbox, request, due, deaths>>

-----------------------------------------------------------------------------
Statuses == {"ABSENT", "PENDING", "SCHEDULED", "COMPLETED", "CANCELLED"}

ValidTransitions ==
  [ABSENT |-> {}, PENDING |-> {"SCHEDULED", "CANCELLED"},
   SCHEDULED |-> {"COMPLETED", "CANCELLED"}, COMPLETED |-> {}, CANCELLED |-> {}]

Kinds == {"booked", "cancelled", "completed", "auto-completed"}

NoRequest == [op |-> "none", session |-> Nobody, actor |-> Nobody, cost |-> 0,
              target |-> "ABSENT", seen |-> "ABSENT"]

Requests == [op : {"none", "book", "update"}, session : SessionIds \cup {Nobody},
             actor : Users \cup Admins \cup {Nobody}, cost : Prices \cup {0},
             target : Statuses, seen : Statuses]

Init ==
  /\ status = [s \in SessionIds |-> "ABSENT"]
  /\ learner = [s \in SessionIds |-> Nobody]
  /\ phase = [s \in SessionIds |-> "future"]
  /\ price \in [SessionIds -> Prices]
  /\ balance = [u \in Users |-> StartCredits]
  /\ ledger = [s \in SessionIds |-> [u \in Users |-> 0]]
  /\ taught = [u \in Users |-> 0]
  /\ inbox = [s \in SessionIds |-> {}]
  /\ request = [h \in Handlers |-> NoRequest]
  /\ due = [j \in Sweepers |-> {}]
  /\ deaths = 0

-----------------------------------------------------------------------------
(* The pieces of the handlers. *)

\* Slips a change to this code could make; none is part of the specification.
HeldAtPrice(s, u)      == IF u = Nobody THEN 0 ELSE price[s]  \* today's price
RefundMentorOnly(s, a) == a = MentorOf[s]
ClaimByStatus(s)       == status[s] \in {"PENDING", "SCHEDULED"}
FlipUncancelled(s)     == status[s] # "CANCELLED"    \* the job's guard weakened
FlipById(s)            == TRUE
CollectStarted(s)      == phase[s] = "started"       \* the wrong time window

\* Net credit impact on the learner, turned into the amount still held.
Held(s, u) == IF u # Nobody /\ ledger[s][u] < 0 THEN -ledger[s][u] ELSE 0

\* creditService.transfer; a movement of 0 stands for no call.
Affords(u, n) == balance[u] + n >= 0

Transfer(s, u, n) ==
  /\ Affords(u, n)
  /\ balance' = [balance EXCEPT ![u] = @ + n]
  /\ ledger' = [ledger EXCEPT ![s][u] = @ + n]

PayMentor(s, l) ==
  /\ Transfer(s, MentorOf[s], Held(s, l))
  /\ taught' = [taught EXCEPT ![MentorOf[s]] = @ + 1]

SetStatus(s, st) == status' = [status EXCEPT ![s] = st]

Tell(s, kinds) == inbox' = [inbox EXCEPT ![s] = @ \cup kinds]

Reply(h) == request' = [request EXCEPT ![h] = NoRequest]

-----------------------------------------------------------------------------
(* Sessions come to exist. *)

CreateSession(s) ==
  /\ status[s] = "ABSENT"
  /\ phase[s] = "future"
  /\ SetStatus(s, "PENDING")
  /\ UNCHANGED <<learner, taught, credits, clock, inbox, request, due, deaths>>

\* acceptRequest inserts a SCHEDULED session and holds the cost it read before;
\* nothing there compares the proposed time with now.
AcceptRequest(s, u, c) ==
  /\ status[s] = "ABSENT"
  /\ u # MentorOf[s]
  /\ SetStatus(s, "SCHEDULED")
  /\ learner' = [learner EXCEPT ![s] = u]
  /\ Transfer(s, u, -c)
  /\ UNCHANGED <<taught, clock, inbox, request, due, deaths>>

-----------------------------------------------------------------------------
(* bookSession. *)

BookLoad(h, s, u) ==
  /\ request[h] = NoRequest
  /\ status[s] # "ABSENT"
  /\ u # MentorOf[s]
  /\ balance[u] >= price[s]
  /\ request' = [request EXCEPT ![h] = [NoRequest EXCEPT
       !.op = "book", !.session = s, !.actor = u, !.cost = price[s]]]
  /\ UNCHANGED <<rows, credits, clock, inbox, due, deaths>>

\* The guarded updateMany: the WHERE clause of the claim.
Available(s) == learner[s] = Nobody /\ status[s] = "PENDING"

BookCommit(h) ==
  LET s == request[h].session
      u == request[h].actor
  IN  /\ request[h].op = "book"
      /\ Available(s)
      /\ SetStatus(s, "SCHEDULED")
      /\ learner' = [learner EXCEPT ![s] = u]
      /\ Transfer(s, u, -request[h].cost)
      /\ Tell(s, {"booked"})
      /\ Reply(h)
      /\ UNCHANGED <<taught, clock, due, deaths>>

-----------------------------------------------------------------------------
(* updateSessionStatus. *)

\* The role in the token decides which party its holder may be; roles change (a
\* learner becomes a mentor) and tokens outlive the change, so any party may act.
MayUpdate(s, a) == a \in ({MentorOf[s], learner[s]} \cup Admins) \ {Nobody}

UpdateLoad(h, s, a, st) ==
  /\ request[h] = NoRequest
  /\ MayUpdate(s, a)
  /\ st \in ValidTransitions[status[s]]
  /\ request' = [request EXCEPT ![h] = [NoRequest EXCEPT
       !.op = "update", !.session = s, !.actor = a, !.target = st, !.seen = status[s]]]
  /\ UNCHANGED <<rows, credits, clock, inbox, due, deaths>>

Updating(h, st) == request[h].op = "update" /\ request[h].target = st

ScheduleCommit(h) ==
  /\ Updating(h, "SCHEDULED")
  /\ SetStatus(request[h].session, "SCHEDULED")
  /\ Reply(h)
  /\ UNCHANGED <<learner, taught, credits, clock, inbox, due, deaths>>

CompleteCommit(h) ==
  LET s == request[h].session
  IN  /\ Updating(h, "COMPLETED")
      /\ SetStatus(s, "COMPLETED")
      /\ PayMentor(s, learner[s])
      /\ Tell(s, IF learner[s] = Nobody THEN {} ELSE {"completed"})
      /\ Reply(h)
      /\ UNCHANGED <<learner, clock, due, deaths>>

\* Full refund when the mentor cancels, or anybody does before the start.
Refunds(s, a) == a = MentorOf[s] \/ phase[s] = "future"

Refundable(s, u) == Held(s, u)

CancelCommit(h) ==
  LET s == request[h].session
      l == learner[s]
  IN  /\ Updating(h, "CANCELLED")
      /\ SetStatus(s, "CANCELLED")
      /\ IF l # Nobody /\ Refunds(s, request[h].actor)
         THEN Transfer(s, l, Refundable(s, l))
         ELSE UNCHANGED credits
      /\ Tell(s, IF {MentorOf[s], l} \ {Nobody, request[h].actor} = {} THEN {} ELSE {"cancelled"})
      /\ Reply(h)
      /\ UNCHANGED <<learner, taught, clock, due, deaths>>

\* A request ends without committing: the claim found the slot taken, transfer
\* found too few credits, the transaction timed out, or the process died.
Abandon(h) ==
  /\ request[h] # NoRequest
  /\ Reply(h)
  /\ UNCHANGED <<rows, credits, clock, inbox, due, deaths>>

-----------------------------------------------------------------------------
(* autoCompleteStaleSessions. *)

PastGrace(s) == phase[s] = "stale"

Collected == {<<s, learner[s]>> : s \in {x \in SessionIds : status[x] = "SCHEDULED" /\ PastGrace(x)}}

SweepStart(j) ==
  /\ due[j] = {}
  /\ Collected # {}
  /\ due' = [due EXCEPT ![j] = Collected]
  /\ UNCHANGED <<rows, credits, clock, inbox, request, deaths>>

StillScheduled(s) == status[s] = "SCHEDULED"

AutoNotice(l) == IF l = Nobody THEN {} ELSE {"auto-completed"}

SweepFlip(j, s, l) ==
  /\ <<s, l>> \in due[j]
  /\ StillScheduled(s)
  /\ SetStatus(s, "COMPLETED")
  /\ PayMentor(s, l)
  /\ Tell(s, AutoNotice(l))
  /\ due' = [due EXCEPT ![j] = @ \ {<<s, l>>}]
  /\ UNCHANGED <<learner, clock, request, deaths>>

\* The return of the transaction's callback skips the flip, not the notice.
SweepSkip(j, s, l) ==
  /\ <<s, l>> \in due[j]
  /\ ~StillScheduled(s)
  /\ Tell(s, AutoNotice(l))
  /\ due' = [due EXCEPT ![j] = @ \ {<<s, l>>}]
  /\ UNCHANGED <<rows, credits, clock, request, deaths>>

\* The serverless function is killed between two sessions.
SweepDie(j) ==
  /\ due[j] # {}
  /\ deaths < MaxDeaths
  /\ due' = [due EXCEPT ![j] = {}]
  /\ deaths' = deaths + 1
  /\ UNCHANGED <<rows, credits, clock, inbox, request>>

\* The transaction of one session fails; the catch of the loop goes on to the next.
SweepFail(j, s, l) ==
  /\ <<s, l>> \in due[j]
  /\ deaths < MaxDeaths
  /\ due' = [due EXCEPT ![j] = @ \ {<<s, l>>}]
  /\ deaths' = deaths + 1
  /\ UNCHANGED <<rows, credits, clock, inbox, request>>

-----------------------------------------------------------------------------
(* What goes on around the sessions. *)

PassTime(s) ==
  /\ phase[s] # "stale"
  /\ phase' = [phase EXCEPT ![s] = IF @ = "future" THEN "started" ELSE "stale"]
  /\ UNCHANGED <<rows, credits, price, inbox, request, due, deaths>>

\* skillService.updateSkill changes creditCost.
Reprice(s, c) ==
  /\ price[s] # c
  /\ price' = [price EXCEPT ![s] = c]
  /\ UNCHANGED <<rows, credits, phase, inbox, request, due, deaths>>

\* creditService.adminAdjust, a movement without a session.
AdminAdjust(u, n) ==
  /\ Affords(u, n)
  /\ n > 0 => balance[u] + n <= MaxCredits
  /\ balance' = [balance EXCEPT ![u] = @ + n]
  /\ UNCHANGED <<rows, ledger, clock, inbox, request, due, deaths>>

\* Nothing is in flight and nothing is due: the server waits.
AtRest ==
  /\ \A h \in Handlers : request[h] = NoRequest
  /\ \A j \in Sweepers : due[j] = {}
  /\ UNCHANGED vars

Sweep(j) ==
  \/ SweepStart(j)
  \/ \E s \in SessionIds, l \in Users \cup {Nobody} : SweepFlip(j, s, l) \/ SweepSkip(j, s, l)

Mishap(j) ==
  \/ SweepDie(j)
  \/ \E s \in SessionIds, l \in Users \cup {Nobody} : SweepFail(j, s, l)

Update(h) == ScheduleCommit(h) \/ CompleteCommit(h) \/ CancelCommit(h)

Handle(h) ==
  \/ \E s \in SessionIds, u \in Users : BookLoad(h, s, u)
  \/ \E s \in SessionIds, a \in Users \cup Admins, st \in Statuses : UpdateLoad(h, s, a, st)
  \/ BookCommit(h)
  \/ Abandon(h)

\* Everything but the unguarded writes of updateSessionStatus.
Around ==
  \/ \E s \in SessionIds : CreateSession(s)
  \/ \E s \in SessionIds, u \in Users, c \in Prices : AcceptRequest(s, u, c)
  \/ \E h \in Handlers : Handle(h)
  \/ \E j \in Sweepers : Sweep(j) \/ Mishap(j)
  \/ \E s \in SessionIds : PassTime(s) \/ \E c \in Prices : Reprice(s, c)
  \/ \E u \in Users, n \in Adjustments : AdminAdjust(u, n)
  \/ AtRest

Next == Around \/ \E h \in Handlers : Update(h)

Spec == Init /\ [][Next]_vars

\* The scheduler starts the job again and again, and a run that is not killed
\* goes on.  Requests and the clock are under no obligation.
FairSpec == Spec /\ \A j \in Sweepers : WF_vars(Sweep(j))

\* The behaviours in which no update commits over a status other than the one it
\* read: those of the code with that status repeated in the WHERE clause of the
\* update, as bookSession and the job have it, and a row count checked.
Unchanged(h) == status[request[h].session] = request[h].seen

GuardedNext == Around \/ \E h \in Handlers : Update(h) /\ Unchanged(h)

GuardedSpec == Init /\ [][GuardedNext]_vars

-----------------------------------------------------------------------------
(* What holds however requests and jobs interleave. *)

\* Every variable has its type; in particular no balance is negative, whatever
\* was checked before the commit (session.service.ts:186-187).
TypeOK ==
  /\ status \in [SessionIds -> Statuses]
  /\ learner \in [SessionIds -> Users \cup {Nobody}]
  /\ phase \in [SessionIds -> {"future", "started", "stale"}]
  /\ price \in [SessionIds -> Prices]
  /\ balance \in [Users -> Nat]
  /\ ledger \in [SessionIds -> [Users -> Int]]
  /\ taught \in [Users -> Nat]
  /\ inbox \in [SessionIds -> SUBSET Kinds]
  /\ request \in [Handlers -> Requests]
  /\ due \in [Sweepers -> SUBSET (SessionIds \X (Users \cup {Nobody}))]
  /\ deaths \in 0..MaxDeaths

\* Two bookings that share one balance cannot both spend it
\* (session.service.ts:186-187), although each passed its own pre-check.
NeverOverdrawn == \A u \in Users : balance[u] >= 0

\* Of the requests that compete for a slot one wins, for good: a claimed session
\* never passes to another learner (session.service.ts:176-184).
SlotClaimedOnce ==
  [][\A s \in SessionIds : learner[s] # Nobody => learner'[s] = learner[s]]_vars

\* Only the learner who holds the slot was ever charged for a session and only
\* its mentor ever earned on it; the losers of the race for it paid nothing.
OnlyPartiesMove ==
  \A s \in SessionIds, u \in Users :
    ledger[s][u] # 0 => u \in {learner[s], MentorOf[s]}

\* Nobody gets back more than the session cost them: the refund is taken from
\* the ledger, whatever the skill costs by now and however often it is cancelled.
RefundWithinHold ==
  \A s \in SessionIds, u \in Users : u # MentorOf[s] => ledger[s][u] <= 0

\* A payout is what this session's learner was charged, at whatever price was
\* valid then, and is made in the step that completes the session.
PayoutIsTheHold ==
  [][\A s \in SessionIds :
       ledger'[s][MentorOf[s]] # ledger[s][MentorOf[s]] =>
         /\ status'[s] = "COMPLETED"
         /\ ledger'[s][MentorOf[s]] - ledger[s][MentorOf[s]] = -ledger[s][learner[s]]]_vars

\* A cancellation before the start leaves the learner with nothing to pay,
\* whoever cancels (session.service.ts:302-306).
CancelBeforeStartIsFree ==
  [][\A s \in SessionIds :
       /\ status[s] # "CANCELLED" /\ status'[s] = "CANCELLED"
       /\ phase[s] = "future" /\ learner[s] # Nobody
       => ledger'[s][learner[s]] = 0]_vars

\* A session nobody closes is closed by the job (session.service.ts:447-453),
\* although runs of it overlap, are killed, and compete with requests.
StaleSessionsClose ==
  \A s \in SessionIds :
    status[s] = "SCHEDULED" /\ phase[s] = "stale" ~> status[s] # "SCHEDULED"

-----------------------------------------------------------------------------
(* What holds when no update commits over a status that has changed. *)

\* The books of every session balance: while it is scheduled the learner's credits
\* are held, completion gives exactly them to the mentor, cancellation gives the
\* mentor nothing.
SettlementExact ==
  \A s \in SessionIds :
    LET l == learner[s]
        earned == ledger[s][MentorOf[s]]
    IN  IF l = Nobody THEN earned = 0
        ELSE /\ status[s] \in {"SCHEDULED", "COMPLETED", "CANCELLED"}
             /\ status[s] = "SCHEDULED" => earned = 0 /\ ledger[s][l] < 0
             /\ status[s] = "COMPLETED" => earned = -ledger[s][l] /\ earned > 0
             /\ status[s] = "CANCELLED" => earned = 0

\* totalSessionsTaught counts the completed sessions of the mentor, each once.
TaughtCountsCompleted ==
  \A u \in Users :
    taught[u] = Cardinality({s \in SessionIds : MentorOf[s] = u /\ status[s] = "COMPLETED"})

\* What the parties were told by a request stays true.
NoticesStayTrue ==
  \A s \in SessionIds :
    /\ "cancelled" \in inbox[s] => status[s] = "CANCELLED"
    /\ "completed" \in inbox[s] => status[s] = "COMPLETED"

\* The credits of a session, seen as an escrow.
Pot == [s \in SessionIds |->
          IF learner[s] = Nobody THEN 0
          ELSE -(ledger[s][learner[s]] + ledger[s][MentorOf[s]])]

Stage == [s \in SessionIds |->
            CASE learner[s] = Nobody -> "free"
              [] learner[s] # Nobody /\ status[s] = "COMPLETED" -> "released"
              [] learner[s] # Nobody /\ status[s] = "CANCELLED" ->
                   IF ledger[s][learner[s]] = 0 THEN "refunded" ELSE "forfeited"
              [] OTHER -> "held"]

AsEscrow == INSTANCE Escrow WITH payer <- learner, pot <- Pot, stage <- Stage

\* The three handlers and the job, taken together, are an escrow.
ImplementsEscrow == AsEscrow!Spec

\* However sessions are booked, completed and cancelled, people never have more
\* credits together than they started with, unless an administrator grants some:
\* a payout or a refund is not made twice.
NothingMinted == SumFunction(balance) <= SumFunction([u \in Users |-> StartCredits])

-----------------------------------------------------------------------------
(* What the comments say and interleaved requests break. *)

\* "Release the held credits to the mentor as earnings, matching the exact amount
\* the learner was charged" (session.service.ts:279-280): nobody earns credits on
\* a session beyond what its learner has paid for it.
EarnedWithinPaid ==
  \A s \in SessionIds :
    learner[s] # Nobody => ledger[s][MentorOf[s]] <= -ledger[s][learner[s]]
=============================================================================

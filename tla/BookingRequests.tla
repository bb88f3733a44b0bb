--------------------------- MODULE BookingRequests ---------------------------
(***************************************************************************)
(* Requests of learners to one mentor, for one skill, and how they are     *)
(* answered (modules/bookings/booking.service.ts).  Every handler reads    *)
(* the request, awaits, and writes it by id alone; acceptRequest also      *)
(* looks for an overlapping session inside its transaction, but without a  *)
(* lock, so that query and the commit are two steps.  The expire job reads *)
(* a list and then flips its rows one by one by a guarded write.           *)
(***************************************************************************)
EXTENDS Integers, FiniteSets

CONSTANTS
  Learners,      \* people who send requests
  ReqIds,        \* requests that may be sent
  LearnerOf,     \* LearnerOf[r]: who sends r
  SlotOf,        \* SlotOf[r]: the time proposed; equal slots overlap
  SessionIds,    \* BOUND: sessions that acceptances may create
  Handlers,      \* HTTP requests in flight at once
  Expirers,      \* runs of the expire job that may overlap
  Cost,          \* creditCost of the skill
  StartCredits,  \* balance every learner starts with
  MaxDeaths,     \* BOUND: how often a run of the job is cut short or fails
  None

ASSUME RequestConstants ==
  /\ LearnerOf \in [ReqIds -> Learners]
  /\ Cost \in Nat \ {0}
  /\ StartCredits \in Nat
  /\ MaxDeaths \in Nat
  /\ None \notin ReqIds \cup SessionIds \cup Learners
  /\ IsFiniteSet(SessionIds)

VARIABLES
  status,   \* BookingRequest.status, "ABSENT" before the row is created
  link,     \* BookingRequest.sessionId
  past,     \* past[r]: proposedAt lies before now
  origin,   \* origin[x]: the request that session x was created for
  state,    \* Session.status of x, "FREE" before the row is created
  paid,     \* credits of the learner held for session x
  balance,  \* User.creditBalance
  inbox,    \* inbox[r]: kinds of notification sent about r
  call,     \* call[h]: what the HTTP request at h is doing
  due,      \* due[j]: <<request, session>> pairs job run j has still to expire
  deaths    \* mishaps of the job so far

sessions == <<origin, state, paid>>
vars     == <<status, link, past, sessions, balance, inbox, call, due, deaths>>

-----------------------------------------------------------------------------
Statuses == {"ABSENT", "PENDING", "ACCEPTED", "REJECTED", "CANCELLED", "EXPIRED"}
Kinds    == {"requested", "accepted", "rejected", "cancelled", "expired"}
Ops      == {"none", "create", "accept", "insert", "reject", "cancel"}

NoCall == [op |-> "none", req |-> None, seen |-> "ABSENT"]
Calls  == [op : Ops, req : ReqIds \cup {None}, seen : Statuses]

Init ==
  /\ status = [r \in ReqIds |-> "ABSENT"]
  /\ link = [r \in ReqIds |-> None]
  /\ past = [r \in ReqIds |-> FALSE]
  /\ origin = [x \in SessionIds |-> None]
  /\ state = [x \in SessionIds |-> "FREE"]
  /\ paid = [x \in SessionIds |-> 0]
  /\ balance = [u \in Learners |-> StartCredits]
  /\ inbox = [r \in ReqIds |-> {}]
  /\ call = [h \in Handlers |-> NoCall]
  /\ due = [j \in Expirers |-> {}]
  /\ deaths = 0

-----------------------------------------------------------------------------
\* Slips a change to this code could make; none is part of the specification.
OpenOrAccepted(r)   == status[r] \in {"PENDING", "ACCEPTED"}  \* weaker check
NoDuplicate(r)      == FALSE                                  \* check forgotten
OwnSlot(r, q)       == r = q                                  \* wrong overlap test
NoDebit(u, n)       == balance' = balance
OverdrawDebit(u, n) == balance' = [balance EXCEPT ![u] = @ - n] \* guard dropped
StillOpen           == {r \in ReqIds : status[r] = "PENDING" /\ ~past[r]}
ExpireById(r)       == TRUE                                   \* unguarded flip

\* The handlers accept, reject and cancel pending requests only.
Answerable(r) == status[r] = "PENDING"

Send(h, op, r) ==
  call' = [call EXCEPT ![h] = [op |-> op, req |-> r, seen |-> status[r]]]
Reply(h) == call' = [call EXCEPT ![h] = NoCall]

SetStatus(r, st) == status' = [status EXCEPT ![r] = st]
Tell(r, kind)    == inbox' = [inbox EXCEPT ![r] = @ \cup {kind}]

Load(h, op, r) ==
  /\ call[h] = NoCall
  /\ Answerable(r)
  /\ Send(h, op, r)
  /\ UNCHANGED <<status, link, past, sessions, balance, inbox, due, deaths>>

-----------------------------------------------------------------------------
(* createRequest; the availability and the mentor's account are checked at   *)
(* the same time and not modelled here.                                      *)

\* One open request per learner, mentor and skill.
Duplicate(r) == \E q \in ReqIds : LearnerOf[q] = LearnerOf[r] /\ status[q] = "PENDING"

CreateLoad(h, r) ==
  /\ call[h] = NoCall
  /\ status[r] = "ABSENT"
  /\ \A g \in Handlers : call[g].req # r
  /\ ~past[r]
  /\ ~Duplicate(r)
  /\ Send(h, "create", r)
  /\ UNCHANGED <<status, link, past, sessions, balance, inbox, due, deaths>>

CreateCommit(h) ==
  /\ call[h].op = "create"
  /\ SetStatus(call[h].req, "PENDING")
  /\ Tell(call[h].req, "requested")
  /\ Reply(h)
  /\ UNCHANGED <<link, past, sessions, balance, due, deaths>>

-----------------------------------------------------------------------------
(* acceptRequest. *)

Overlaps(r, q) == SlotOf[r] = SlotOf[q]

\* A SCHEDULED session of the mentor overlaps the proposed time.
Conflicts(r) == {x \in SessionIds : state[x] = "SCHEDULED" /\ Overlaps(origin[x], r)}

Debit(u, n) == balance[u] >= n /\ balance' = [balance EXCEPT ![u] = @ - n]

SetLink(r, x) == link' = [link EXCEPT ![r] = x]

AcceptLoad(h, r) == balance[LearnerOf[r]] >= Cost /\ Load(h, "accept", r)

AcceptCheck(h) ==
  /\ call[h].op = "accept"
  /\ Conflicts(call[h].req) = {}
  /\ call' = [call EXCEPT ![h].op = "insert"]
  /\ UNCHANGED <<status, link, past, sessions, balance, inbox, due, deaths>>

AcceptCommit(h, x) ==
  LET r == call[h].req
  IN  /\ call[h].op = "insert"
      /\ state[x] = "FREE"
      /\ state' = [state EXCEPT ![x] = "SCHEDULED"]
      /\ origin' = [origin EXCEPT ![x] = r]
      /\ paid' = [paid EXCEPT ![x] = Cost]
      /\ Debit(LearnerOf[r], Cost)
      /\ SetStatus(r, "ACCEPTED")
      /\ SetLink(r, x)
      /\ Tell(r, "accepted")
      /\ Reply(h)
      /\ UNCHANGED <<past, due, deaths>>

-----------------------------------------------------------------------------
(* rejectRequest and cancelRequest. *)

RejectLoad(h, r) == Load(h, "reject", r)
CancelLoad(h, r) == Load(h, "cancel", r)

Answer(h, op, st, kind) ==
  /\ call[h].op = op
  /\ SetStatus(call[h].req, st)
  /\ Tell(call[h].req, kind)
  /\ Reply(h)
  /\ UNCHANGED <<link, past, sessions, balance, due, deaths>>

RejectCommit(h) == Answer(h, "reject", "REJECTED", "rejected")
CancelCommit(h) == Answer(h, "cancel", "CANCELLED", "cancelled")

\* A request ends without committing: an overlap, too few credits, a timeout of
\* the transaction or the death of the process.
Abandon(h) ==
  /\ call[h] # NoCall
  /\ Reply(h)
  /\ UNCHANGED <<status, link, past, sessions, balance, inbox, due, deaths>>

-----------------------------------------------------------------------------
(* expireStalePendingRequests. *)

Stale == {r \in ReqIds : status[r] = "PENDING" /\ past[r]}

ExpireStart(j) ==
  /\ due[j] = {}
  /\ Stale # {}
  /\ due' = [due EXCEPT ![j] = {<<r, link[r]>> : r \in Stale}]
  /\ UNCHANGED <<status, link, past, sessions, balance, inbox, call, deaths>>

Done(j, r, x) == due' = [due EXCEPT ![j] = @ \ {<<r, x>>}]

StillPending(r) == status[r] = "PENDING"

\* What is still held for the session the request was linked to, if any.
ExpireFlip(j, r, x) ==
  /\ <<r, x>> \in due[j]
  /\ StillPending(r)
  /\ SetStatus(r, "EXPIRED")
  /\ IF x = None THEN UNCHANGED <<paid, balance>>
     ELSE /\ balance' = [balance EXCEPT ![LearnerOf[r]] = @ + paid[x]]
          /\ paid' = [paid EXCEPT ![x] = 0]
  /\ Tell(r, "expired")
  /\ Done(j, r, x)
  /\ UNCHANGED <<link, past, origin, state, call, deaths>>

\* The return of the transaction's callback skips the flip, not the notice.
ExpireSkip(j, r, x) ==
  /\ <<r, x>> \in due[j]
  /\ ~StillPending(r)
  /\ Tell(r, "expired")
  /\ Done(j, r, x)
  /\ UNCHANGED <<status, link, past, sessions, balance, call, deaths>>

\* The serverless function is killed between two requests.
ExpireDie(j) ==
  /\ due[j] # {}
  /\ deaths < MaxDeaths
  /\ due' = [due EXCEPT ![j] = {}]
  /\ deaths' = deaths + 1
  /\ UNCHANGED <<status, link, past, sessions, balance, inbox, call>>

\* The transaction of one request fails; the catch of the loop goes on.
ExpireFail(j, r, x) ==
  /\ <<r, x>> \in due[j]
  /\ deaths < MaxDeaths
  /\ Done(j, r, x)
  /\ deaths' = deaths + 1
  /\ UNCHANGED <<status, link, past, sessions, balance, inbox, call>>

-----------------------------------------------------------------------------
(* What goes on around the requests. *)

PassTime(r) ==
  /\ ~past[r]
  /\ past' = [past EXCEPT ![r] = TRUE]
  /\ UNCHANGED <<status, link, sessions, balance, inbox, call, due, deaths>>

\* The mentor cancels the session, which refunds the learner (see Sessions).
CancelSession(x) ==
  /\ state[x] = "SCHEDULED"
  /\ state' = [state EXCEPT ![x] = "CANCELLED"]
  /\ balance' = [balance EXCEPT ![LearnerOf[origin[x]]] = @ + paid[x]]
  /\ paid' = [paid EXCEPT ![x] = 0]
  /\ UNCHANGED <<status, link, past, origin, inbox, call, due, deaths>>

\* Nothing is in flight and nothing is due: the server waits.
AtRest ==
  /\ \A h \in Handlers : call[h] = NoCall
  /\ \A j \in Expirers : due[j] = {}
  /\ UNCHANGED vars

Expire(j) ==
  \/ ExpireStart(j)
  \/ \E r \in ReqIds, x \in SessionIds \cup {None} : ExpireFlip(j, r, x) \/ ExpireSkip(j, r, x)

Mishap(j) ==
  \/ ExpireDie(j)
  \/ \E r \in ReqIds, x \in SessionIds \cup {None} : ExpireFail(j, r, x)

Serve(h) ==
  \/ \E r \in ReqIds : CreateLoad(h, r) \/ AcceptLoad(h, r) \/ RejectLoad(h, r) \/ CancelLoad(h, r)
  \/ CreateCommit(h) \/ AcceptCheck(h) \/ Abandon(h)

\* The answers: each is written by id alone.
Settle(h) ==
  \/ RejectCommit(h) \/ CancelCommit(h)
  \/ \E x \in SessionIds : AcceptCommit(h, x)

\* Everything but the answers.
Around ==
  \/ \E h \in Handlers : Serve(h)
  \/ \E j \in Expirers : Expire(j) \/ Mishap(j)
  \/ \E r \in ReqIds : PassTime(r)
  \/ \E x \in SessionIds : CancelSession(x)
  \/ AtRest

Next == Around \/ \E h \in Handlers : Settle(h)

Spec == Init /\ [][Next]_vars

\* The scheduler starts the job again and again and a run not killed goes on.
FairSpec == Spec /\ \A j \in Expirers : WF_vars(Expire(j))

\* No answer is written over a status other than the one it read: the behaviours
\* of the code with that status repeated in the WHERE clause of the write, as the
\* expire job has it, and a row count checked.
Unchanged(h) == status[call[h].req] = call[h].seen

GuardedNext == Around \/ \E h \in Handlers : Settle(h) /\ Unchanged(h)

GuardedSpec == Init /\ [][GuardedNext]_vars

\* No two acceptances for overlapping times, and no two creations of one learner,
\* are in flight at once: the behaviours of the code with its two queries and the
\* writes they guard under a lock, or backed by a constraint.
Accepting(h) == call[h].op \in {"accept", "insert"}
Creating(h)  == call[h].op = "create"

Serial ==
  \A g, h \in Handlers : g # h =>
    /\ Accepting(g) /\ Accepting(h) => ~Overlaps(call[g].req, call[h].req)
    /\ Creating(g) /\ Creating(h) => LearnerOf[call[g].req] # LearnerOf[call[h].req]

SerialSpec == Init /\ [][Next /\ Serial']_vars

\* Both repairs together.
RepairedSpec == Init /\ [][GuardedNext /\ Serial']_vars

-----------------------------------------------------------------------------
(* What holds however requests and jobs interleave. *)

\* Every variable has its type; in particular no balance is negative.
TypeOK ==
  /\ status \in [ReqIds -> Statuses]
  /\ link \in [ReqIds -> SessionIds \cup {None}]
  /\ past \in [ReqIds -> BOOLEAN]
  /\ origin \in [SessionIds -> ReqIds \cup {None}]
  /\ state \in [SessionIds -> {"FREE", "SCHEDULED", "CANCELLED"}]
  /\ paid \in [SessionIds -> Nat]
  /\ balance \in [Learners -> Nat]
  /\ inbox \in [ReqIds -> SUBSET Kinds]
  /\ call \in [Handlers -> Calls]
  /\ due \in [Expirers -> SUBSET (ReqIds \X (SessionIds \cup {None}))]
  /\ deaths \in 0..MaxDeaths

\* A request that is open, or that the job expired, has cost nobody anything: no
\* session was ever created for it, so the refund branch of the job
\* (booking.service.ts:288-293, 310-328) has nothing to give back.
OpenHoldsNothing ==
  \A r \in ReqIds : status[r] \in {"ABSENT", "PENDING", "EXPIRED"} =>
    link[r] = None /\ \A x \in SessionIds : origin[x] # r

\* An accepted request points to a session that was created for it.
AcceptedHasSession ==
  \A r \in ReqIds : status[r] = "ACCEPTED" =>
    link[r] \in SessionIds /\ origin[link[r]] = r /\ state[link[r]] # "FREE"

\* No debit without a session and no session without its debit: the session, the
\* hold and the answer commit together or not at all (booking.service.ts:170-216).
DebitsMatchSessions ==
  \A u \in Learners :
    balance[u] + Cost * Cardinality({x \in SessionIds :
      state[x] = "SCHEDULED" /\ LearnerOf[origin[x]] = u}) = StartCredits

\* A request nobody answered is closed once its time has passed
\* (booking.service.ts:288-293), although runs of the job overlap and are killed.
StaleRequestsClose ==
  \A r \in ReqIds : status[r] = "PENDING" /\ past[r] ~> status[r] # "PENDING"

-----------------------------------------------------------------------------
(* What the code's messages and comments say: interleaved requests break it,  *)
(* the first and the last hold under GuardedSpec, the others under SerialSpec. *)

Final == {"ACCEPTED", "REJECTED", "CANCELLED", "EXPIRED"}

\* "Only pending requests can be accepted", "rejected", "cancelled"
\* (booking.service.ts:152, 237, 265): an answer is final.
AnsweredOnce ==
  [][\A r \in ReqIds : status[r] \in Final => status'[r] = status[r]]_vars

\* "You already have a session scheduled in this time window"
\* (booking.service.ts:171-180): acceptances never double-book the mentor.
NeverDoubleBooked ==
  \A x, y \in SessionIds :
    /\ x # y /\ state[x] = "SCHEDULED" /\ state[y] = "SCHEDULED"
    => SlotOf[origin[x]] # SlotOf[origin[y]]

\* "One open request per learner/mentor/skill" (booking.service.ts:62).
OneOpenRequest ==
  \A r, q \in ReqIds :
    /\ status[r] = "PENDING" /\ status[q] = "PENDING" /\ LearnerOf[r] = LearnerOf[q]
    => r = q

\* What a party was told by a request stays true: an answer that was sent out is
\* the answer on record (the notices of booking.service.ts:218-283).
NoticesStayTrue ==
  \A r \in ReqIds :
    /\ "accepted" \in inbox[r] => status[r] = "ACCEPTED"
    /\ "rejected" \in inbox[r] => status[r] = "REJECTED"
    /\ "cancelled" \in inbox[r] => status[r] = "CANCELLED"

-----------------------------------------------------------------------------
(* An acceptance as an escrow: the credits held for a session leave the learner *)
(* once and come back once, whatever interleaves.                               *)

Stage ==
  [x \in SessionIds |->
     CASE state[x] = "FREE" -> "free" [] state[x] = "SCHEDULED" -> "held" [] OTHER -> "refunded"]

Payer == [x \in SessionIds |-> IF state[x] = "FREE" THEN None ELSE LearnerOf[origin[x]]]

AsEscrow ==
  INSTANCE Escrow WITH Users <- Learners, MentorOf <- [x \in SessionIds |-> None],
                       Prices <- {Cost}, Adjustments <- {}, MaxCredits <- StartCredits,
                       Nobody <- None, payer <- Payer, pot <- paid, stage <- Stage

\* The acceptances, the job and the cancellation of sessions implement the escrow
\* of Sessions (booking.service.ts:170-216, 310-328), races included.
ImplementsEscrow == AsEscrow!Spec
=============================================================================

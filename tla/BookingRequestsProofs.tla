------------------------ MODULE BookingRequestsProofs ------------------------
(***************************************************************************)
(* What the runs of BookingRequests check on a small instance, for every   *)
(* set of learners, requests, sessions and handlers.  Under Spec, with all *)
(* the races, the induction carries the types, that a creation in flight   *)
(* is alone with its request, and what links requests, sessions and        *)
(* credits, which is all the refinement of the escrow needs.  Under        *)
(* GuardedSpec it carries that notices are true; under SerialSpec, what an *)
(* accepting or creating call has checked and no other call can change.    *)
(***************************************************************************)
EXTENDS BookingRequests, FiniteSetTheorems, TLAPS

\* A movement of n credits for one learner.
LEMMA Moved ==
  ASSUME NEW f \in [Learners -> Nat], NEW u, NEW v, u \in Learners => v \in Nat
  PROVE  [f EXCEPT ![u] = v] \in [Learners -> Nat]
OBVIOUS

\* What an HTTP request in flight does.
Handle(h) == Serve(h) \/ Settle(h)

LEMMA InitType == Init => TypeOK
BY RequestConstants DEF Init, TypeOK, Statuses, Kinds, Calls, NoCall, Ops

\* Handlers write statuses, links and notices of their kinds.
LEMMA HandleType ==
  ASSUME TypeOK, NEW h \in Handlers, Handle(h)
  PROVE  TypeOK'
<1> USE RequestConstants DEF TypeOK, Statuses, Kinds, Calls, NoCall, Ops, Reply, SetStatus, Tell
<1>1. ASSUME NEW r \in ReqIds, NEW op \in Ops, Load(h, op, r) PROVE TypeOK'
  BY <1>1 DEF Load, Send, sessions
<1>2. ASSUME NEW r \in ReqIds, CreateLoad(h, r) PROVE TypeOK'
  BY <1>2 DEF CreateLoad, Send, sessions
<1>3. CASE CreateCommit(h)
  BY <1>3 DEF CreateCommit, sessions
<1>4. CASE AcceptCheck(h)
  BY <1>4 DEF AcceptCheck, sessions
<1>5. ASSUME NEW x \in SessionIds, AcceptCommit(h, x) PROVE TypeOK'
  <2> DEFINE r == call[h].req
  <2>1. r \in ReqIds \cup {None}
    OBVIOUS
  <2>2. balance' \in [Learners -> Nat]
    <3> DEFINE u == LearnerOf[r]
    <3>1. balance[u] >= Cost /\ balance' = [balance EXCEPT ![u] = balance[u] - Cost]
      BY <1>5 DEF AcceptCommit, Debit
    <3>2. u \in Learners => balance[u] - Cost \in Nat
      BY <3>1
    <3> HIDE DEF u
    <3>3. QED
      BY <3>1, <3>2, Moved
  <2>3. status' \in [ReqIds -> Statuses] /\ link' \in [ReqIds -> SessionIds \cup {None}]
    BY <1>5, <2>1 DEF AcceptCommit, SetLink
  <2>4. QED
    BY <1>5, <2>1, <2>2, <2>3 DEF AcceptCommit
<1>6. ASSUME NEW op \in Ops, NEW st \in Statuses, NEW kind \in Kinds, Answer(h, op, st, kind) PROVE TypeOK'
  BY <1>6 DEF Answer, sessions
<1>7. CASE Abandon(h)
  BY <1>7 DEF Abandon, sessions
<1>8. QED
  BY <1>1, <1>2, <1>3, <1>4, <1>5, <1>6, <1>7
     DEF Handle, Serve, Settle, AcceptLoad, RejectLoad, CancelLoad, RejectCommit, CancelCommit

LEMMA JobType ==
  ASSUME TypeOK, NEW j \in Expirers, Expire(j) \/ Mishap(j)
  PROVE  TypeOK'
<1> USE RequestConstants DEF TypeOK, Statuses, Kinds, Done, SetStatus, Tell
<1>1. CASE ExpireStart(j)
  <2>1. {<<r, link[r]>> : r \in Stale} \subseteq ReqIds \X (SessionIds \cup {None})
    BY DEF Stale
  <2>2. QED
    BY <1>1, <2>1 DEF ExpireStart, sessions
<1>2. ASSUME NEW r \in ReqIds, NEW x \in SessionIds \cup {None}, ExpireFlip(j, r, x) PROVE TypeOK'
  <2>1. balance' \in [Learners -> Nat] /\ paid' \in [SessionIds -> Nat]
    BY <1>2 DEF ExpireFlip
  <2>2. QED
    BY <1>2, <2>1 DEF ExpireFlip
<1>3. ASSUME NEW r \in ReqIds, NEW x \in SessionIds \cup {None}, ExpireSkip(j, r, x) PROVE TypeOK'
  BY <1>3 DEF ExpireSkip, sessions
<1>4. CASE ExpireDie(j)
  BY <1>4 DEF ExpireDie, sessions
<1>5. ASSUME NEW r \in ReqIds, NEW x \in SessionIds \cup {None}, ExpireFail(j, r, x) PROVE TypeOK'
  BY <1>5 DEF ExpireFail, sessions
<1>6. QED
  BY <1>1, <1>2, <1>3, <1>4, <1>5 DEF Expire, Mishap

LEMMA NextType == TypeOK /\ [Next]_vars => TypeOK'
<1> SUFFICES ASSUME TypeOK, [Next]_vars PROVE TypeOK'
  OBVIOUS
<1>1. ASSUME NEW r \in ReqIds, PassTime(r) PROVE TypeOK'
  BY <1>1 DEF TypeOK, PassTime, sessions
<1>2. ASSUME NEW x \in SessionIds, CancelSession(x) PROVE TypeOK'
  <2> DEFINE u == LearnerOf[origin[x]]
  <2>1. balance' = [balance EXCEPT ![u] = balance[u] + paid[x]]
    BY <1>2 DEF CancelSession
  <2>2. u \in Learners => balance[u] + paid[x] \in Nat
    BY DEF TypeOK
  <2>3. balance' \in [Learners -> Nat]
    <3> HIDE DEF u
    <3>1. QED
      BY <2>1, <2>2, Moved DEF TypeOK
  <2>4. QED
    BY <1>2, <2>3 DEF TypeOK, CancelSession
<1>3. CASE AtRest \/ UNCHANGED vars
  BY <1>3 DEF TypeOK, AtRest, vars, sessions
<1>4. QED
  BY <1>1, <1>2, <1>3, HandleType, JobType DEF Next, Around, Handle

\* Every reachable state of the requests is well typed; in particular no learner
\* is ever overdrawn by acceptances that passed their check of the balance together.
THEOREM TypeCorrect == Spec => []TypeOK
BY InitType, NextType, PTL DEF Spec

-----------------------------------------------------------------------------
(* With all the races: what links a request, its session and its credits. *)

\* A creation in flight is alone with a request that does not exist yet.
CreatesAlone ==
  \A h \in Handlers : call[h].op = "create" =>
    /\ status[call[h].req] = "ABSENT"
    /\ \A g \in Handlers \ {h} : call[g].req # call[h].req

\* What is in flight names a request.
CallNamesRequest == \A h \in Handlers : call[h] # NoCall => call[h].req \in ReqIds

\* The job never finds a request that holds anything: its refund never runs.
DueUnlinked == \A j \in Expirers : \A p \in due[j] : p[2] = None

\* A session of the mentor belongs to a request and holds what it cost.
ScheduledPaid ==
  \A x \in SessionIds : state[x] = "SCHEDULED" => origin[x] \in ReqIds /\ paid[x] = Cost

RaceInv ==
  /\ TypeOK /\ CreatesAlone /\ CallNamesRequest /\ DueUnlinked /\ ScheduledPaid
  /\ OpenHoldsNothing /\ AcceptedHasSession

Linked == CreatesAlone /\ CallNamesRequest /\ DueUnlinked /\ ScheduledPaid
            /\ OpenHoldsNothing /\ AcceptedHasSession

LEMMA InitRace == Init => RaceInv
BY InitType, RequestConstants
   DEF Init, RaceInv, CreatesAlone, CallNamesRequest, DueUnlinked, ScheduledPaid,
       OpenHoldsNothing, AcceptedHasSession, NoCall

\* A step that only drops or begins calls, keeps or shrinks the job's list, and
\* touches no request and no session.
LEMMA CallsOnly ==
  ASSUME RaceInv, UNCHANGED <<status, link, origin, state, paid>>,
         \A j \in Expirers : due'[j] \subseteq due[j],
         CreatesAlone', CallNamesRequest'
  PROVE  Linked'
BY DEF RaceInv, Linked, DueUnlinked, ScheduledPaid, OpenHoldsNothing, AcceptedHasSession

\* A call that ends, and has changed the status of its own request at most, breaks
\* nothing that is said of calls.
LEMMA ReplyKeeps ==
  ASSUME RaceInv, NEW h \in Handlers, Reply(h),
         \A r \in ReqIds \ {call[h].req} : status'[r] = status[r]
  PROVE  CreatesAlone' /\ CallNamesRequest'
<1>1. \A g \in Handlers : call'[g] = IF g = h THEN NoCall ELSE call[g]
  BY DEF RaceInv, TypeOK, Reply
<1>2. CallNamesRequest'
  BY <1>1 DEF RaceInv, CallNamesRequest
<1>3. NoCall.op # "create" /\ NoCall.req = None /\ None \notin ReqIds
  BY RequestConstants DEF NoCall
<1>4. ASSUME NEW g \in Handlers, call'[g].op = "create"
      PROVE  /\ status'[call'[g].req] = "ABSENT"
             /\ \A f \in Handlers \ {g} : call'[f].req # call'[g].req
  <2>1. g # h /\ call'[g] = call[g] /\ call[g].op = "create" /\ call[g] # NoCall
    BY <1>1, <1>3, <1>4
  <2>2. call[g].req \in ReqIds /\ status[call[g].req] = "ABSENT"
        /\ \A f \in Handlers \ {g} : call[f].req # call[g].req
    BY <2>1 DEF RaceInv, CreatesAlone, CallNamesRequest
  <2>3. QED
    BY <1>1, <1>3, <2>1, <2>2
<1>5. QED
  BY <1>2, <1>4 DEF CreatesAlone

\* A call that begins with an open request stays clear of the creations.
LEMMA LoadKeeps ==
  ASSUME RaceInv, NEW h \in Handlers, NEW r \in ReqIds, NEW op \in Ops, Load(h, op, r), op # "create"
  PROVE  Linked'
<1>1. \A g \in Handlers : call'[g] = IF g = h THEN [op |-> op, req |-> r, seen |-> status[r]] ELSE call[g]
  BY DEF RaceInv, TypeOK, Load, Send
<1>2. status[r] = "PENDING" /\ call[h] = NoCall /\ UNCHANGED <<status, link, origin, state, paid, due>>
  BY DEF Load, Answerable, sessions
<1>3. CallNamesRequest'
  BY <1>1 DEF RaceInv, CallNamesRequest
<1>4. CreatesAlone'
  BY <1>1, <1>2 DEF RaceInv, CreatesAlone
<1>5. QED
  BY <1>2, <1>3, <1>4, CallsOnly

LEMMA CreateKeeps ==
  ASSUME RaceInv, NEW h \in Handlers, NEW r \in ReqIds, CreateLoad(h, r)
  PROVE  Linked'
<1>1. \A g \in Handlers : call'[g] = IF g = h THEN [op |-> "create", req |-> r, seen |-> status[r]] ELSE call[g]
  BY DEF RaceInv, TypeOK, CreateLoad, Send
<1>2. status[r] = "ABSENT" /\ (\A g \in Handlers : call[g].req # r)
        /\ UNCHANGED <<status, link, origin, state, paid, due>>
  BY DEF CreateLoad, sessions
<1>3. CallNamesRequest'
  BY <1>1 DEF RaceInv, CallNamesRequest
<1>4. CreatesAlone'
  BY <1>1, <1>2 DEF RaceInv, CreatesAlone
<1>5. QED
  BY <1>2, <1>3, <1>4, CallsOnly

\* A creation, a rejection or a cancellation: a status without a link.  What it
\* makes of an accepted request is no longer accepted.
LEMMA AnswerKeeps ==
  ASSUME RaceInv, NEW h \in Handlers, NEW st \in Statuses, call[h] # NoCall,
         SetStatus(call[h].req, st), Reply(h),
         UNCHANGED <<link, origin, state, paid, due>>,
         (st = "PENDING" /\ call[h].op = "create") \/ st \in {"REJECTED", "CANCELLED"}
  PROVE  Linked'
<1> DEFINE r == call[h].req
<1>1. r \in ReqIds /\ \A q \in ReqIds : status'[q] = IF q = r THEN st ELSE status[q]
  BY DEF RaceInv, TypeOK, CallNamesRequest, SetStatus
<1>2. CreatesAlone' /\ CallNamesRequest'
  BY <1>1, ReplyKeeps
<1>3. st = "PENDING" => status[r] = "ABSENT"
  BY DEF RaceInv, CreatesAlone
<1>4. OpenHoldsNothing'
  BY <1>1, <1>3 DEF RaceInv, OpenHoldsNothing
<1>5. AcceptedHasSession'
  BY <1>1 DEF RaceInv, AcceptedHasSession
<1>6. QED
  BY <1>2, <1>4, <1>5 DEF RaceInv, Linked, DueUnlinked, ScheduledPaid

\* An acceptance writes request, link and session together.
LEMMA AcceptKeeps ==
  ASSUME RaceInv, NEW h \in Handlers, NEW x \in SessionIds, AcceptCommit(h, x)
  PROVE  Linked'
<1> DEFINE r == call[h].req
<1>1. r \in ReqIds /\ state[x] = "FREE"
  <2>1. call[h] # NoCall
    BY DEF AcceptCommit, NoCall
  <2>2. QED
    BY <2>1 DEF RaceInv, CallNamesRequest, AcceptCommit
<1>2. /\ \A q \in ReqIds : status'[q] = IF q = r THEN "ACCEPTED" ELSE status[q]
      /\ \A q \in ReqIds : link'[q] = IF q = r THEN x ELSE link[q]
      /\ \A y \in SessionIds : origin'[y] = IF y = x THEN r ELSE origin[y]
      /\ \A y \in SessionIds : state'[y] = IF y = x THEN "SCHEDULED" ELSE state[y]
      /\ \A y \in SessionIds : paid'[y] = IF y = x THEN Cost ELSE paid[y]
      /\ due' = due /\ Reply(h)
  BY <1>1 DEF RaceInv, TypeOK, AcceptCommit, SetStatus, SetLink
<1>3. CreatesAlone' /\ CallNamesRequest'
  BY <1>2, ReplyKeeps
<1>4. OpenHoldsNothing'
  BY <1>1, <1>2 DEF RaceInv, OpenHoldsNothing
<1>5. AcceptedHasSession'
  BY <1>1, <1>2 DEF RaceInv, AcceptedHasSession
<1>6. ScheduledPaid'
  BY <1>1, <1>2 DEF RaceInv, ScheduledPaid
<1>7. QED
  BY <1>2, <1>3, <1>4, <1>5, <1>6 DEF RaceInv, Linked, DueUnlinked

LEMMA HandleRace ==
  ASSUME RaceInv, NEW h \in Handlers, Handle(h)
  PROVE  Linked'
<1>0. {"accept", "reject", "cancel"} \subseteq Ops /\ {"PENDING", "REJECTED", "CANCELLED"} \subseteq Statuses
  BY DEF Ops, Statuses
<1>1. ASSUME NEW r \in ReqIds, AcceptLoad(h, r) \/ RejectLoad(h, r) \/ CancelLoad(h, r) PROVE Linked'
  BY <1>0, <1>1, LoadKeeps DEF AcceptLoad, RejectLoad, CancelLoad
<1>2. ASSUME NEW r \in ReqIds, CreateLoad(h, r) PROVE Linked'
  BY <1>2, CreateKeeps
<1>3. CASE CreateCommit(h)
  BY <1>0, <1>3, AnswerKeeps DEF CreateCommit, sessions, NoCall
<1>4. CASE AcceptCheck(h)
  <2>1. \A g \in Handlers : call'[g].req = call[g].req /\ (call'[g].op = "create" <=> call[g].op = "create")
    BY <1>4 DEF RaceInv, TypeOK, Calls, AcceptCheck
  <2>2. call[h] # NoCall /\ \A g \in Handlers \ {h} : call'[g] = call[g]
    BY <1>4 DEF RaceInv, TypeOK, AcceptCheck, NoCall
  <2>3. UNCHANGED <<status, link, origin, state, paid, due>>
    BY <1>4 DEF AcceptCheck, sessions
  <2>4. CreatesAlone'
    BY <2>1, <2>3 DEF RaceInv, CreatesAlone
  <2>5. CallNamesRequest'
    BY <2>1, <2>2 DEF RaceInv, CallNamesRequest
  <2>6. QED
    BY <2>3, <2>4, <2>5, CallsOnly
<1>5. CASE RejectCommit(h) \/ CancelCommit(h)
  BY <1>0, <1>5, AnswerKeeps DEF RejectCommit, CancelCommit, Answer, sessions, NoCall
<1>6. ASSUME NEW x \in SessionIds, AcceptCommit(h, x) PROVE Linked'
  BY <1>6, AcceptKeeps
<1>7. CASE Abandon(h)
  BY <1>7, ReplyKeeps, CallsOnly DEF Abandon, sessions
<1>8. QED
  BY <1>1, <1>2, <1>3, <1>4, <1>5, <1>6, <1>7 DEF Handle, Serve, Settle

LEMMA JobRace ==
  ASSUME RaceInv, NEW j \in Expirers, Expire(j) \/ Mishap(j)
  PROVE  Linked'
<1>0. /\ due \in [Expirers -> SUBSET (ReqIds \X (SessionIds \cup {None}))]
      /\ status \in [ReqIds -> Statuses]
  BY DEF RaceInv, TypeOK
<1>1. ASSUME UNCHANGED <<status, link, origin, state, paid, call>>,
             \A i \in Expirers : due'[i] \subseteq due[i] \cup {<<r, link[r]>> : r \in Stale}
      PROVE  Linked'
  <2>1. \A p \in {<<r, link[r]>> : r \in Stale} : p[2] = None
    BY DEF RaceInv, OpenHoldsNothing, Stale
  <2>2. DueUnlinked'
    BY <1>1, <2>1 DEF RaceInv, DueUnlinked
  <2>3. QED
    BY <1>1, <2>2 DEF RaceInv, Linked, CreatesAlone, CallNamesRequest, ScheduledPaid,
                      OpenHoldsNothing, AcceptedHasSession
<1>2. ASSUME NEW r \in ReqIds, NEW x \in SessionIds \cup {None}, ExpireFlip(j, r, x)
      PROVE  Linked'
  <2>1. <<r, x>> \in due[j] /\ status[r] = "PENDING"
        /\ \A q \in ReqIds : status'[q] = IF q = r THEN "EXPIRED" ELSE status[q]
    BY <1>0, <1>2 DEF ExpireFlip, StillPending, SetStatus
  <2>2. x = None
    BY <2>1 DEF RaceInv, DueUnlinked
  <2>3. UNCHANGED <<link, origin, state, paid, call>>
    BY <1>2, <2>2 DEF ExpireFlip
  <2>4. DueUnlinked'
    BY <1>0, <1>2 DEF RaceInv, DueUnlinked, ExpireFlip, Done
  <2>5. CreatesAlone' /\ CallNamesRequest'
    <3>1. \A h \in Handlers : call[h].op = "create" => call[h].req \in ReqIds
      BY DEF RaceInv, CallNamesRequest, NoCall
    <3>2. QED
      BY <2>1, <2>3, <3>1 DEF RaceInv, CreatesAlone, CallNamesRequest
  <2>6. OpenHoldsNothing' /\ AcceptedHasSession'
    BY <2>1, <2>3 DEF RaceInv, OpenHoldsNothing, AcceptedHasSession
  <2>7. QED
    BY <2>3, <2>4, <2>5, <2>6 DEF RaceInv, Linked, ScheduledPaid
<1>3. CASE ExpireStart(j)
  BY <1>0, <1>1, <1>3 DEF ExpireStart, sessions
<1>4. ASSUME NEW r \in ReqIds, NEW x \in SessionIds \cup {None}, ExpireSkip(j, r, x) \/ ExpireFail(j, r, x)
      PROVE  Linked'
  BY <1>0, <1>1, <1>4 DEF ExpireSkip, ExpireFail, Done, sessions
<1>5. CASE ExpireDie(j)
  BY <1>0, <1>1, <1>5 DEF ExpireDie, sessions
<1>6. QED
  BY <1>2, <1>3, <1>4, <1>5 DEF Expire, Mishap

LEMMA NextRace == RaceInv /\ [Next]_vars => RaceInv'
<1> SUFFICES ASSUME RaceInv, [Next]_vars PROVE Linked'
  BY NextType DEF RaceInv, Linked
<1>1. ASSUME UNCHANGED <<status, link, origin, state, paid, call, due>> PROVE Linked'
  BY <1>1 DEF RaceInv, Linked, CreatesAlone, CallNamesRequest, DueUnlinked, ScheduledPaid,
              OpenHoldsNothing, AcceptedHasSession
<1>2. CASE AtRest \/ UNCHANGED vars \/ \E r \in ReqIds : PassTime(r)
  BY <1>1, <1>2 DEF AtRest, vars, sessions, PassTime
<1>3. ASSUME NEW x \in SessionIds, CancelSession(x) PROVE Linked'
  <2>1. \A y \in SessionIds : state'[y] = IF y = x THEN "CANCELLED" ELSE state[y]
    BY <1>3 DEF RaceInv, TypeOK, CancelSession
  <2>2. \A y \in SessionIds \ {x} : paid'[y] = paid[y]
    BY <1>3 DEF RaceInv, TypeOK, CancelSession
  <2>3. UNCHANGED <<status, link, origin, call, due>>
    BY <1>3 DEF CancelSession
  <2>4. ScheduledPaid'
    BY <2>1, <2>2, <2>3 DEF RaceInv, ScheduledPaid
  <2>5. OpenHoldsNothing' /\ AcceptedHasSession'
    BY <2>1, <2>3 DEF RaceInv, OpenHoldsNothing, AcceptedHasSession
  <2>6. QED
    BY <2>3, <2>4, <2>5 DEF RaceInv, Linked, CreatesAlone, CallNamesRequest, DueUnlinked
<1>4. QED
  BY <1>2, <1>3, HandleRace, JobRace DEF Next, Around, Handle

THEOREM RaceInvariant == Spec => []RaceInv
BY InitRace, NextRace, PTL DEF Spec

\* A request that is open or expired was never linked to a session, however
\* handlers and runs of the job interleave (booking.service.ts:304): the refund of
\* the expire job never has anything to give back.
THEOREM OpenIsFree == Spec => []OpenHoldsNothing
<1>1. RaceInv => OpenHoldsNothing
  BY DEF RaceInv
<1>2. QED
  BY <1>1, RaceInvariant, PTL

\* An accepted request has the session made for it, although its answer may have
\* overwritten another one (booking.service.ts:211).
THEOREM AcceptanceLinked == Spec => []AcceptedHasSession
<1>1. RaceInv => AcceptedHasSession
  BY DEF RaceInv
<1>2. QED
  BY <1>1, RaceInvariant, PTL

-----------------------------------------------------------------------------
(* Debits against sessions. *)

\* Credits move in two kinds of step only: the refund of the job never runs.
LEMMA SessionSteps ==
  ASSUME RaceInv, [Next]_vars
  PROVE  \/ \E h \in Handlers, x \in SessionIds : AcceptCommit(h, x)
         \/ \E x \in SessionIds : CancelSession(x)
         \/ UNCHANGED <<origin, state, paid, balance>>
<1>1. ASSUME NEW j \in Expirers, NEW r \in ReqIds, NEW x \in SessionIds \cup {None}, ExpireFlip(j, r, x)
      PROVE  UNCHANGED <<origin, state, paid, balance>>
  <2>1. x = None
    BY <1>1 DEF RaceInv, DueUnlinked, ExpireFlip
  <2>2. QED
    BY <1>1, <2>1 DEF ExpireFlip
<1>2. ASSUME NEW j \in Expirers, Expire(j) \/ Mishap(j)
      PROVE  UNCHANGED <<origin, state, paid, balance>>
  BY <1>1, <1>2 DEF Expire, Mishap, ExpireStart, ExpireSkip, ExpireDie, ExpireFail, sessions
<1>3. ASSUME NEW h \in Handlers, Handle(h), \A x \in SessionIds : ~AcceptCommit(h, x)
      PROVE  UNCHANGED <<origin, state, paid, balance>>
  BY <1>3 DEF Handle, Serve, Settle, CreateLoad, AcceptLoad, RejectLoad, CancelLoad, Load, CreateCommit,
              AcceptCheck, RejectCommit, CancelCommit, Answer, Abandon, sessions
<1>4. CASE AtRest \/ UNCHANGED vars \/ \E r \in ReqIds : PassTime(r)
  BY <1>4 DEF AtRest, PassTime, vars, sessions
<1>5. QED
  BY <1>2, <1>3, <1>4 DEF Next, Around, Handle

Holding(u) == {x \in SessionIds : state[x] = "SCHEDULED" /\ LearnerOf[origin[x]] = u}

LEMMA HoldingCounts ==
  ASSUME NEW u
  PROVE  /\ Cardinality(Holding(u)) \in Nat
         /\ IsFiniteSet(Holding(u))
BY RequestConstants, FS_Subset, FS_CardinalityType DEF Holding

LEMMA Times == \A n, k \in Int : n * (k + 1) = n * k + n /\ n * (k - 1) = n * k - n
OBVIOUS

LEMMA InitDebits == Init => DebitsMatchSessions
<1> SUFFICES ASSUME Init, NEW u \in Learners PROVE balance[u] + Cost * Cardinality(Holding(u)) = StartCredits
  BY DEF DebitsMatchSessions, Holding
<1>1. Holding(u) = {}
  BY DEF Init, Holding
<1>2. QED
  BY <1>1, FS_EmptySet, RequestConstants DEF Init

LEMMA NextDebits == RaceInv /\ DebitsMatchSessions /\ [Next]_vars => DebitsMatchSessions'
<1> SUFFICES ASSUME RaceInv, DebitsMatchSessions, [Next]_vars, NEW u \in Learners
             PROVE  balance'[u] + Cost * Cardinality(Holding(u)') = StartCredits
  BY DEF DebitsMatchSessions, Holding
<1>1. balance[u] + Cost * Cardinality(Holding(u)) = StartCredits /\ balance[u] \in Nat /\ Cost \in Nat
  BY RequestConstants DEF DebitsMatchSessions, Holding, RaceInv, TypeOK
<1>2. ASSUME UNCHANGED <<origin, state, balance>>
      PROVE  balance'[u] + Cost * Cardinality(Holding(u)') = StartCredits
  BY <1>1, <1>2 DEF Holding
<1>3. ASSUME NEW h \in Handlers, NEW x \in SessionIds, AcceptCommit(h, x)
      PROVE  balance'[u] + Cost * Cardinality(Holding(u)') = StartCredits
  <2> DEFINE r == call[h].req
  <2>1. r \in ReqIds
    BY <1>3 DEF RaceInv, CallNamesRequest, AcceptCommit, NoCall
  <2>2. /\ state[x] = "FREE"
        /\ \A y \in SessionIds : state'[y] = IF y = x THEN "SCHEDULED" ELSE state[y]
        /\ \A y \in SessionIds : origin'[y] = IF y = x THEN r ELSE origin[y]
        /\ balance'[u] = IF u = LearnerOf[r] THEN balance[u] - Cost ELSE balance[u]
    BY <1>3 DEF RaceInv, TypeOK, AcceptCommit, Debit
  <2>3. CASE u = LearnerOf[r]
    <3>1. Holding(u)' = Holding(u) \cup {x} /\ x \notin Holding(u)
      BY <2>2, <2>3 DEF Holding
    <3>2. Cardinality(Holding(u)') = Cardinality(Holding(u)) + 1
      BY <3>1, HoldingCounts, FS_AddElement
    <3>3. QED
      BY <1>1, <2>2, <2>3, <3>2, HoldingCounts, Times
  <2>4. CASE u # LearnerOf[r]
    <3>1. Holding(u)' = Holding(u)
      BY <2>2, <2>4 DEF Holding
    <3>2. QED
      BY <1>1, <2>2, <2>4, <3>1
  <2>5. QED
    BY <2>3, <2>4
<1>4. ASSUME NEW x \in SessionIds, CancelSession(x)
      PROVE  balance'[u] + Cost * Cardinality(Holding(u)') = StartCredits
  <2>1. /\ state[x] = "SCHEDULED" /\ paid[x] = Cost
        /\ \A y \in SessionIds : state'[y] = IF y = x THEN "CANCELLED" ELSE state[y]
        /\ origin' = origin
        /\ balance'[u] = IF u = LearnerOf[origin[x]] THEN balance[u] + Cost ELSE balance[u]
    BY <1>4 DEF RaceInv, TypeOK, ScheduledPaid, CancelSession
  <2>2. CASE u = LearnerOf[origin[x]]
    <3>1. Holding(u)' = Holding(u) \ {x} /\ x \in Holding(u)
      BY <2>1, <2>2 DEF Holding
    <3>2. Cardinality(Holding(u)') = Cardinality(Holding(u)) - 1
      BY <3>1, HoldingCounts, FS_RemoveElement
    <3>3. QED
      BY <1>1, <2>1, <2>2, <3>2, HoldingCounts, Times
  <2>3. CASE u # LearnerOf[origin[x]]
    <3>1. Holding(u)' = Holding(u)
      BY <2>1, <2>3 DEF Holding
    <3>2. QED
      BY <1>1, <2>1, <2>3, <3>1
  <2>4. QED
    BY <2>2, <2>3
<1>5. QED
  BY <1>2, <1>3, <1>4, SessionSteps

\* Every learner's credits are what they started with less what their scheduled
\* sessions cost, for any number of racing acceptances, cancellations and runs of
\* the job (booking.service.ts:170-216).
THEOREM DebitsExact == Spec => []DebitsMatchSessions
<1>1. Init => RaceInv /\ DebitsMatchSessions
  BY InitRace, InitDebits
<1>2. RaceInv /\ DebitsMatchSessions /\ [Next]_vars => (RaceInv /\ DebitsMatchSessions)'
  BY NextRace, NextDebits
<1>3. QED
  BY <1>1, <1>2, PTL DEF Spec

-----------------------------------------------------------------------------
(* The escrow. *)

LEMMA InitEscrow == Init => AsEscrow!Init
BY DEF Init, AsEscrow!Init, Payer, Stage

LEMMA HoldStep ==
  ASSUME RaceInv, NEW h \in Handlers, NEW x \in SessionIds, AcceptCommit(h, x)
  PROVE  AsEscrow!Next
<1> DEFINE r == call[h].req
           u == LearnerOf[r]
<1>1. r \in ReqIds /\ u \in Learners /\ u # None
  BY RequestConstants DEF RaceInv, CallNamesRequest, AcceptCommit, NoCall
<1>2. /\ state[x] = "FREE"
      /\ \A y \in SessionIds : state'[y] = IF y = x THEN "SCHEDULED" ELSE state[y]
      /\ \A y \in SessionIds : origin'[y] = IF y = x THEN r ELSE origin[y]
  BY DEF RaceInv, TypeOK, AcceptCommit
<1>3. Stage[x] = "free" /\ Stage' = [Stage EXCEPT ![x] = "held"]
  BY <1>2 DEF Stage
<1>4. Payer' = [Payer EXCEPT ![x] = u]
  BY <1>2 DEF Payer
<1>5. balance[u] >= Cost /\ balance' = [balance EXCEPT ![u] = @ - Cost] /\ paid' = [paid EXCEPT ![x] = Cost]
  BY DEF AcceptCommit, Debit
<1>6. AsEscrow!Hold(x, u, Cost)
  BY <1>1, <1>3, <1>4, <1>5 DEF AsEscrow!Hold
<1>7. QED
  BY <1>1, <1>6 DEF AsEscrow!Next

LEMMA RefundStep ==
  ASSUME RaceInv, NEW x \in SessionIds, CancelSession(x)
  PROVE  AsEscrow!Next
<1>1. /\ state[x] = "SCHEDULED"
      /\ \A y \in SessionIds : state'[y] = IF y = x THEN "CANCELLED" ELSE state[y]
      /\ origin' = origin
  BY DEF RaceInv, TypeOK, CancelSession
<1>2. Stage[x] = "held" /\ Stage' = [Stage EXCEPT ![x] = "refunded"]
  BY <1>1 DEF Stage
<1>3. Payer' = Payer /\ Payer[x] = LearnerOf[origin[x]]
  BY <1>1 DEF Payer
<1>4. balance' = [balance EXCEPT ![Payer[x]] = @ + paid[x]] /\ paid' = [paid EXCEPT ![x] = 0]
  BY <1>3 DEF CancelSession
<1>5. AsEscrow!Refund(x)
  BY <1>2, <1>3, <1>4 DEF AsEscrow!Refund, AsEscrow!Empty
<1>6. QED
  BY <1>5 DEF AsEscrow!Next

LEMMA EscrowStep == RaceInv /\ [Next]_vars => [AsEscrow!Next]_(AsEscrow!vars)
<1> SUFFICES ASSUME RaceInv, [Next]_vars PROVE [AsEscrow!Next]_(AsEscrow!vars)
  OBVIOUS
<1>1. CASE UNCHANGED <<origin, state, paid, balance>>
  BY <1>1 DEF AsEscrow!vars, Payer, Stage
<1>2. QED
  BY <1>1, SessionSteps, HoldStep, RefundStep

\* An acceptance takes its price from the learner once and for one session, and only
\* the end of that session gives it back, once and whole: however many acceptances of
\* however many requests race, and although the job has a refund of its own
\* (booking.service.ts:170-216, 310-328).
THEOREM EscrowRefinement == Spec => ImplementsEscrow
BY InitEscrow, EscrowStep, RaceInvariant, PTL DEF Spec, ImplementsEscrow, AsEscrow!Spec

-----------------------------------------------------------------------------
(* When no answer is written over a status it did not read. *)

\* An answer in flight has read its request open.
SeenOpen ==
  \A h \in Handlers :
    call[h].op \in {"accept", "insert", "reject", "cancel"} => call[h].seen = "PENDING"

NoticeInv == RaceInv /\ SeenOpen /\ NoticesStayTrue

LEMMA InitNotices == Init => NoticeInv
BY InitRace DEF Init, NoticeInv, SeenOpen, NoticesStayTrue, NoCall

\* A guarded step is a step.
LEMMA GuardedIsNext == [GuardedNext]_vars => [Next]_vars
BY DEF GuardedNext, Next

\* A call changes in a step of its own handler only, and keeps what it has read.
LEMMA CallSteps ==
  ASSUME RaceInv, [Next]_vars, NEW h \in Handlers
  PROVE  \/ call'[h] = call[h]
         \/ call'[h] = NoCall
         \/ AcceptCheck(h)
         \/ \E r \in ReqIds : CreateLoad(h, r) \/ AcceptLoad(h, r) \/ RejectLoad(h, r) \/ CancelLoad(h, r)
<1>0. call \in [Handlers -> Calls]
  BY DEF RaceInv, TypeOK
<1>1. ASSUME NEW g \in Handlers, Handle(g), g # h PROVE call'[h] = call[h]
  BY <1>0, <1>1 DEF Handle, Serve, Settle, CreateLoad, AcceptLoad, RejectLoad, CancelLoad, Load, CreateCommit,
                    AcceptCheck, AcceptCommit, RejectCommit, CancelCommit, Answer, Abandon, Send, Reply
<1>2. CASE Settle(h) \/ CreateCommit(h) \/ Abandon(h)
  BY <1>0, <1>2 DEF Settle, CreateCommit, AcceptCommit, RejectCommit, CancelCommit, Answer, Abandon, Reply
<1>3. ASSUME NEW j \in Expirers, Expire(j) \/ Mishap(j) PROVE call' = call
  BY <1>3 DEF Expire, Mishap, ExpireStart, ExpireFlip, ExpireSkip, ExpireDie, ExpireFail
<1>4. CASE AtRest \/ UNCHANGED vars \/ (\E r \in ReqIds : PassTime(r)) \/ (\E x \in SessionIds : CancelSession(x))
  BY <1>4 DEF AtRest, PassTime, CancelSession, vars
<1>5. CASE Serve(h)
  BY <1>2, <1>5 DEF Serve
<1>6. QED
  BY <1>1, <1>2, <1>3, <1>4, <1>5 DEF Next, Around, Handle

LEMMA NextSeen == RaceInv /\ SeenOpen /\ [Next]_vars => SeenOpen'
<1> SUFFICES ASSUME RaceInv, SeenOpen, [Next]_vars, NEW h \in Handlers,
                    call'[h].op \in {"accept", "insert", "reject", "cancel"}
             PROVE  call'[h].seen = "PENDING"
  BY DEF SeenOpen
<1>0. call \in [Handlers -> Calls]
  BY DEF RaceInv, TypeOK
<1>1. CASE call'[h] = call[h]
  BY <1>1 DEF SeenOpen
<1>2. CASE call'[h] = NoCall
  BY <1>2 DEF NoCall
<1>3. CASE AcceptCheck(h)
  <2>1. call'[h] = [call[h] EXCEPT !.op = "insert"] /\ call[h].op = "accept" /\ call[h].seen = "PENDING"
    BY <1>0, <1>3 DEF AcceptCheck, SeenOpen
  <2>2. QED
    BY <1>0, <2>1 DEF Calls
<1>4. ASSUME NEW r \in ReqIds, AcceptLoad(h, r) \/ RejectLoad(h, r) \/ CancelLoad(h, r)
      PROVE  call'[h].seen = "PENDING"
  BY <1>0, <1>4 DEF AcceptLoad, RejectLoad, CancelLoad, Load, Send, Answerable
<1>5. ASSUME NEW r \in ReqIds, CreateLoad(h, r) PROVE call'[h].op = "create"
  BY <1>0, <1>5 DEF CreateLoad, Send
<1>6. QED
  BY <1>1, <1>2, <1>3, <1>4, <1>5, CallSteps

\* The steps that write a status, each by what it writes.
Created(r)     == status[r] = "ABSENT" /\ status' = [status EXCEPT ![r] = "PENDING"]
                    /\ inbox' = [inbox EXCEPT ![r] = @ \cup {"requested"}]
Answered(r)    == status[r] = "PENDING" /\ \E a \in {<<"ACCEPTED", "accepted">>, <<"REJECTED", "rejected">>,
                                                   <<"CANCELLED", "cancelled">>, <<"EXPIRED", "expired">>} :
                    /\ status' = [status EXCEPT ![r] = a[1]]
                    /\ inbox' = [inbox EXCEPT ![r] = @ \cup {a[2]}]
Unanswered     == UNCHANGED status /\ \/ UNCHANGED inbox
                                      \/ \E r \in ReqIds : inbox' = [inbox EXCEPT ![r] = @ \cup {"expired"}]

LEMMA CreateWrites ==
  ASSUME RaceInv, NEW h \in Handlers, CreateCommit(h)
  PROVE  call[h].req \in ReqIds /\ Created(call[h].req)
<1>1. call[h] # NoCall /\ call[h].op = "create"
  BY DEF CreateCommit, NoCall
<1>2. QED
  BY <1>1 DEF RaceInv, CallNamesRequest, CreatesAlone, CreateCommit, Created, SetStatus, Tell

LEMMA AroundWrites ==
  ASSUME RaceInv, Around \/ UNCHANGED vars
  PROVE  \/ \E r \in ReqIds : Created(r) \/ Answered(r)
         \/ Unanswered
<1> USE DEF SetStatus, Tell
<1>1. ASSUME NEW j \in Expirers, NEW r \in ReqIds, NEW x \in SessionIds \cup {None}, ExpireFlip(j, r, x)
      PROVE  Answered(r)
  BY <1>1 DEF ExpireFlip, StillPending, Answered
<1>2. ASSUME NEW j \in Expirers, NEW r \in ReqIds, NEW x \in SessionIds \cup {None}, ExpireSkip(j, r, x)
      PROVE  Unanswered
  BY <1>2 DEF ExpireSkip, Unanswered
<1>3. ASSUME UNCHANGED <<status, inbox>> PROVE Unanswered
  BY <1>3 DEF Unanswered
<1>4. ASSUME NEW h \in Handlers, Serve(h) PROVE CreateCommit(h) \/ UNCHANGED <<status, inbox>>
  BY <1>4 DEF Serve, CreateLoad, AcceptLoad, RejectLoad, CancelLoad, Load, AcceptCheck, Abandon
<1>5. ASSUME NEW j \in Expirers, Expire(j) \/ Mishap(j) PROVE
         \/ \E r \in ReqIds, x \in SessionIds \cup {None} : ExpireFlip(j, r, x) \/ ExpireSkip(j, r, x)
         \/ UNCHANGED <<status, inbox>>
  BY <1>5 DEF Expire, Mishap, ExpireStart, ExpireDie, ExpireFail
<1>6. CASE \/ AtRest \/ UNCHANGED vars \/ (\E r \in ReqIds : PassTime(r))
           \/ (\E x \in SessionIds : CancelSession(x))
  BY <1>3, <1>6 DEF AtRest, PassTime, CancelSession, vars
<1>7. QED
  BY <1>1, <1>2, <1>3, <1>4, <1>5, <1>6, CreateWrites DEF Around

LEMMA GuardedWrites ==
  ASSUME NoticeInv, [GuardedNext]_vars
  PROVE  \/ \E r \in ReqIds : Created(r) \/ Answered(r)
         \/ Unanswered
<1>1. ASSUME NEW h \in Handlers, Settle(h), Unchanged(h)
      PROVE  call[h].req \in ReqIds /\ Answered(call[h].req)
  <2>1. call[h].op \in {"insert", "reject", "cancel"} /\ call[h] # NoCall
    BY <1>1 DEF Settle, AcceptCommit, RejectCommit, CancelCommit, Answer, NoCall
  <2>2. call[h].req \in ReqIds /\ status[call[h].req] = "PENDING"
    BY <1>1, <2>1 DEF NoticeInv, RaceInv, CallNamesRequest, SeenOpen, Unchanged
  <2>3. QED
    BY <1>1, <2>2 DEF Settle, AcceptCommit, RejectCommit, CancelCommit, Answer, Answered, SetStatus, Tell
<1>2. QED
  BY <1>1, AroundWrites DEF NoticeInv, GuardedNext

\* Answers are final, and notices are about them.
LEMMA NextNotices ==
  ASSUME NoticeInv, [GuardedNext]_vars
  PROVE  /\ NoticesStayTrue'
         /\ \A r \in ReqIds : status[r] \in Final => status'[r] = status[r]
<1>0. status \in [ReqIds -> Statuses] /\ inbox \in [ReqIds -> SUBSET Kinds]
  BY DEF NoticeInv, RaceInv, TypeOK
<1>1. CASE Unanswered
  BY <1>0, <1>1 DEF Unanswered, NoticeInv, NoticesStayTrue
\* What is told of an open request, and what becomes of it.
<1>2. ASSUME NEW r \in ReqIds, status[r] \in {"ABSENT", "PENDING"},
             NEW st \in Statuses, NEW kind \in Kinds,
             status' = [status EXCEPT ![r] = st], inbox' = [inbox EXCEPT ![r] = @ \cup {kind}],
             kind = "accepted" => st = "ACCEPTED",
             kind = "rejected" => st = "REJECTED",
             kind = "cancelled" => st = "CANCELLED"
      PROVE  /\ NoticesStayTrue'
             /\ \A q \in ReqIds : status[q] \in Final => status'[q] = status[q]
  <2>1. /\ \A q \in ReqIds \ {r} : status'[q] = status[q] /\ inbox'[q] = inbox[q]
        /\ status'[r] = st /\ inbox'[r] = inbox[r] \cup {kind}
    BY <1>0, <1>2
  <2>2. "accepted" \notin inbox[r] /\ "rejected" \notin inbox[r] /\ "cancelled" \notin inbox[r]
    BY <1>2 DEF NoticeInv, NoticesStayTrue
  <2>3. /\ "accepted" \in inbox'[r] => status'[r] = "ACCEPTED"
        /\ "rejected" \in inbox'[r] => status'[r] = "REJECTED"
        /\ "cancelled" \in inbox'[r] => status'[r] = "CANCELLED"
    BY ONLY <1>2, <2>1, <2>2
  <2>4. NoticesStayTrue'
    BY <2>1, <2>3 DEF NoticeInv, NoticesStayTrue
  <2>5. status[r] \notin Final
    BY <1>2 DEF Final
  <2>6. QED
    BY <2>1, <2>4, <2>5
<1>3. ASSUME NEW r \in ReqIds, Created(r)
      PROVE  /\ NoticesStayTrue'
             /\ \A q \in ReqIds : status[q] \in Final => status'[q] = status[q]
  BY <1>2, <1>3 DEF Created, Statuses, Kinds
<1>4. ASSUME NEW r \in ReqIds, Answered(r)
      PROVE  /\ NoticesStayTrue'
             /\ \A q \in ReqIds : status[q] \in Final => status'[q] = status[q]
  <2>1. PICK a \in {<<"ACCEPTED", "accepted">>, <<"REJECTED", "rejected">>,
                    <<"CANCELLED", "cancelled">>, <<"EXPIRED", "expired">>} :
          status' = [status EXCEPT ![r] = a[1]] /\ inbox' = [inbox EXCEPT ![r] = @ \cup {a[2]}]
    BY <1>4 DEF Answered
  <2>2. /\ a[1] \in Statuses /\ a[2] \in Kinds
        /\ a[2] = "accepted" => a[1] = "ACCEPTED"
        /\ a[2] = "rejected" => a[1] = "REJECTED"
        /\ a[2] = "cancelled" => a[1] = "CANCELLED"
    BY DEF Statuses, Kinds
  <2>3. status[r] \in {"ABSENT", "PENDING"}
    BY <1>4 DEF Answered
  <2> QED
    BY <1>2, <2>1, <2>2, <2>3
<1>5. QED
  BY <1>1, <1>3, <1>4, GuardedWrites

LEMMA NoticeInvariance == NoticeInv /\ [GuardedNext]_vars => NoticeInv'
BY GuardedIsNext, NextRace, NextSeen, NextNotices DEF NoticeInv

\* What a notice says stays on record (booking.service.ts:218-283), once an answer
\* repeats the status it read.
THEOREM NoticesTrue == GuardedSpec => []NoticesStayTrue
<1>1. NoticeInv => NoticesStayTrue
  BY DEF NoticeInv
<1>2. QED
  BY <1>1, InitNotices, NoticeInvariance, PTL DEF GuardedSpec

\* An answer is final (booking.service.ts:152, 237, 265), once it repeats the status
\* it read; nothing need be said of overlapping answers, creations or runs of the job.
THEOREM OneAnswer == GuardedSpec => AnsweredOnce
<1>1. NoticeInv /\ [GuardedNext]_vars
        => [\A r \in ReqIds : status[r] \in Final => status'[r] = status[r]]_vars
  BY NextNotices
<1>2. QED
  BY <1>1, InitNotices, NoticeInvariance, PTL DEF GuardedSpec, AnsweredOnce

-----------------------------------------------------------------------------
(* When overlapping acceptances, and creations of one learner, wait for each    *)
(* other.                                                                       *)

\* What the query of a call in flight has found is still so.
Checked ==
  \A h \in Handlers :
    /\ call[h].op = "create" => ~Duplicate(call[h].req)
    /\ call[h].op = "insert" => Conflicts(call[h].req) = {}

SerialInv == RaceInv /\ Serial /\ Checked /\ OneOpenRequest /\ NeverDoubleBooked

LEMMA InitSerial == Init => SerialInv
BY InitRace DEF Init, SerialInv, Serial, Accepting, Creating, Checked, OneOpenRequest, NeverDoubleBooked, NoCall

\* A request opens in a creation only.
LEMMA Opens ==
  ASSUME RaceInv, [Next]_vars, NEW r \in ReqIds, status'[r] = "PENDING", status[r] # "PENDING"
  PROVE  \E g \in Handlers : CreateCommit(g) /\ call[g].req = r
<1>0. status \in [ReqIds -> Statuses]
  BY DEF RaceInv, TypeOK
<1>1. ASSUME NEW h \in Handlers, Settle(h) PROVE FALSE
  BY <1>0, <1>1 DEF Settle, AcceptCommit, RejectCommit, CancelCommit, Answer, SetStatus
<1>2. ASSUME NEW h \in Handlers, Serve(h) PROVE CreateCommit(h) /\ call[h].req = r
  BY <1>0, <1>2 DEF Serve, CreateLoad, AcceptLoad, RejectLoad, CancelLoad, Load, AcceptCheck, Abandon,
                    CreateCommit, SetStatus
<1>3. ASSUME NEW j \in Expirers, Expire(j) \/ Mishap(j) PROVE FALSE
  BY <1>0, <1>3 DEF Expire, Mishap, ExpireStart, ExpireFlip, ExpireSkip, ExpireDie, ExpireFail, SetStatus
<1>4. QED
  BY <1>1, <1>2, <1>3 DEF Next, Around, AtRest, PassTime, CancelSession, vars

\* A session is scheduled by an acceptance only, for its request.
LEMMA Schedules ==
  ASSUME RaceInv, [Next]_vars, NEW x \in SessionIds, state'[x] = "SCHEDULED"
  PROVE  \/ state[x] = "SCHEDULED" /\ origin'[x] = origin[x]
         \/ \E g \in Handlers : AcceptCommit(g, x) /\ origin'[x] = call[g].req
<1>0. /\ state \in [SessionIds -> {"FREE", "SCHEDULED", "CANCELLED"}]
      /\ origin \in [SessionIds -> ReqIds \cup {None}]
  BY DEF RaceInv, TypeOK
<1>1. ASSUME NEW g \in Handlers, NEW y \in SessionIds, AcceptCommit(g, y)
      PROVE  \/ state[x] = "SCHEDULED" /\ origin'[x] = origin[x]
             \/ AcceptCommit(g, x) /\ origin'[x] = call[g].req
  <2>1. CASE x = y
    BY <1>0, <1>1, <2>1 DEF AcceptCommit
  <2>2. CASE x # y
    BY <1>0, <1>1, <2>2 DEF AcceptCommit
  <2>3. QED
    BY <2>1, <2>2
<1>2. ASSUME NEW y \in SessionIds, CancelSession(y)
      PROVE  state[x] = "SCHEDULED" /\ origin'[x] = origin[x]
  BY <1>0, <1>2 DEF CancelSession
<1>3. QED
  BY <1>1, <1>2, SessionSteps

LEMMA NextChecked ==
  ASSUME SerialInv, [Next]_vars
  PROVE  Checked'
<1> SUFFICES ASSUME NEW h \in Handlers
             PROVE  /\ call'[h].op = "create" => ~Duplicate(call[h].req)'
                    /\ call'[h].op = "insert" => Conflicts(call[h].req)' = {}
  BY DEF Checked, Duplicate, Conflicts
<1>0. call \in [Handlers -> Calls] /\ RaceInv
  BY DEF SerialInv, RaceInv, TypeOK
<1>1. CASE call'[h] = call[h]
  <2>1. ASSUME call[h].op = "create" PROVE ~Duplicate(call[h].req)'
    <3>1. ASSUME NEW q \in ReqIds, status'[q] = "PENDING", LearnerOf[q] = LearnerOf[call[h].req]
          PROVE  FALSE
      <4>1. status[q] # "PENDING"
        BY <2>1, <3>1 DEF SerialInv, Checked, Duplicate
      <4>2. PICK g \in Handlers : CreateCommit(g) /\ call[g].req = q
        BY <1>0, <3>1, <4>1, Opens
      <4>3. g # h /\ call[g].op = "create"
        BY <1>0, <1>1, <2>1, <4>2 DEF CreateCommit, Reply, NoCall
      <4>4. QED
        BY <2>1, <3>1, <4>2, <4>3 DEF SerialInv, Serial, Creating
    <3>2. call'[h].req = call[h].req
      BY <1>1
    <3>3. QED
      BY <3>1, <3>2 DEF Duplicate
  <2>2. ASSUME call[h].op = "insert" PROVE Conflicts(call[h].req)' = {}
    <3>1. ASSUME NEW x \in SessionIds, state'[x] = "SCHEDULED", Overlaps(origin'[x], call[h].req)
          PROVE  FALSE
      <4>1. CASE state[x] = "SCHEDULED" /\ origin'[x] = origin[x]
        BY <2>2, <3>1, <4>1 DEF SerialInv, Checked, Conflicts
      <4>2. ASSUME NEW g \in Handlers, AcceptCommit(g, x), origin'[x] = call[g].req
            PROVE  FALSE
        <5>1. g # h /\ call[g].op = "insert"
          BY <1>0, <1>1, <2>2, <4>2 DEF AcceptCommit, Reply, NoCall
        <5>2. QED
          BY <2>2, <3>1, <4>2, <5>1 DEF SerialInv, Serial, Accepting
      <4>3. QED
        BY <1>0, <3>1, <4>1, <4>2, Schedules
    <3>2. call'[h].req = call[h].req
      BY <1>1
    <3>3. QED
      BY <3>1, <3>2 DEF Conflicts, Overlaps
  <2>3. QED
    BY <1>1, <2>1, <2>2
<1>2. CASE call'[h] = NoCall
  BY <1>2 DEF NoCall
<1>3. CASE AcceptCheck(h)
  <2>1. call'[h] = [call[h] EXCEPT !.op = "insert"] /\ UNCHANGED <<origin, state>>
    BY <1>0, <1>3 DEF AcceptCheck, sessions
  <2>2. call'[h].op = "insert" /\ call'[h].req = call[h].req
    BY <1>0, <2>1 DEF Calls
  <2>3. QED
    BY <1>3, <2>1, <2>2 DEF AcceptCheck, Conflicts, Overlaps
<1>4. ASSUME NEW r \in ReqIds, AcceptLoad(h, r) \/ RejectLoad(h, r) \/ CancelLoad(h, r)
      PROVE  call'[h].op \in {"accept", "reject", "cancel"}
  BY <1>0, <1>4 DEF AcceptLoad, RejectLoad, CancelLoad, Load, Send
<1>5. ASSUME NEW r \in ReqIds, CreateLoad(h, r)
      PROVE  call'[h].op = "create" /\ ~Duplicate(call[h].req)'
  BY <1>0, <1>5 DEF CreateLoad, Send, Duplicate
<1>6. QED
  BY <1>0, <1>1, <1>2, <1>3, <1>4, <1>5, CallSteps

LEMMA NextOpen ==
  ASSUME SerialInv, [Next]_vars
  PROVE  OneOpenRequest'
<1>0. RaceInv
  BY DEF SerialInv
<1>1. ASSUME NEW r \in ReqIds, NEW q \in ReqIds, status'[r] = "PENDING", status'[q] = "PENDING",
             LearnerOf[r] = LearnerOf[q], status[r] # "PENDING"
      PROVE  r = q
  <2>1. PICK g \in Handlers : CreateCommit(g) /\ call[g].req = r
    BY <1>0, <1>1, Opens
  <2>2. \A p \in ReqIds : LearnerOf[p] = LearnerOf[r] => status[p] # "PENDING"
    BY <2>1 DEF SerialInv, Checked, Duplicate, CreateCommit
  <2>3. status[q] # "PENDING"
    BY <1>1, <2>2
  <2>4. PICK f \in Handlers : CreateCommit(f) /\ call[f].req = q
    BY <1>0, <1>1, <2>3, Opens
  <2>5. f = g
    BY <1>1, <2>1, <2>4 DEF SerialInv, Serial, Creating, CreateCommit
  <2>6. QED
    BY <2>1, <2>4, <2>5
<1>2. QED
  BY <1>1 DEF SerialInv, OneOpenRequest

LEMMA NextBooked ==
  ASSUME SerialInv, [Next]_vars
  PROVE  NeverDoubleBooked'
<1>0. RaceInv
  BY DEF SerialInv
<1>1. ASSUME NEW h \in Handlers, NEW x \in SessionIds, AcceptCommit(h, x) PROVE NeverDoubleBooked'
  <2>1. Conflicts(call[h].req) = {}
    BY <1>1 DEF SerialInv, Checked, AcceptCommit
  <2>2. /\ \A y \in SessionIds : state'[y] = IF y = x THEN "SCHEDULED" ELSE state[y]
        /\ \A y \in SessionIds : origin'[y] = IF y = x THEN call[h].req ELSE origin[y]
    BY <1>0, <1>1 DEF AcceptCommit, RaceInv, TypeOK
  <2>3. QED
    BY <2>1, <2>2 DEF SerialInv, NeverDoubleBooked, Conflicts, Overlaps
<1>2. ASSUME NEW x \in SessionIds, CancelSession(x) PROVE NeverDoubleBooked'
  BY <1>0, <1>2 DEF CancelSession, SerialInv, NeverDoubleBooked, RaceInv, TypeOK
<1>3. CASE UNCHANGED <<origin, state>>
  BY <1>3 DEF SerialInv, NeverDoubleBooked
<1>4. QED
  BY <1>0, <1>1, <1>2, <1>3, SessionSteps

LEMMA SerialInvariance == SerialInv /\ [Next /\ Serial']_vars => SerialInv'
<1> SUFFICES ASSUME SerialInv, [Next /\ Serial']_vars PROVE SerialInv'
  OBVIOUS
<1>1. [Next]_vars
  OBVIOUS
<1>2. Serial'
  <2>1. UNCHANGED vars => call' = call
    BY DEF vars
  <2>2. QED
    BY <2>1 DEF SerialInv, Serial, Accepting, Creating
<1>3. QED
  BY <1>1, <1>2, NextRace, NextChecked, NextOpen, NextBooked DEF SerialInv

\* The mentor is never booked twice at one time by acceptances that wait for each
\* other when their times overlap (booking.service.ts:171-180), whatever answers,
\* other acceptances, the job and cancellations do meanwhile.
THEOREM NoDoubleBooking == SerialSpec => []NeverDoubleBooked
<1>1. SerialInv => NeverDoubleBooked
  BY DEF SerialInv
<1>2. QED
  BY <1>1, InitSerial, SerialInvariance, PTL DEF SerialSpec

\* A learner whose creations wait for each other has one open request at most
\* (booking.service.ts:62).
THEOREM OneRequest == SerialSpec => []OneOpenRequest
<1>1. SerialInv => OneOpenRequest
  BY DEF SerialInv
<1>2. QED
  BY <1>1, InitSerial, SerialInvariance, PTL DEF SerialSpec

\* With both repairs the code keeps all four promises at once; the run checks them so.
THEOREM Repaired ==
  RepairedSpec => [](NoticesStayTrue /\ NeverDoubleBooked /\ OneOpenRequest) /\ AnsweredOnce
<1>1. [GuardedNext /\ Serial']_vars => [GuardedNext]_vars /\ [Next /\ Serial']_vars
  BY GuardedIsNext
<1>2. RepairedSpec => GuardedSpec /\ SerialSpec
  BY <1>1, PTL DEF RepairedSpec, GuardedSpec, SerialSpec
<1>3. QED
  BY <1>2, NoticesTrue, OneAnswer, NoDoubleBooking, OneRequest, PTL
=============================================================================

--------------------------- MODULE ServicesProofs ---------------------------
(***************************************************************************)
(* The smaller services, each by an invariant of its own: what a request   *)
(* in flight has read is either still so or the ghost that excuses it is   *)
(* set.                                                                    *)
(***************************************************************************)
EXTENDS MCServices, Roles, CalendarProofs, SeedProofs

-----------------------------------------------------------------------------
(* Lockout. *)

LockInv == LockTypeOK /\ LockoutExact

LEMMA Zeroes == [attempts |-> 0, until |-> 0] \in Columns
BY LockoutConstants DEF Columns

LEMMA DoneType ==
  ASSUME LockTypeOK, NEW l \in Logins, Done(l)
  PROVE  login' \in [Logins -> [busy : BOOLEAN, seen : Columns]]
BY Zeroes DEF LockTypeOK, Done

LEMMA LockStep == LockInv /\ [LockNext]_lockVars => LockInv'
<1> SUFFICES ASSUME LockInv, [LockNext]_lockVars PROVE LockInv'
  OBVIOUS
<1>0. LockTypeOK /\ LockoutExact
  BY DEF LockInv
<1>1. ASSUME NEW l \in Logins, LoadUser(l) PROVE LockInv'
  BY <1>0, <1>1 DEF LoadUser, LockInv, LockTypeOK, LockoutExact
<1>2. ASSUME NEW l \in Logins, WrongPassword(l) PROVE LockInv'
  <2> DEFINE seen == login[l].seen
  <2>1. /\ lock' = [attempts |-> seen.attempts + 1,
                    until |-> IF ShouldLock(seen.attempts + 1) THEN tick + LockTime ELSE seen.until]
        /\ failures' = [count |-> failures.count + 1, last |-> tick]
        /\ stale' = (stale \/ seen # lock) /\ tick' = tick
        /\ Done(l)
        /\ seen.attempts < MaxTries /\ failures.count < MaxTries
    BY <1>2 DEF WrongPassword
  <2>2. seen \in Columns
    BY <1>0 DEF LockTypeOK
  <2>3. LockTypeOK'
    <3>1. lock' \in Columns
      BY <1>0, <2>1, <2>2, LockoutConstants DEF LockTypeOK, Columns
    <3>2. QED
      BY <1>0, <2>1, <3>1, DoneType, LockoutConstants DEF LockTypeOK
  <2>4. ASSUME ~stale' PROVE LockoutExact'
    <3>1. ~stale /\ seen = lock
      BY <2>1, <2>4
    <3>2. QED
      BY <1>0, <2>1, <3>1, LockoutConstants DEF LockTypeOK, Columns, LockoutExact, ShouldLock
  <2>5. QED
    BY <2>3, <2>4 DEF LockInv, LockoutExact
<1>3. ASSUME NEW l \in Logins, RightPassword(l) PROVE LockInv'
  <2>1. /\ lock' = [attempts |-> 0, until |-> 0] /\ failures' = [count |-> 0, last |-> 0]
        /\ Done(l) /\ UNCHANGED <<tick, stale>>
    BY <1>3 DEF RightPassword
  <2>2. LockTypeOK'
    BY <1>0, <2>1, DoneType, Zeroes, LockoutConstants DEF LockTypeOK
  <2>3. LockoutExact'
    BY <2>1, LockoutConstants DEF LockoutExact
  <2>4. QED
    BY <2>2, <2>3 DEF LockInv
<1>4. ASSUME NEW l \in Logins, DropLogin(l) PROVE LockInv'
  BY <1>0, <1>4, DoneType DEF DropLogin, LockInv, LockTypeOK, LockoutExact
<1>5. CASE LockTick \/ UNCHANGED lockVars
  BY <1>0, <1>5, LockoutConstants DEF LockTick, LockInv, LockTypeOK, LockoutExact, lockVars
<1>6. QED
  BY <1>1, <1>2, <1>3, <1>4, <1>5 DEF LockNext

LEMMA LockInvariant == LockInit /\ [][LockNext]_lockVars => []LockInv
<1>1. LockInit => LockInv
  <2> SUFFICES ASSUME LockInit PROVE LockInv
    OBVIOUS
  <2>1. lock = [attempts |-> 0, until |-> 0] /\ lock \in Columns
    BY Zeroes DEF LockInit
  <2>2. login \in [Logins -> [busy : BOOLEAN, seen : Columns]]
    BY <2>1 DEF LockInit
  <2>3. tick \in 1 .. LastTick /\ failures \in [count : 0 .. MaxTries, last : 0 .. LastTick] /\ stale = FALSE
    BY LockoutConstants DEF LockInit
  <2>4. LockoutExact
    BY <2>1, LockoutConstants DEF LockInit, LockoutExact
  <2>5. QED
    BY <2>1, <2>2, <2>3, <2>4 DEF LockInv, LockTypeOK
<1>2. QED
  BY <1>1, LockStep, PTL

\* However many logins overlap, the counter and the lock are exact as long as no
\* failed login wrote back what had changed (auth.service.ts:192).
THEOREM LockoutHolds == LockInit /\ [][LockNext]_lockVars => []LockoutExact
<1>1. LockInv => LockoutExact
  BY DEF LockInv
<1>2. QED
  BY <1>1, LockInvariant, PTL

-----------------------------------------------------------------------------
(* Weekly rules. *)

\* What a request has checked holds until another one writes.
EditsChecked ==
  \A c \in RuleCalls : editor[c] # NoEdit /\ ~editor[c].crossed =>
    \A q \in RuleIds \ {editor[c].id} : ~RuleBlocks(q, editor[c].new)

Edits == [at : {"checked"}, id : RuleIds, new : Rule, crossed : BOOLEAN]

RuleInv ==
  /\ rule \in [RuleIds -> Rule] /\ apart \in BOOLEAN
  /\ editor \in [RuleCalls -> Edits \cup {NoEdit}]
  /\ EditsChecked /\ ActiveRulesApart

LEMMA RuleStep == RuleInv /\ [RuleNext]_ruleVars => RuleInv'
<1> SUFFICES ASSUME RuleInv, [RuleNext]_ruleVars PROVE RuleInv'
  OBVIOUS
<1> USE DEF RuleInv
<1>0. NoRule \in Rule /\ NoEdit \notin Edits /\ NoRule.state = "absent"
  BY RuleConstants DEF NoRule, Rule, RuleTimes, NoEdit, Edits
<1>1. ASSUME NEW c \in RuleCalls, NEW r \in RuleIds, NEW new \in NewRules, NEW except, Edit(c, r, new, except),
             except = {r} \/ (except = {} /\ rule[r].state = "absent")
      PROVE  RuleInv'
  <2>1. /\ new \in Rule /\ rule' = rule /\ apart' = apart
        /\ \A d \in RuleCalls : editor'[d] = IF d = c THEN [at |-> "checked", id |-> r, new |-> new, crossed |-> FALSE]
                                               ELSE editor[d]
    BY <1>1 DEF Edit, NewRules
  <2>2. \A q \in RuleIds \ {r} : ~RuleBlocks(q, new)
    BY <1>1 DEF Edit, NoOverlap
  <2>3. EditsChecked'
    BY <2>1, <2>2 DEF EditsChecked, RuleBlocks
  <2>4. editor' \in [RuleCalls -> Edits \cup {NoEdit}]
    BY <1>1, <2>1 DEF Edits, Edit
  <2>5. QED
    BY <2>1, <2>3, <2>4 DEF ActiveRulesApart
<1>2. ASSUME NEW c \in RuleCalls, WriteRule(c) PROVE RuleInv'
  <2> DEFINE e == editor[c]
  <2>1. /\ e \in Edits
        /\ \A q \in RuleIds : rule'[q] = IF q = e.id THEN e.new ELSE rule[q]
        /\ apart' = (apart /\ ~e.crossed)
        /\ rule' \in [RuleIds -> Rule]
    BY <1>2 DEF WriteRule, Edits
  <2>2. \A d \in RuleCalls : editor'[d] = NoEdit \/ (editor'[d] \in Edits /\ editor'[d].crossed)
    BY <1>2 DEF WriteRule, Edits
  <2>3. editor' \in [RuleCalls -> Edits \cup {NoEdit}]
    <3>1. DOMAIN editor' = RuleCalls /\ editor' = [d \in RuleCalls |-> editor'[d]]
      BY <1>2 DEF WriteRule
    <3>2. QED
      BY <2>2, <3>1
  <2>4. EditsChecked'
    BY <2>2 DEF EditsChecked
  <2>5. ASSUME apart' PROVE ActiveRulesApart'
    <3>1. \A q \in RuleIds \ {e.id} : ~RuleBlocks(q, e.new)
      BY <1>2, <2>1, <2>5 DEF EditsChecked, WriteRule
    <3>2. QED
      BY <2>1, <2>5, <3>1 DEF ActiveRulesApart, RuleBlocks, MinutesOverlap
  <2>6. QED
    BY <2>1, <2>3, <2>4, <2>5 DEF ActiveRulesApart
<1>3. ASSUME NEW r \in RuleIds, DeleteAvailability(r) PROVE RuleInv'
  <2>1. /\ \A q \in RuleIds : rule'[q] = IF q = r THEN NoRule ELSE rule[q]
        /\ rule' \in [RuleIds -> Rule] /\ apart' = apart
        /\ \A d \in RuleCalls : editor'[d] \in {editor[d], NoEdit}
        /\ editor' \in [RuleCalls -> Edits \cup {NoEdit}]
    BY <1>0, <1>3 DEF DeleteAvailability
  <2>2. EditsChecked'
    BY <1>0, <2>1 DEF EditsChecked, RuleBlocks
  <2>3. ActiveRulesApart'
    BY <1>0, <2>1 DEF ActiveRulesApart
  <2>4. QED
    BY <2>1, <2>2, <2>3
<1>4. ASSUME NEW c \in RuleCalls, DropEdit(c) PROVE RuleInv'
  BY <1>4 DEF DropEdit, EditsChecked, ActiveRulesApart, RuleBlocks
<1>5. CASE UNCHANGED ruleVars
  BY <1>5 DEF ruleVars, EditsChecked, ActiveRulesApart, RuleBlocks
<1>6. ASSUME NEW c \in RuleCalls, NEW r \in RuleIds, NEW new \in NewRules,
             CreateAvailability(c, r, new) \/ UpdateAvailability(c, r, new)
      PROVE  RuleInv'
  BY <1>1, <1>6 DEF CreateAvailability, UpdateAvailability
<1>7. QED
  BY <1>2, <1>3, <1>4, <1>5, <1>6 DEF RuleNext

LEMMA RuleInvariant == RuleInit /\ [][RuleNext]_ruleVars => []RuleInv
<1>1. RuleInit => RuleInv
  BY RuleConstants DEF RuleInit, RuleInv, EditsChecked, ActiveRulesApart, NoRule, Rule, RuleTimes, NoEdit
<1>2. QED
  BY <1>1, RuleStep, PTL

\* The active rules of a day are apart unless two requests crossed, for any number
\* of rules, requests and days (availability.service.ts:40, 67).
THEOREM RulesApart == RuleInit /\ [][RuleNext]_ruleVars => []ActiveRulesApart
<1>1. RuleInv => ActiveRulesApart
  BY DEF RuleInv
<1>2. QED
  BY <1>1, RuleInvariant, PTL

-----------------------------------------------------------------------------
(* Reminders. *)

\* A session is claimed by one run at most, and before anything is sent.
ClaimedFirst ==
  \A s \in Booked :
    /\ s \notin claimed => sent[s] = 0
    /\ \A j \in Runs : s \in claim[j] =>
         s \in claimed /\ sent[s] = 0 /\ \A i \in Runs \ {j} : s \notin claim[i]

\* What was known in time is claimed, on a list, or still ahead of the window of
\* the next run on schedule.
AheadOrSeen ==
  kills = 0 => \A s \in Scheduled : known[s] + ToTime <= startsAt[s] =>
    \/ s \in claimed \/ \E j \in Runs : s \in list[j]
    \/ lastRun + ToTime <= startsAt[s]

Clocks == lastRun \in Nat /\ minute \in Nat /\ lastRun <= minute /\ minute <= lastRun + Cadence

RemindInv ==
  /\ startsAt \in [Booked -> Int] /\ known \in [Booked -> Int] /\ sent \in [Booked -> Nat]
  /\ off \subseteq Booked /\ claimed \subseteq Booked /\ kills \in Nat
  /\ list \in [Runs -> SUBSET Booked] /\ claim \in [Runs -> SUBSET Booked]
  /\ \A j \in Runs, s \in Booked : s \in list[j] \cup claim[j] => known[s] >= 0
  /\ Clocks /\ ClaimedFirst /\ RemindedOnce /\ AheadOrSeen

LEMMA RemindStep == RemindInv /\ [ReminderNext]_reminderVars => RemindInv'
<1> SUFFICES ASSUME RemindInv, [ReminderNext]_reminderVars PROVE RemindInv'
  OBVIOUS
<1> USE ReminderConstants
<1>1. ASSUME NEW s \in Booked, CancelSession(s) PROVE RemindInv'
  BY <1>1 DEF CancelSession, RemindInv, Clocks, ClaimedFirst, RemindedOnce, AheadOrSeen, Scheduled
<1>2. ASSUME NEW s \in Booked, NEW at \in 1 .. LastTime, Schedule(s, at) PROVE RemindInv'
  <2>1. /\ known[s] < 0 /\ minute < at
        /\ \A q \in Booked : startsAt'[q] = IF q = s THEN at ELSE startsAt[q]
        /\ \A q \in Booked : known'[q] = IF q = s THEN minute ELSE known[q]
        /\ UNCHANGED <<off, claimed, sent, list, claim, lastRun, minute, kills>>
    BY <1>2 DEF Schedule, RemindInv
  <2>2. startsAt' \in [Booked -> Int] /\ known' \in [Booked -> Int]
    BY <1>2 DEF Schedule, RemindInv, Clocks
  <2>3. AheadOrSeen'
    BY <2>1 DEF AheadOrSeen, Scheduled, RemindInv, Clocks
  <2>4. QED
    BY <2>1, <2>2, <2>3 DEF RemindInv, Clocks, ClaimedFirst, RemindedOnce
<1>3. ASSUME NEW j \in Runs, Fire(j) PROVE RemindInv'
  <2> DEFINE due == {s \in Scheduled \ claimed : Due(s)}
  <2>1. /\ list[j] = {} /\ claim[j] = {}
        /\ lastRun' = IF minute = lastRun + Cadence THEN minute ELSE lastRun
        /\ \A i \in Runs : list'[i] = IF i = j THEN due ELSE list[i]
        /\ UNCHANGED <<startsAt, known, off, claimed, sent, claim, minute, kills>>
    BY <1>3 DEF Fire, RemindInv
  <2>2. list' \in [Runs -> SUBSET Booked]
    BY <1>3 DEF Fire, RemindInv, Scheduled
  <2>3. Clocks'
    BY <2>1 DEF Clocks, RemindInv
  <2>4. ASSUME kills = 0, NEW s \in Scheduled, known[s] + ToTime <= startsAt[s]
        PROVE  s \in claimed \/ (\E i \in Runs : s \in list'[i]) \/ lastRun' + ToTime <= startsAt[s]
    <3>0. s \in Booked
      BY DEF Scheduled
    <3>1. CASE \E i \in Runs : s \in list[i]
      BY <2>1, <3>1
    <3>2. CASE lastRun + ToTime <= startsAt[s] /\ s \notin claimed
      <4>1. lastRun' + ToTime <= startsAt[s] \/ Due(s)
        BY <2>1, <3>0, <3>2 DEF Due, RemindInv, Clocks
      <4>2. QED
        BY <2>1, <3>2, <4>1
    <3>3. QED
      BY <2>4, <3>1, <3>2 DEF RemindInv, AheadOrSeen
  <2>5. AheadOrSeen'
    BY <2>1, <2>4 DEF AheadOrSeen, Scheduled
  <2>6. \A i \in Runs, s \in Booked : s \in list'[i] \cup claim'[i] => known'[s] >= 0
    BY <2>1 DEF RemindInv, Scheduled
  <2>7. QED
    BY <2>1, <2>2, <2>3, <2>5, <2>6 DEF RemindInv, ClaimedFirst, RemindedOnce
<1>4. ASSUME NEW j \in Runs, NEW s \in Booked, Claim(j, s) PROVE RemindInv'
  <2>1. /\ s \in list[j] /\ claim[j] = {}
        /\ \A i \in Runs : list'[i] = IF i = j THEN list[i] \ {s} ELSE list[i]
        /\ list' \in [Runs -> SUBSET Booked]
        /\ UNCHANGED <<startsAt, known, off, sent, lastRun, minute, kills>>
    BY <1>4 DEF Claim, RemindInv
  <2>2. claimed' = claimed \cup {s}
    BY <1>4 DEF Claim, Unclaimed
  <2>3. AheadOrSeen'
    BY <2>1, <2>2 DEF AheadOrSeen, RemindInv, Scheduled
  <2>4. CASE s \notin claimed
    <3>1. /\ \A i \in Runs : claim'[i] = IF i = j THEN {s} ELSE claim[i]
          /\ claim' \in [Runs -> SUBSET Booked]
      BY <1>4, <2>4 DEF Claim, Unclaimed, RemindInv
    <3>2. ClaimedFirst'
      BY <2>1, <2>2, <2>4, <3>1 DEF ClaimedFirst, RemindInv
    <3>3. QED
      BY <2>1, <2>2, <2>3, <3>1, <3>2 DEF RemindInv, Clocks, RemindedOnce
  <2>5. CASE s \in claimed
    <3>1. UNCHANGED <<claim, claimed>>
      BY <1>4, <2>5 DEF Claim, Unclaimed
    <3>2. QED
      BY <2>1, <2>3, <3>1 DEF RemindInv, Clocks, RemindedOnce, ClaimedFirst
  <2>6. QED
    BY <2>4, <2>5
<1>5. ASSUME NEW j \in Runs, Send(j) PROVE RemindInv'
  <2>1. /\ \A s \in Booked : sent'[s] = sent[s] + IF s \in claim[j] THEN 1 ELSE 0
        /\ sent' \in [Booked -> Nat]
        /\ \A i \in Runs : claim'[i] = IF i = j THEN {} ELSE claim[i]
        /\ claim' \in [Runs -> SUBSET Booked]
        /\ UNCHANGED <<startsAt, known, off, claimed, list, lastRun, minute, kills>>
    BY <1>5 DEF Send, RemindInv
  <2>2. ClaimedFirst' /\ RemindedOnce'
    BY <2>1 DEF RemindInv, ClaimedFirst, RemindedOnce
  <2>3. QED
    BY <2>1, <2>2 DEF RemindInv, Clocks, AheadOrSeen, Scheduled
<1>6. ASSUME NEW j \in Runs, Kill(j) PROVE RemindInv'
  <2>1. /\ kills' = kills + 1
        /\ \A i \in Runs : list'[i] \subseteq list[i] /\ claim'[i] \subseteq claim[i]
        /\ list' \in [Runs -> SUBSET Booked] /\ claim' \in [Runs -> SUBSET Booked]
        /\ UNCHANGED <<startsAt, known, off, claimed, sent, lastRun, minute>>
    BY <1>6 DEF Kill, RemindInv
  <2>2. AheadOrSeen'
    BY <2>1 DEF AheadOrSeen, RemindInv
  <2>3. QED
    BY <2>1, <2>2 DEF RemindInv, Clocks, ClaimedFirst, RemindedOnce
<1>7. CASE Tick \/ UNCHANGED reminderVars
  BY <1>7 DEF Tick, reminderVars, RemindInv, Clocks, ClaimedFirst, RemindedOnce, AheadOrSeen, Scheduled
<1>8. QED
  BY <1>1, <1>2, <1>3, <1>4, <1>5, <1>6, <1>7 DEF ReminderNext

LEMMA RemindInvariant == ReminderInit /\ [][ReminderNext]_reminderVars => []RemindInv
<1>1. ReminderInit => RemindInv
  BY ReminderConstants DEF ReminderInit, RemindInv, Clocks, ClaimedFirst, RemindedOnce, AheadOrSeen, Scheduled
<1>2. QED
  BY <1>1, RemindStep, PTL

LEMMA ReminderTyped == ReminderInit /\ [][ReminderNext]_reminderVars => []ReminderTypeOK
<1> USE ReminderConstants
<1>1. ReminderInit => ReminderTypeOK
  BY DEF ReminderInit, ReminderTypeOK
<1>2. ReminderTypeOK /\ [ReminderNext]_reminderVars => ReminderTypeOK'
  <2> SUFFICES ASSUME ReminderTypeOK, [ReminderNext]_reminderVars PROVE ReminderTypeOK'
    OBVIOUS
  <2>1. ASSUME NEW s \in Booked, CancelSession(s) PROVE ReminderTypeOK'
    BY <2>1 DEF CancelSession, ReminderTypeOK
  <2>2. ASSUME NEW s \in Booked, NEW at \in 1 .. LastTime, Schedule(s, at) PROVE ReminderTypeOK'
    BY <2>2 DEF Schedule, ReminderTypeOK
  <2>3. ASSUME NEW j \in Runs, Fire(j) PROVE ReminderTypeOK'
    BY <2>3 DEF Fire, Scheduled, ReminderTypeOK
  <2>4. ASSUME NEW j \in Runs, NEW s \in Booked, Claim(j, s) PROVE ReminderTypeOK'
    BY <2>4 DEF Claim, ReminderTypeOK
  <2>5. ASSUME NEW j \in Runs, Send(j) PROVE ReminderTypeOK'
    BY <2>5 DEF Send, ReminderTypeOK
  <2>6. ASSUME NEW j \in Runs, Kill(j) PROVE ReminderTypeOK'
    BY <2>6 DEF Kill, ReminderTypeOK
  <2>7. CASE Tick \/ UNCHANGED reminderVars
    BY <2>7 DEF Tick, reminderVars, ReminderTypeOK
  <2>8. QED
    BY <2>1, <2>2, <2>3, <2>4, <2>5, <2>6, <2>7 DEF ReminderNext
<1>3. QED
  BY <1>1, <1>2, PTL

\* Nobody is reminded twice, however many runs overlap and are killed
\* (session.service.ts:550).
THEOREM OneReminder == ReminderInit /\ [][ReminderNext]_reminderVars => []RemindedOnce
<1>1. RemindInv => RemindedOnce
  BY DEF RemindInv
<1>2. QED
  BY <1>1, RemindInvariant, PTL

\* Windows that are at least as wide as the schedule's period leave no session
\* out, for every window, period and start (session.service.ts:532).
THEOREM EveryoneReminded == ReminderInit /\ [][ReminderNext]_reminderVars => []NobodyForgotten
<1>1. RemindInv => NobodyForgotten
  <2> SUFFICES ASSUME RemindInv, kills = 0, NEW s \in Scheduled,
                      known[s] + ToTime <= startsAt[s], minute + FromTime > startsAt[s]
               PROVE  s \in claimed \/ \E j \in Runs : s \in list[j]
    BY DEF NobodyForgotten
  <2>1. s \in Booked
    BY DEF Scheduled
  <2>2. ~(lastRun + ToTime <= startsAt[s])
    BY <2>1, ReminderConstants DEF RemindInv, Clocks
  <2>3. QED
    BY <2>2 DEF RemindInv, AheadOrSeen
<1>2. QED
  BY <1>1, RemindInvariant, PTL

-----------------------------------------------------------------------------
(* Reports. *)

\* The note a request has read is the one on record, unless it was overlapped.
NotesFresh ==
  \A m \in Moderators : handling[m].at = "read" /\ handling[m].id \notin overlapped =>
    handling[m].old = report[handling[m].id].note

\* What is going to be audited was written and is not counted yet.
AuditDue(m, r) == IF handling[m].at = "ok" /\ handling[m].id = r THEN 1 ELSE 0

AuditCovered == \A m \in Moderators, r \in ReportIds : auditLog[m][r] + AuditDue(m, r) <= written[m][r]

ReportRow == [status : ReportStatus \cup {"absent"}, note : Notes \cup {NoNote}, resolved : BOOLEAN]
Handling  == {Idle}
  \cup [at : {"read"}, id : ReportIds, status : Resolutions, note : Notes \cup {NoNote}, old : Notes \cup {NoNote}]
  \cup [at : {"ok", "failed"}, id : ReportIds]

ReportInv ==
  /\ report \in [ReportIds -> ReportRow]
  /\ handling \in [Moderators -> Handling]
  /\ written \in [Moderators -> [ReportIds -> Nat]] /\ auditLog \in [Moderators -> [ReportIds -> Nat]]
  /\ DOMAIN lastNote = ReportIds
  /\ NotesFresh /\ AuditCovered /\ NoteKept

\* A request that is over, or has not begun, concerns neither note nor audit.
LEMMA PhaseKeeps ==
  ASSUME ReportInv, NEW m \in Moderators, NEW p \in Handling, Phase(m, p), p.at \in {"idle", "failed"},
         UNCHANGED <<report, written, auditLog, lastNote, overlapped>>
  PROVE  ReportInv'
<1>1. \A n \in Moderators : handling'[n] = IF n = m THEN p ELSE handling[n]
  BY DEF Phase, ReportInv
<1>2. handling' \in [Moderators -> Handling]
  BY DEF Phase, ReportInv
<1>3. AuditCovered'
  <2> SUFFICES ASSUME NEW n \in Moderators, NEW r \in ReportIds PROVE (auditLog[n][r] + AuditDue(n, r) <= written[n][r])'
    BY DEF AuditCovered
  <2>1. auditLog[n][r] \in Nat /\ written[n][r] \in Nat /\ auditLog[n][r] + AuditDue(n, r) <= written[n][r]
    BY DEF ReportInv, AuditCovered
  <2>2. QED
    BY <1>1, <2>1 DEF AuditDue
<1>4. NotesFresh'
  BY <1>1 DEF ReportInv, NotesFresh
<1>5. QED
  BY <1>2, <1>3, <1>4 DEF ReportInv, NoteKept

LEMMA WriteKeeps ==
  ASSUME ReportInv, NEW m \in Moderators, WriteReport(m)
  PROVE  ReportInv'
<1> DEFINE h == handling[m]
           others == {n \in Moderators \ {m} : handling[n].at = "read" /\ handling[n].id = h.id}
           row == [status |-> h.status, note |-> NewNote(h), resolved |-> h.status \in {"RESOLVED", "DISMISSED"}]
<1>1. /\ h.at = "read"
      /\ report' = [report EXCEPT ![h.id] = row]
      /\ written' = [written EXCEPT ![m][h.id] = @ + 1]
      /\ lastNote' = [lastNote EXCEPT ![h.id] = IF h.note # NoNote THEN h.note ELSE @]
      /\ overlapped' = IF others # {} THEN overlapped \cup {h.id} ELSE overlapped
      /\ handling' = [handling EXCEPT ![m] = [at |-> "ok", id |-> h.id]]
      /\ auditLog' = auditLog
  BY DEF WriteReport, Phase
<1>2. h \in [at : {"read"}, id : ReportIds, status : Resolutions, note : Notes \cup {NoNote}, old : Notes \cup {NoNote}]
  BY <1>1 DEF ReportInv, Handling, Idle
<1>3. row \in ReportRow /\ [at |-> "ok", id |-> h.id] \in Handling
  BY <1>2 DEF ReportRow, Resolutions, NewNote, Handling
<1>4. /\ report' \in [ReportIds -> ReportRow] /\ handling' \in [Moderators -> Handling]
      /\ written' \in [Moderators -> [ReportIds -> Nat]] /\ DOMAIN lastNote' = ReportIds
  BY <1>1, <1>2, <1>3 DEF ReportInv
<1>5. \A n \in Moderators : handling'[n] = IF n = m THEN [at |-> "ok", id |-> h.id] ELSE handling[n]
  BY <1>1 DEF ReportInv
<1>6. \A r \in ReportIds : report'[r] = IF r = h.id THEN row ELSE report[r]
  BY <1>1, <1>2 DEF ReportInv
<1>7. NotesFresh'
  <2> SUFFICES ASSUME NEW n \in Moderators, handling'[n].at = "read", handling'[n].id \notin overlapped'
               PROVE  handling'[n].old = report'[handling'[n].id].note
    BY DEF NotesFresh
  <2>1. n # m /\ handling'[n] = handling[n]
    BY <1>5
  <2>2. handling[n].id # h.id /\ handling[n].id \notin overlapped
    BY <1>1, <2>1
  <2>3. handling[n].id \in ReportIds
    BY <2>1 DEF ReportInv, Handling, Idle
  <2>4. QED
    BY <1>6, <2>1, <2>2, <2>3 DEF ReportInv, NotesFresh
<1>8. NoteKept'
  <2> SUFFICES ASSUME NEW r \in ReportIds, r \notin overlapped' PROVE report'[r].note = lastNote'[r]
    BY DEF NoteKept
  <2>1. r \notin overlapped /\ report[r].note = lastNote[r]
    BY <1>1 DEF ReportInv, NoteKept
  <2>2. CASE r = h.id
    <3>1. h.old = report[r].note
      BY <1>1, <2>1, <2>2 DEF ReportInv, NotesFresh
    <3>2. report'[r].note = NewNote(h) /\ lastNote'[r] = IF h.note # NoNote THEN h.note ELSE lastNote[r]
      BY <1>1, <1>6, <2>2 DEF ReportInv
    <3>3. QED
      BY <2>1, <3>1, <3>2 DEF NewNote
  <2>3. CASE r # h.id
    BY <1>1, <1>6, <2>1, <2>3 DEF ReportInv
  <2>4. QED
    BY <2>2, <2>3
<1>9. AuditCovered'
  <2> SUFFICES ASSUME NEW n \in Moderators, NEW r \in ReportIds PROVE (auditLog[n][r] + AuditDue(n, r) <= written[n][r])'
    BY DEF AuditCovered
  <2>1. auditLog[n][r] \in Nat /\ written[n][r] \in Nat /\ auditLog[n][r] + AuditDue(n, r) <= written[n][r]
    BY DEF ReportInv, AuditCovered
  <2>2. written'[n][r] = IF n = m /\ r = h.id THEN written[n][r] + 1 ELSE written[n][r]
    BY <1>1, <1>2 DEF ReportInv
  <2>3. AuditDue(n, r)' = IF n = m THEN (IF h.id = r THEN 1 ELSE 0) ELSE AuditDue(n, r)
    BY <1>5 DEF AuditDue
  <2>4. n = m => AuditDue(n, r) = 0
    BY <1>1 DEF AuditDue
  <2>5. QED
    BY <1>1, <2>1, <2>2, <2>3, <2>4
<1>10. QED
  BY <1>1, <1>4, <1>7, <1>8, <1>9 DEF ReportInv

LEMMA ReportStep == ReportInv /\ [ReportNext]_reportVars => ReportInv'
<1> SUFFICES ASSUME ReportInv, [ReportNext]_reportVars PROVE ReportInv'
  OBVIOUS
<1>0. Idle \in Handling
  BY DEF Handling
<1>1. ASSUME NEW r \in ReportIds, CreateReport(r) PROVE ReportInv'
  <2>1. \A q \in ReportIds : report'[q].note = report[q].note
    BY <1>1 DEF CreateReport, ReportInv, ReportRow
  <2>2. report' \in [ReportIds -> ReportRow] /\ UNCHANGED <<handling, written, auditLog, lastNote, overlapped>>
    BY <1>1 DEF CreateReport, ReportInv, ReportRow, ReportStatus
  <2>3. NotesFresh'
    BY <2>1, <2>2 DEF ReportInv, NotesFresh, Handling, Idle
  <2>4. QED
    BY <2>1, <2>2, <2>3 DEF ReportInv, NoteKept, AuditCovered, AuditDue
<1>2. ASSUME NEW m \in Moderators, NEW r \in ReportIds, NEW answer \in Resolutions,
             NEW note \in Notes \cup {NoNote}, ReadReport(m, r, answer, note)
      PROVE  ReportInv'
  <2> DEFINE p == [at |-> "read", id |-> r, status |-> answer, note |-> note, old |-> report[r].note]
  <2>1. p \in Handling /\ handling' = [handling EXCEPT ![m] = p]
        /\ UNCHANGED <<report, written, auditLog, lastNote, overlapped>>
    BY <1>2 DEF ReadReport, Phase, Handling, ReportInv, ReportRow
  <2>2. \A n \in Moderators : handling'[n] = IF n = m THEN p ELSE handling[n]
    BY <2>1 DEF ReportInv
  <2>3. NotesFresh'
    BY <2>1, <2>2 DEF ReportInv, NotesFresh
  <2>4. AuditCovered'
    <3> SUFFICES ASSUME NEW n \in Moderators, NEW q \in ReportIds PROVE (auditLog[n][q] + AuditDue(n, q) <= written[n][q])'
      BY DEF AuditCovered
    <3>1. auditLog[n][q] \in Nat /\ written[n][q] \in Nat /\ auditLog[n][q] + AuditDue(n, q) <= written[n][q]
      BY DEF ReportInv, AuditCovered
    <3>2. QED
      BY <2>1, <2>2, <3>1 DEF AuditDue
  <2>5. handling' \in [Moderators -> Handling]
    BY <2>1 DEF ReportInv
  <2>6. QED
    BY <2>1, <2>3, <2>4, <2>5 DEF ReportInv, NoteKept
<1>3. ASSUME NEW m \in Moderators, FailReport(m) PROVE ReportInv'
  <2>1. [at |-> "failed", id |-> handling[m].id] \in Handling
    BY <1>3 DEF FailReport, ReportInv, Handling, Idle
  <2>2. QED
    BY <1>3, <2>1, PhaseKeeps DEF FailReport
<1>4. ASSUME NEW m \in Moderators, NoAudit(m) PROVE ReportInv'
  BY <1>0, <1>4, PhaseKeeps DEF NoAudit, Idle
<1>5. ASSUME NEW m \in Moderators, Audit(m) PROVE ReportInv'
  <2> DEFINE i == handling[m].id
  <2>1. /\ handling[m].at = "ok" /\ i \in ReportIds
        /\ auditLog' = [auditLog EXCEPT ![m][i] = @ + 1]
        /\ handling' = [handling EXCEPT ![m] = Idle]
        /\ UNCHANGED <<report, written, lastNote, overlapped>>
    BY <1>5 DEF Audit, Succeeded, Phase, ReportInv, Handling, Idle
  <2>2. \A n \in Moderators : handling'[n] = IF n = m THEN Idle ELSE handling[n]
    BY <2>1 DEF ReportInv
  <2>3. NotesFresh'
    BY <2>1, <2>2 DEF ReportInv, NotesFresh, Idle
  <2>4. AuditCovered'
    <3> SUFFICES ASSUME NEW n \in Moderators, NEW q \in ReportIds PROVE (auditLog[n][q] + AuditDue(n, q) <= written[n][q])'
      BY DEF AuditCovered
    <3>1. auditLog[n][q] \in Nat /\ written[n][q] \in Nat /\ auditLog[n][q] + AuditDue(n, q) <= written[n][q]
      BY DEF ReportInv, AuditCovered
    <3>2. auditLog'[n][q] = IF n = m /\ q = i THEN auditLog[n][q] + 1 ELSE auditLog[n][q]
      BY <2>1 DEF ReportInv
    <3>3. AuditDue(n, q)' = IF n = m THEN 0 ELSE AuditDue(n, q)
      BY <2>2 DEF AuditDue, Idle
    <3>4. n = m => AuditDue(n, q) = IF q = i THEN 1 ELSE 0
      BY <2>1 DEF AuditDue
    <3>5. QED
      BY <2>1, <3>1, <3>2, <3>3, <3>4
  <2>5. handling' \in [Moderators -> Handling] /\ auditLog' \in [Moderators -> [ReportIds -> Nat]]
    BY <1>0, <2>1 DEF ReportInv
  <2>6. QED
    BY <2>1, <2>3, <2>4, <2>5 DEF ReportInv, NoteKept
<1>6. CASE UNCHANGED reportVars
  BY <1>6 DEF reportVars, ReportInv, NotesFresh, AuditCovered, AuditDue, NoteKept
<1>7. QED
  BY <1>1, <1>2, <1>3, <1>4, <1>5, <1>6, WriteKeeps DEF ReportNext

LEMMA ReportInvariant == ReportInit /\ [][ReportNext]_reportVars => []ReportInv
<1>1. ReportInit => ReportInv
  BY DEF ReportInit, ReportInv, NotesFresh, AuditCovered, AuditDue, NoteKept, ReportRow, Handling, Idle
<1>2. QED
  BY <1>1, ReportStep, PTL

\* Whoever has read a report has a resolution of it left to write.
OneLeft == \A m \in Moderators : handling[m].at = "read" => written[m][handling[m].id] < MaxWrites

ReportTypes == ReportTypeOK /\ OneLeft

LEMMA ReportTypesStep == ReportInv /\ ReportInv' /\ ReportTypes /\ [ReportNext]_reportVars => ReportTypes'
<1> SUFFICES ASSUME ReportInv, ReportInv', ReportTypes, [ReportNext]_reportVars PROVE ReportTypes'
  OBVIOUS
<1>0. /\ report' \in [ReportIds -> ReportRow]
      /\ handling \in [Moderators -> Handling]
      /\ written \in Counts /\ auditLog \in Counts /\ overlapped \subseteq ReportIds /\ OneLeft
  BY DEF ReportInv, ReportTypes, ReportTypeOK
<1>1. ASSUME NEW r \in ReportIds, CreateReport(r) PROVE ReportTypes'
  BY <1>0, <1>1 DEF CreateReport, ReportTypes, ReportTypeOK, ReportRow, OneLeft
<1>2. ASSUME NEW m \in Moderators, NEW r \in ReportIds, NEW answer \in Resolutions,
             NEW note \in Notes \cup {NoNote}, ReadReport(m, r, answer, note)
      PROVE  ReportTypes'
  BY <1>0, <1>2 DEF ReadReport, Phase, ReportTypes, ReportTypeOK, ReportRow, OneLeft
<1>3. ASSUME NEW m \in Moderators, WriteReport(m) PROVE ReportTypes'
  <2> DEFINE r == handling[m].id
  <2>1. /\ handling[m].at = "read"
        /\ written' = [written EXCEPT ![m][r] = @ + 1]
        /\ overlapped' \subseteq overlapped \cup {r}
        /\ handling' = [handling EXCEPT ![m] = [at |-> "ok", id |-> r]]
        /\ UNCHANGED auditLog
    BY <1>3 DEF WriteReport, Phase
  <2>2. r \in ReportIds
    BY <1>0, <2>1 DEF Handling, Idle
  <2>3. written[m][r] + 1 \in 0 .. MaxWrites
    BY <1>0, <2>1, <2>2, ReportConstants DEF OneLeft, Counts
  <2> HIDE DEF r
  <2>4. written' \in Counts
    <3>1. written' = [written EXCEPT ![m] = [written[m] EXCEPT ![r] = written[m][r] + 1]]
      BY <2>1
    <3>2. [written[m] EXCEPT ![r] = written[m][r] + 1] \in [ReportIds -> 0 .. MaxWrites]
      BY <1>0, <2>2, <2>3 DEF Counts
    <3>3. QED
      BY <1>0, <3>1, <3>2 DEF Counts
  <2>5. OneLeft'
    <3> SUFFICES ASSUME NEW n \in Moderators, handling'[n].at = "read"
                 PROVE  written'[n][handling'[n].id] < MaxWrites
      BY DEF OneLeft
    <3>1. n # m /\ handling'[n] = handling[n] /\ written'[n] = written[n]
      BY <1>0, <2>1 DEF Counts
    <3>2. QED
      BY <1>0, <3>1 DEF OneLeft
  <2>6. QED
    BY <1>0, <2>1, <2>2, <2>4, <2>5 DEF ReportTypes, ReportTypeOK, ReportRow
<1>4. ASSUME NEW m \in Moderators, FailReport(m) PROVE ReportTypes'
  BY <1>0, <1>4 DEF FailReport, Phase, ReportTypes, ReportTypeOK, ReportRow, OneLeft
<1>5. ASSUME NEW m \in Moderators, Audit(m) PROVE ReportTypes'
  <2>1. /\ UNCHANGED <<report, written, overlapped>>
        /\ handling' = [handling EXCEPT ![m] = Idle]
        /\ DOMAIN auditLog' = DOMAIN auditLog
        /\ \A n \in Moderators : DOMAIN auditLog'[n] = DOMAIN auditLog[n]
    BY <1>0, <1>5 DEF Audit, Phase, Counts
  <2>2. \A n \in Moderators, r \in ReportIds : auditLog'[n][r] \in 0 .. MaxWrites
    <3> TAKE n \in Moderators, r \in ReportIds
    <3>1. /\ auditLog'[n][r] \in Nat /\ written'[n][r] \in Nat
          /\ auditLog'[n][r] + AuditDue(n, r)' <= written'[n][r] /\ AuditDue(n, r)' \in {0, 1}
      BY DEF ReportInv, AuditCovered, AuditDue
    <3>2. written'[n][r] \in 0 .. MaxWrites
      BY <1>0, <2>1 DEF Counts
    <3>3. QED
      BY <3>1, <3>2, ReportConstants
  <2>3. auditLog' \in Counts
    <3>1. \A n \in Moderators : auditLog'[n] \in [ReportIds -> 0 .. MaxWrites]
      BY <2>2 DEF ReportInv
    <3>2. QED
      BY <3>1 DEF ReportInv, Counts
  <2>4. OneLeft'
    BY <1>0, <2>1 DEF OneLeft, Idle
  <2>5. QED
    BY <1>0, <2>1, <2>3, <2>4 DEF ReportTypes, ReportTypeOK, ReportRow
<1>6. ASSUME NEW m \in Moderators, NoAudit(m) PROVE ReportTypes'
  BY <1>0, <1>6 DEF NoAudit, Phase, Idle, ReportTypes, ReportTypeOK, ReportRow, OneLeft
<1>7. CASE UNCHANGED reportVars
  BY <1>0, <1>7 DEF reportVars, ReportTypes, ReportTypeOK, ReportRow, OneLeft
<1>8. QED
  BY <1>1, <1>2, <1>3, <1>4, <1>5, <1>6, <1>7 DEF ReportNext

LEMMA ReportTyped == ReportInit /\ [][ReportNext]_reportVars => []ReportTypeOK
<1>1. ReportInit => ReportTypes
  BY ReportConstants DEF ReportInit, ReportTypes, ReportTypeOK, Counts, OneLeft, Idle
<1>2. ReportTypes => ReportTypeOK
  BY DEF ReportTypes
<1>3. QED
  BY <1>1, <1>2, ReportInvariant, ReportTypesStep, PTL

\* A note outlives resolutions without one, for any number of moderators, unless
\* two resolutions of the report overlapped (report.service.ts:65).
THEOREM NotesKept == ReportInit /\ [][ReportNext]_reportVars => []NoteKept
<1>1. ReportInv => NoteKept
  BY DEF ReportInv
<1>2. QED
  BY <1>1, ReportInvariant, PTL

\* The audit trail never shows more than what was done (auditLog.ts:28).
THEOREM AuditHonest == ReportInit /\ [][ReportNext]_reportVars => []AuditNeverAhead
<1>1. ReportInv => AuditNeverAhead
  <2> SUFFICES ASSUME ReportInv, NEW m \in Moderators, NEW r \in ReportIds PROVE auditLog[m][r] <= written[m][r]
    BY DEF AuditNeverAhead
  <2>1. auditLog[m][r] \in Nat /\ written[m][r] \in Nat /\ auditLog[m][r] + AuditDue(m, r) <= written[m][r]
    BY DEF ReportInv, AuditCovered
  <2>2. QED
    BY <2>1 DEF AuditDue
<1>2. QED
  BY <1>1, ReportInvariant, PTL

-----------------------------------------------------------------------------
(* Mentor applications. *)

\* What a request may write was allowed by the status it read.
AskedProperly ==
  \A c \in RoleCalls :
    /\ asked[c].op = "apply" => asked[c].seen \notin {"PENDING", "APPROVED"}
    /\ asked[c].op = "review" => asked[c].seen = "PENDING"

RoleInv ==
  /\ person \in [role : Role, status : MentorStatus]
  /\ asked \in [RoleCalls -> [op : {"none", "issue", "apply", "review"}, role : Role, seen : MentorStatus]]
  /\ tally \in [sent : Nat, decided : Nat, approved : Nat]
  /\ outdated \in BOOLEAN
  /\ AskedProperly /\ DecidedOnce

LEMMA AskKeeps ==
  ASSUME RoleInv, NEW c \in RoleCalls,
         NEW q \in [op : {"none", "issue", "apply", "review"}, role : Role, seen : MentorStatus],
         asked' = [asked EXCEPT ![c] = q],
         q.op = "apply" => q.seen \notin {"PENDING", "APPROVED"},
         q.op = "review" => q.seen = "PENDING",
         UNCHANGED <<person, tally, outdated>>
  PROVE  RoleInv'
BY DEF RoleInv, AskedProperly, DecidedOnce

LEMMA Approving ==
  ASSUME NEW t \in [sent : Nat, decided : Nat, approved : Nat],
         NEW n, n = [t EXCEPT !.decided = @ + 1, !.approved = @ + 1]
  PROVE  /\ n \in [sent : Nat, decided : Nat, approved : Nat] /\ n.sent = t.sent
         /\ n.decided = t.decided + 1 /\ n.approved = t.approved + 1
<1>1. n = [sent |-> t.sent, decided |-> t.decided + 1, approved |-> t.approved + 1]
  OBVIOUS
<1>2. QED
  BY <1>1

LEMMA UnaskedTyped == Unasked \in [op : {"none", "issue", "apply", "review"}, role : Role, seen : MentorStatus]
BY DEF Unasked, Role, MentorStatus

\* A status is written; if it was still what the request had read, the tally says
\* what the status says.
LEMMA StatusKeeps ==
  ASSUME RoleInv, NEW c \in RoleCalls, NEW p \in [role : Role, status : MentorStatus], WriteStatus(c, p),
         tally' \in [sent : Nat, decided : Nat, approved : Nat],
         ~outdated /\ asked[c].seen = person.status =>
           /\ tally'.sent = tally'.decided + IF p.status = "PENDING" THEN 1 ELSE 0
           /\ tally'.approved = IF p.status = "APPROVED" THEN 1 ELSE 0
  PROVE  RoleInv'
<1>1. person' = p /\ outdated' = (outdated \/ asked[c].seen # person.status)
      /\ asked' = [asked EXCEPT ![c] = Unasked]
  BY DEF WriteStatus, Answered
<1>2. AskedProperly'
  BY <1>1 DEF RoleInv, AskedProperly, Unasked
<1>3. DecidedOnce'
  BY <1>1 DEF RoleInv, DecidedOnce
<1>4. QED
  BY <1>1, <1>2, <1>3, UnaskedTyped DEF RoleInv

LEMMA RoleStep == RoleInv /\ [RoleNext]_roleVars => RoleInv'
<1> SUFFICES ASSUME RoleInv, [RoleNext]_roleVars PROVE RoleInv'
  OBVIOUS
<1>0. /\ Unasked \in [op : {"none", "issue", "apply", "review"}, role : Role, seen : MentorStatus]
      /\ Unasked.op = "none" /\ person \in [role : Role, status : MentorStatus]
      /\ tally \in [sent : Nat, decided : Nat, approved : Nat]
      /\ asked \in [RoleCalls -> [op : {"none", "issue", "apply", "review"}, role : Role, seen : MentorStatus]]
  BY UnaskedTyped DEF Unasked, RoleInv
<1>1. ASSUME NEW c \in RoleCalls, SignIn(c) \/ \E r \in Role : Refresh(c, r) PROVE RoleInv'
  <2>1. [Unasked EXCEPT !.op = "issue", !.role = person.role]
          \in [op : {"none", "issue", "apply", "review"}, role : Role, seen : MentorStatus]
    BY <1>0
  <2>2. [Unasked EXCEPT !.op = "issue", !.role = person.role].op = "issue"
    BY DEF Unasked
  <2>3. asked' = [asked EXCEPT ![c] = [Unasked EXCEPT !.op = "issue", !.role = person.role]]
        /\ UNCHANGED <<person, tally, outdated>>
    BY <1>1 DEF SignIn, Refresh, Ask, RoleRead
  <2>4. QED
    BY <2>1, <2>2, <2>3, AskKeeps
<1>2. ASSUME NEW c \in RoleCalls, ApplyAsMentor(c) PROVE RoleInv'
  <2> DEFINE q == [Unasked EXCEPT !.op = "apply", !.seen = person.status]
  <2>1. q \in [op : {"none", "issue", "apply", "review"}, role : Role, seen : MentorStatus]
        /\ q.op = "apply" /\ q.seen = person.status
    BY <1>0 DEF Unasked
  <2>2. person.status \notin {"PENDING", "APPROVED"} /\ asked' = [asked EXCEPT ![c] = q]
        /\ UNCHANGED <<person, tally, outdated>>
    BY <1>2 DEF ApplyAsMentor, MayApply, Ask
  <2> HIDE DEF q
  <2>3. QED
    BY <2>1, <2>2, AskKeeps
<1>3. ASSUME NEW c \in RoleCalls, ReviewMentorApplication(c) PROVE RoleInv'
  <2> DEFINE q == [Unasked EXCEPT !.op = "review", !.seen = person.status]
  <2>1. q \in [op : {"none", "issue", "apply", "review"}, role : Role, seen : MentorStatus]
        /\ q.op = "review" /\ q.seen = person.status
    BY <1>0 DEF Unasked
  <2>2. person.status = "PENDING" /\ asked' = [asked EXCEPT ![c] = q]
        /\ UNCHANGED <<person, tally, outdated>>
    BY <1>3 DEF ReviewMentorApplication, Ask
  <2> HIDE DEF q
  <2>3. QED
    BY <2>1, <2>2, AskKeeps
<1>4. ASSUME NEW c \in RoleCalls, IssueTokens(c) \/ RequestDies(c) PROVE RoleInv'
  <2>1. asked' = [asked EXCEPT ![c] = Unasked] /\ UNCHANGED <<person, tally, outdated>>
    BY <1>4 DEF IssueTokens, RequestDies, Answered
  <2>2. QED
    BY <1>0, <2>1, AskKeeps
<1>5. ASSUME NEW c \in RoleCalls, WriteApplication(c) PROVE RoleInv'
  <2> DEFINE p == [person EXCEPT !.status = "PENDING"]
  <2>1. p \in [role : Role, status : MentorStatus] /\ p.status = "PENDING"
    BY <1>0 DEF MentorStatus
  <2>2. /\ WriteStatus(c, p) /\ asked[c].seen \notin {"PENDING", "APPROVED"}
        /\ tally' = [tally EXCEPT !.sent = @ + 1]
    BY <1>5 DEF WriteApplication, RoleInv, AskedProperly
  <2>3. tally' \in [sent : Nat, decided : Nat, approved : Nat] /\ tally'.sent = tally.sent + 1
        /\ tally'.decided = tally.decided /\ tally'.approved = tally.approved
    BY <1>0, <2>2
  <2> HIDE DEF p
  <2>4. ~outdated /\ asked[c].seen = person.status => tally.sent = tally.decided /\ tally.approved = 0
    BY <1>0, <2>2 DEF RoleInv, DecidedOnce
  <2>5. QED
    BY <1>0, <2>1, <2>2, <2>3, <2>4, StatusKeeps
<1>6. ASSUME NEW c \in RoleCalls, WriteApproval(c) \/ WriteRejection(c) PROVE RoleInv'
  <2>1. asked[c].seen = "PENDING"
    BY <1>6 DEF WriteApproval, WriteRejection, RoleInv, AskedProperly
  <2>2. ~outdated /\ asked[c].seen = person.status => tally.sent = tally.decided + 1 /\ tally.approved = 0
    BY <1>0, <2>1 DEF RoleInv, DecidedOnce
  <2>3. CASE WriteApproval(c)
    <3> DEFINE p == [role |-> "MENTOR", status |-> "APPROVED"]
    <3>1. p \in [role : Role, status : MentorStatus] /\ p.status = "APPROVED"
      BY DEF MentorStatus, Role
    <3>2. WriteStatus(c, p) /\ tally' = [tally EXCEPT !.decided = @ + 1, !.approved = @ + 1]
      BY <2>3 DEF WriteApproval
    <3>3. tally' \in [sent : Nat, decided : Nat, approved : Nat] /\ tally'.sent = tally.sent
          /\ tally'.decided = tally.decided + 1 /\ tally'.approved = tally.approved + 1
      BY <1>0, <3>2, Approving
    <3> HIDE DEF p
    <3>4. QED
      BY <1>0, <2>2, <3>1, <3>2, <3>3, StatusKeeps
  <2>4. CASE WriteRejection(c)
    <3> DEFINE p == [person EXCEPT !.status = "REJECTED"]
    <3>1. p \in [role : Role, status : MentorStatus] /\ p.status = "REJECTED"
      BY <1>0 DEF MentorStatus
    <3>2. WriteStatus(c, p) /\ tally' = [tally EXCEPT !.decided = @ + 1]
      BY <2>4 DEF WriteRejection
    <3>3. tally' \in [sent : Nat, decided : Nat, approved : Nat] /\ tally'.sent = tally.sent
          /\ tally'.decided = tally.decided + 1 /\ tally'.approved = tally.approved
      BY <1>0, <3>2
    <3> HIDE DEF p
    <3>4. QED
      BY <1>0, <2>2, <3>1, <3>2, <3>3, StatusKeeps
  <2>5. QED
    BY <1>6, <2>3, <2>4
<1>7. ASSUME NEW r \in Role, AccessExpires(r) \/ RefreshExpires(r) \/ UpdateUserRole(r) PROVE RoleInv'
  <2>1. /\ person'.status = person.status /\ person' \in [role : Role, status : MentorStatus]
        /\ UNCHANGED <<asked, tally, outdated>>
    BY <1>0, <1>7 DEF AccessExpires, RefreshExpires, UpdateUserRole
  <2>2. QED
    BY <2>1 DEF RoleInv, AskedProperly, DecidedOnce
<1>8. CASE UNCHANGED roleVars
  BY <1>8 DEF roleVars, RoleInv, AskedProperly, DecidedOnce
<1>9. QED
  BY <1>1, <1>2, <1>3, <1>4, <1>5, <1>6, <1>7, <1>8 DEF RoleNext

\* Applications are decided once and approvals stay, for any number of requests in
\* flight, unless two wrote the status from one reading (mentor.service.ts:172, 220).
THEOREM ApplicationsDecidedOnce == RoleInit /\ [][RoleNext]_roleVars => []DecidedOnce
<1>1. RoleInit => RoleInv
  <2> SUFFICES ASSUME RoleInit PROVE RoleInv
    OBVIOUS
  <2>1. person.status = "NONE" /\ person \in [role : Role, status : MentorStatus]
    BY DEF RoleInit, Role, MentorStatus
  <2>2. asked \in [RoleCalls -> [op : {"none", "issue", "apply", "review"}, role : Role, seen : MentorStatus]]
    BY UnaskedTyped DEF RoleInit
  <2>3. tally = [sent |-> 0, decided |-> 0, approved |-> 0] /\ outdated = FALSE
    BY DEF RoleInit
  <2>4. AskedProperly
    BY DEF RoleInit, AskedProperly, Unasked
  <2>5. tally \in [sent : Nat, decided : Nat, approved : Nat] /\ DecidedOnce
    BY <2>1, <2>3 DEF DecidedOnce
  <2>6. QED
    BY <2>1, <2>2, <2>3, <2>4, <2>5 DEF RoleInv
<1>2. RoleInv => DecidedOnce
  BY DEF RoleInv
<1>3. QED
  BY <1>1, <1>2, RoleStep, PTL

-----------------------------------------------------------------------------
(* Lock order. *)

\* Of a transaction that waits for its next lock: the users it has locked it only
\* shares, and then it asks for no session but to share it; a session it has
\* written it waits for a user; and no session is locked for update.
Waits(p, k) ==
  LET next == p[k + 1] IN
  /\ next[1] \in People \/ (next[1] \in Rooms /\ next[2] \in {Share, Write})
  /\ next[2] \in Modes
  /\ \A i \in 1 .. k :
       /\ p[i][1] \in People \/ (p[i][1] \in Rooms /\ p[i][2] \in {Share, Write})
       /\ p[i][1] \in People => /\ p[i][2] = Share
                                /\ next[1] \in Rooms => next[2] = Share
                                /\ next[2] = Update => \E j \in 1 .. k : p[j] = <<next[1], Share>>
       /\ p[i][1] \in Rooms /\ p[i][2] = Write => next[1] \in People

Ordered(p) == Len(p) \in Nat /\ \A k \in 0 .. Len(p) - 1 : Waits(p, k)

LEMMA Ordered1 == ASSUME NEW p, Len(p) = 1, Waits(p, 0) PROVE Ordered(p)
BY DEF Ordered

LEMMA Ordered2 == ASSUME NEW p, Len(p) = 2, Waits(p, 0), Waits(p, 1) PROVE Ordered(p)
<1>1. \A k \in 0 .. 1 : k = 0 \/ k = 1
  OBVIOUS
<1>2. QED
  BY <1>1 DEF Ordered

LEMMA Ordered3 == ASSUME NEW p, Len(p) = 3, Waits(p, 0), Waits(p, 1), Waits(p, 2) PROVE Ordered(p)
<1>1. \A k \in 0 .. 2 : k = 0 \/ k = 1 \/ k = 2
  OBVIOUS
<1>2. QED
  BY <1>1 DEF Ordered

LEMMA Modal == Share # Write /\ Share # Update /\ Write # Update /\ Modes = {Share, Write, Update}
BY DEF Share, Write, Update, Modes

\* Waiting after none, one and two locks.
LEMMA Waits0 ==
  ASSUME NEW p, p[1][1] \in People \/ (p[1][1] \in Rooms /\ p[1][2] \in {Share, Write}), p[1][2] \in Modes
  PROVE  Waits(p, 0)
BY DEF Waits

LEMMA Waits1 ==
  ASSUME NEW p, NEW x, NEW y, p[1] = x, p[2] = y,
         y[1] \in People \/ (y[1] \in Rooms /\ y[2] \in {Share, Write}), y[2] \in Modes,
         \/ x[1] \in People /\ x[2] = Share /\ y[2] = Share
         \/ x[1] \in Rooms /\ x[2] \in {Share, Write} /\ y[1] \in People
  PROVE  Waits(p, 1)
<1>1. \A i \in 1 .. 1 : i = 1
  OBVIOUS
<1>2. ~(x[1] \in People /\ x[1] \in Rooms)
  BY LockConstants
<1>3. QED
  BY <1>1, <1>2, Modal DEF Waits

LEMMA Waits2 ==
  ASSUME NEW p, p[3][1] \in People, p[3][2] \in Modes,
         \A i \in {1, 2} : \/ p[i][1] \in People /\ p[i][2] = Share
                           \/ p[i][1] \in Rooms /\ p[i][2] \in {Share, Write},
         p[3][2] = Update => <<p[3][1], Share>> \in {p[1], p[2]}
  PROVE  Waits(p, 2)
<1>1. \A i \in 1 .. 2 : i = 1 \/ i = 2
  OBVIOUS
<1>2. p[3][1] \notin Rooms /\ \A i \in {1, 2} : ~(p[i][1] \in People /\ p[i][1] \in Rooms)
  BY LockConstants
<1>3. p[3][2] = Update => \E j \in 1 .. 2 : p[j] = <<p[3][1], Share>>
  <2>1. 1 \in 1 .. 2 /\ 2 \in 1 .. 2
    OBVIOUS
  <2>2. QED
    BY <2>1
<1>4. QED
  BY <1>1, <1>2, <1>3 DEF Waits

LEMMA AllOrdered == ASSUME NEW p \in Plans \cup {<<>>} PROVE Ordered(p)
<1> USE Modal
<1>0. CASE p = <<>>
  BY <1>0 DEF Ordered
<1>1. ASSUME NEW u \in People, p = <<<<u, Update>>>> PROVE Ordered(p)
  <2>1. Len(p) = 1 /\ p[1] = <<u, Update>>
    BY <1>1
  <2>2. QED
    BY <2>1, Waits0, Ordered1
<1>2. ASSUME NEW u \in People, NEW s \in Rooms, p = <<<<s, Write>>, <<u, Update>>>> PROVE Ordered(p)
  <2>1. Len(p) = 2 /\ p[1] = <<s, Write>> /\ p[2] = <<u, Update>>
    BY <1>2
  <2>2. Waits(p, 0)
    BY <2>1, Waits0
  <2>3. Waits(p, 1)
    BY <2>1, Waits1
  <2>4. QED
    BY <2>1, <2>2, <2>3, Ordered2
<1>3. ASSUME NEW u \in People, NEW s \in Rooms, p = <<<<s, Write>>, <<u, Share>>, <<u, Update>>>> PROVE Ordered(p)
  <2>1. Len(p) = 3 /\ p[1] = <<s, Write>> /\ p[2] = <<u, Share>> /\ p[3] = <<u, Update>>
    BY <1>3
  <2>2. Waits(p, 0)
    BY <2>1, Waits0
  <2>3. Waits(p, 1)
    BY <2>1, Waits1
  <2>4. Waits(p, 2)
    BY <2>1, Waits2
  <2>5. QED
    BY <2>1, <2>2, <2>3, <2>4, Ordered3
<1>4. ASSUME NEW u \in People, NEW v \in People, p = <<<<u, Share>>, <<v, Share>>, <<u, Update>>>> PROVE Ordered(p)
  <2>1. Len(p) = 3 /\ p[1] = <<u, Share>> /\ p[2] = <<v, Share>> /\ p[3] = <<u, Update>>
    BY <1>4
  <2>2. Waits(p, 0)
    BY <2>1, Waits0
  <2>3. Waits(p, 1)
    BY <2>1, Waits1
  <2>4. Waits(p, 2)
    BY <2>1, Waits2
  <2>5. QED
    BY <2>1, <2>2, <2>3, <2>4, Ordered3
<1>5. ASSUME NEW u \in People, NEW v \in People, NEW s \in Rooms, p = <<<<u, Share>>, <<s, Share>>, <<v, Write>>>> PROVE Ordered(p)
  <2>1. Len(p) = 3 /\ p[1] = <<u, Share>> /\ p[2] = <<s, Share>> /\ p[3] = <<v, Write>>
    BY <1>5
  <2>2. Waits(p, 0)
    BY <2>1, Waits0
  <2>3. Waits(p, 1)
    BY <2>1, Waits1
  <2>4. Waits(p, 2)
    BY <2>1, Waits2
  <2>5. QED
    BY <2>1, <2>2, <2>3, <2>4, Ordered3
<1>6. ASSUME NEW u \in People, NEW s \in Rooms
      PROVE  /\ Booking(u, s) = <<<<s, Write>>, <<u, Share>>, <<u, Update>>>>
             /\ Completion(u, s) = <<<<s, Write>>, <<u, Update>>>>
             /\ AutoCompletion(u, s) = <<<<s, Write>>, <<u, Update>>>>
             /\ Cancellation(u, s) = <<<<s, Write>>, <<u, Update>>>>
  BY DEF Booking, Completion, AutoCompletion, Cancellation, Movement
<1>7. ASSUME NEW u \in People, NEW v \in People
      PROVE  Acceptance(v, u) = <<<<u, Share>>, <<v, Share>>, <<u, Update>>>>
  BY DEF Acceptance, Movement
<1>8. QED
  <2>1. CASE p \in MovementPlans
    BY <1>1, <2>1 DEF MovementPlans, Movement
  <2>2. CASE p \in SessionPlans
    BY <1>2, <1>3, <1>6, <2>2 DEF SessionPlans
  <2>3. CASE p \in AcceptancePlans
    BY <1>4, <1>7, <2>3 DEF AcceptancePlans, Pairs
  <2>4. CASE p \in FeedbackPlans
    BY <1>5, <2>4 DEF FeedbackPlans, Pairs, FeedbackLocks
  <2>5. QED
    BY <1>0, <2>1, <2>2, <2>3, <2>4 DEF Plans

LEMMA LocksTyped == LocksInit /\ [][LocksNext]_lockTableVars => []LocksTypeOK
<1>1. LocksInit => LocksTypeOK
  BY DEF LocksInit, LocksTypeOK
<1>2. LocksTypeOK /\ [LocksNext]_lockTableVars => LocksTypeOK'
  <2> SUFFICES ASSUME LocksTypeOK, [LocksNext]_lockTableVars PROVE LocksTypeOK'
    OBVIOUS
  <2>0. \A t \in Txns : Len(plan[t]) \in Nat
    BY AllOrdered DEF LocksTypeOK, Ordered
  <2>1. ASSUME NEW t \in Txns, TakeLock(t) PROVE LocksTypeOK'
    BY <2>0, <2>1 DEF TakeLock, LocksTypeOK, Running
  <2>2. ASSUME NEW t \in Txns, Leave(t) PROVE LocksTypeOK'
    BY <2>2 DEF Leave, LocksTypeOK
  <2>3. ASSUME NEW t \in Txns, NEW p \in Plans, BeginTxn(t, p) PROVE LocksTypeOK'
    BY <2>3, AllOrdered DEF BeginTxn, LocksTypeOK, Ordered
  <2>4. CASE UNCHANGED lockTableVars
    BY <2>4 DEF lockTableVars, LocksTypeOK
  <2>5. QED
    BY <2>1, <2>2, <2>3, <2>4 DEF LocksNext
<1>3. QED
  BY <1>1, <1>2, PTL

\* Deadlocks come from upgrades only, for any number of transactions, people and
\* sessions: a transaction that waits for a user without upgrading would have to
\* wait for one that waits for nobody, and one that waits for a session waits for
\* one that waits for a user (credit.service.ts:47, session.service.ts:178).
THEOREM OnlyUpgradesDeadlock == LocksInit /\ [][LocksNext]_lockTableVars => []DeadlocksAreUpgrades
<1>1. LocksTypeOK => DeadlocksAreUpgrades
  <2> SUFFICES ASSUME LocksTypeOK, NEW D \in SUBSET Txns, D # {}, Deadlocked(D),
                      \A t \in D : ~Upgrading(t)
               PROVE  FALSE
    BY DEF DeadlocksAreUpgrades
  <2> USE Modal
  \* What is known of one that is blocked and of the lock that blocks it.
  <2>1. ASSUME NEW t \in D
        PROVE  /\ Waits(plan[t], taken[t]) /\ Wanted(t) = plan[t][taken[t] + 1]
               /\ ~\E j \in 1 .. taken[t] : plan[t][j] = <<Wanted(t)[1], Share>>
    <3>1. taken[t] \in 0 .. Len(plan[t]) - 1 /\ Ordered(plan[t])
      <4>1. t \in Txns /\ plan[t] \in Plans \cup {<<>>} /\ taken[t] \in 0 .. Len(plan[t])
        BY DEF LocksTypeOK
      <4>2. Ordered(plan[t]) /\ Len(plan[t]) \in Nat
        BY <4>1, AllOrdered DEF Ordered
      <4>3. taken[t] < Len(plan[t])
        BY DEF Deadlocked, Running
      <4>4. QED
        BY <4>1, <4>2, <4>3
    <3>2. QED
      BY <3>1 DEF Ordered, Wanted, Upgrading, Holds
  <2>2. ASSUME NEW t \in D
        PROVE  \E u \in D : \E i \in 1 .. taken[u] :
                 plan[u][i][1] = Wanted(t)[1] /\ Excludes(plan[u][i][2], Wanted(t)[2])
    BY DEF Deadlocked, Blocks, Holds
  \* Nobody waits for a user: the holder shares it, so an update is wanted, and the
  \* holder itself wants something that nobody who still waits can withhold.
  <2>3. ASSUME NEW t \in D, Wanted(t)[1] \in People PROVE FALSE
    <3>1. PICK u \in D : \E i \in 1 .. taken[u] :
            plan[u][i][1] = Wanted(t)[1] /\ Excludes(plan[u][i][2], Wanted(t)[2])
      BY <2>2
    <3>2. PICK i \in 1 .. taken[u] : plan[u][i][1] = Wanted(t)[1]
      BY <3>1
    <3>3. /\ Wanted(u)[1] \in Rooms => Wanted(u)[2] = Share
          /\ Wanted(u)[2] # Update /\ Wanted(u)[2] \in Modes
          /\ Wanted(u)[1] \in People \cup Rooms
      BY <2>1, <2>3, <3>2 DEF Waits
    <3>4. PICK v \in D : \E k \in 1 .. taken[v] :
            plan[v][k][1] = Wanted(u)[1] /\ Excludes(plan[v][k][2], Wanted(u)[2])
      BY <2>2
    <3>5. PICK k \in 1 .. taken[v] :
            plan[v][k][1] = Wanted(u)[1] /\ Excludes(plan[v][k][2], Wanted(u)[2])
      BY <3>4
    <3>6. CASE Wanted(u)[1] \in People
      <4>1. plan[v][k][2] = Share
        BY <2>1, <3>5, <3>6 DEF Waits
      <4>2. QED
        BY <3>3, <3>5, <4>1 DEF Excludes
    <3>7. CASE Wanted(u)[1] \in Rooms
      <4>1. plan[v][k][2] \in {Share, Write}
        BY <2>1, <3>5, <3>7, LockConstants DEF Waits
      <4>2. QED
        BY <3>3, <3>5, <3>7, <4>1 DEF Excludes
    <3>8. QED
      BY <3>3, <3>6, <3>7
  \* Whoever waits for a session waits for one that has written it and wants a user.
  <2>4. ASSUME NEW t \in D, Wanted(t)[1] \in Rooms PROVE FALSE
    <3>1. PICK u \in D : \E i \in 1 .. taken[u] :
            plan[u][i][1] = Wanted(t)[1] /\ Excludes(plan[u][i][2], Wanted(t)[2])
      BY <2>2
    <3>2. PICK i \in 1 .. taken[u] :
            plan[u][i][1] = Wanted(t)[1] /\ Excludes(plan[u][i][2], Wanted(t)[2])
      BY <3>1
    <3>3. plan[u][i][2] \in {Share, Write} /\ Wanted(t)[2] \in {Share, Write}
      BY <2>1, <2>4, <3>2, LockConstants DEF Waits
    <3>4. plan[u][i][2] = Write
      BY <3>2, <3>3 DEF Excludes
    <3>5. Wanted(u)[1] \in People
      BY <2>1, <2>4, <3>2, <3>4 DEF Waits
    <3>6. QED
      BY <2>3, <3>5
  <2>5. QED
    BY <2>1, <2>3, <2>4 DEF Waits
<1>2. QED
  BY <1>1, LocksTyped, PTL
-----------------------------------------------------------------------------
(* Mailed tokens. *)

Checking(t) == {c \in MailCalls : reader[c].at = "checked" /\ reader[c].token = t}
InUse(t)     == \E c \in MailCalls : reader[c].at \in {"checked", "applied"} /\ reader[c].token = t

\* The calls that may still apply t are counted with those that did, and the first
\* of them is owed to nobody while the row can still be found.
Owed(t) ==
  /\ uses[t] + Cardinality(Checking(t)) <= mishaps[t] + 1
  /\ mail[t].state \in {"unused", "sent"} =>
       uses[t] + Cardinality(Checking(t)) <= mishaps[t] + IF InUse(t) THEN 1 ELSE 0

MailInv == MailTypeOK /\ \A t \in MailIds : Owed(t)

LEMMA CheckingFinite ==
  \A t : IsFiniteSet(Checking(t)) /\ Cardinality(Checking(t)) \in Nat
<1> TAKE t
<1>1. Checking(t) \in SUBSET MailCalls /\ IsFiniteSet(MailCalls)
  BY MailConstants DEF Checking
<1>2. IsFiniteSet(Checking(t))
  BY <1>1, FS_Subset
<1>3. QED
  BY <1>2, FS_CardinalityType

\* What a step of one call does to the calls that check a token.
LEMMA CheckingStep ==
  ASSUME NEW c \in MailCalls, \A d \in MailCalls \ {c} : reader'[d] = reader[d], NEW t
  PROVE  Cardinality(Checking(t)') =
           Cardinality(Checking(t))
             + (IF reader'[c].at = "checked" /\ reader'[c].token = t THEN 1 ELSE 0)
             - (IF reader[c].at = "checked" /\ reader[c].token = t THEN 1 ELSE 0)
<1> DEFINE rest == Checking(t) \ {c}
           now  == reader[c].at = "checked" /\ reader[c].token = t
           then == reader'[c].at = "checked" /\ reader'[c].token = t
<1>1. \A d \in MailCalls : d = c \/ reader'[d] = reader[d]
  OBVIOUS
<1>2. c \in Checking(t) <=> now
  BY DEF Checking
<1>3. IsFiniteSet(rest) /\ Cardinality(rest) \in Nat
      /\ Cardinality(rest) = Cardinality(Checking(t)) - IF now THEN 1 ELSE 0
  <2>1. IsFiniteSet(rest) /\ Cardinality(rest) = IF c \in Checking(t) THEN Cardinality(Checking(t)) - 1
                                                                      ELSE Cardinality(Checking(t))
    BY CheckingFinite, FS_RemoveElement
  <2>2. Cardinality(rest) \in Nat
    BY <2>1, FS_CardinalityType
  <2>3. QED
    BY <1>2, <2>1, <2>2, CheckingFinite
<1>4. CASE then
  <2>1. Checking(t)' = rest \cup {c}
    BY <1>1, <1>4 DEF Checking
  <2>2. c \notin rest
    OBVIOUS
  <2>3. Cardinality(rest \cup {c}) = Cardinality(rest) + 1
    BY <1>3, <2>2, FS_AddElement
  <2> HIDE DEF rest
  <2>4. QED
    BY <1>3, <1>4, <2>1, <2>3, CheckingFinite
<1>5. CASE ~then
  <2>1. Checking(t)' = rest
    BY <1>1, <1>5 DEF Checking
  <2> HIDE DEF rest
  <2>2. QED
    BY <1>3, <1>5, <2>1, CheckingFinite
<1>6. QED
  BY <1>4, <1>5

LEMMA BusyStep ==
  ASSUME NEW c \in MailCalls, \A d \in MailCalls \ {c} : reader'[d] = reader[d], NEW t
  PROVE  /\ reader'[c].at \in {"checked", "applied"} /\ reader'[c].token = t => InUse(t)'
         /\ InUse(t) /\ ~(reader[c].at \in {"checked", "applied"} /\ reader[c].token = t) => InUse(t)'
BY DEF InUse

LEMMA SameReaders ==
  ASSUME UNCHANGED reader, NEW t
  PROVE  Checking(t)' = Checking(t) /\ (InUse(t)' <=> InUse(t))
BY DEF Checking, InUse

LEMMA MailStep == MailInv /\ [MailNext]_mailVars => MailInv'
<1> SUFFICES ASSUME MailInv, [MailNext]_mailVars PROVE MailInv'
  OBVIOUS
<1>0. MailTypeOK /\ \A t \in MailIds :
         /\ Owed(t) /\ uses[t] \in Nat /\ mishaps[t] \in Nat
         /\ Cardinality(Checking(t)) \in Nat
  BY CheckingFinite DEF MailInv, MailTypeOK
<1>1. ASSUME NEW c \in MailCalls, NEW s \in MailIds, CheckToken(c, s) PROVE MailInv'
  <2>1. MailTypeOK'
    BY <1>0, <1>1 DEF CheckToken, MailTypeOK
  <2>2. ASSUME NEW t \in MailIds PROVE Owed(t)'
    <3>1. /\ reader[c].at = "idle"
          /\ reader'[c].at = "checked" /\ reader'[c].token = s /\ \A d \in MailCalls \ {c} : reader'[d] = reader[d]
          /\ mail' = mail /\ uses' = uses
      BY <1>0, <1>1 DEF CheckToken, NoReader, MailTypeOK
    <3>2. Cardinality(Checking(t)') = Cardinality(Checking(t)) + IF s = t THEN 1 ELSE 0
      BY <1>0, <3>1, CheckingStep
    <3>3. /\ mishaps'[t] \in Nat /\ mishaps'[t] >= mishaps[t]
          /\ s = t /\ InUse(t) => mishaps'[t] = mishaps[t] + 1
      BY <1>0, <1>1 DEF CheckToken, InUse, MailTypeOK
    <3>4. (s = t => InUse(t)') /\ (InUse(t) => InUse(t)')
      BY <1>0, <3>1, BusyStep
    <3>5. s = t => mail[t].state = "sent"
      BY <1>1 DEF CheckToken, Valid
    <3>6. QED
      BY <1>0, <3>1, <3>2, <3>3, <3>4, <3>5 DEF Owed
  <2>3. QED
    BY <2>1, <2>2 DEF MailInv
<1>2. ASSUME NEW c \in MailCalls, NEW type, Applied(c, type), verified' \in BOOLEAN PROVE MailInv'
  <2>1. MailTypeOK'
    <3>1. mail' = mail /\ mishaps' = mishaps /\ verified' \in BOOLEAN
      BY <1>2 DEF Applied
    <3>2. uses' \in [MailIds -> Nat]
      <4>1. uses' = [uses EXCEPT ![reader[c].token] = @ + 1] /\ uses \in [MailIds -> Nat]
        BY <1>0, <1>2 DEF Applied, MailTypeOK
      <4>2. CASE reader[c].token \in MailIds
        BY <4>1, <4>2
      <4>3. CASE reader[c].token \notin MailIds
        BY <4>1, <4>3
      <4>4. QED
        BY <4>2, <4>3
    <3>3. reader' \in [MailCalls -> [at : {"idle", "checked", "applied"}, token : MailIds \cup {"none"}]]
      BY <1>0, <1>2 DEF Applied, MailTypeOK
    <3>4. QED
      BY <1>0, <3>1, <3>2, <3>3 DEF MailTypeOK
  <2>2. ASSUME NEW t \in MailIds PROVE Owed(t)'
    <3>1. /\ reader[c].at = "checked"
          /\ reader'[c].at = "applied" /\ reader'[c].token = reader[c].token /\ \A d \in MailCalls \ {c} : reader'[d] = reader[d]
          /\ mail' = mail /\ mishaps' = mishaps
      BY <1>0, <1>2 DEF Applied, MailTypeOK
    <3>2. Cardinality(Checking(t)') = Cardinality(Checking(t)) - IF reader[c].token = t THEN 1 ELSE 0
      BY <1>0, <3>1, CheckingStep
    <3>3. uses'[t] = uses[t] + IF reader[c].token = t THEN 1 ELSE 0
      BY <1>0, <1>2 DEF Applied, MailTypeOK
    <3>4. InUse(t) => InUse(t)'
      BY <1>0, <3>1, BusyStep
    <3>5. QED
      BY <1>0, <3>1, <3>2, <3>3, <3>4 DEF Owed
  <2>3. QED
    BY <2>1, <2>2 DEF MailInv
<1>3. ASSUME NEW c \in MailCalls, ApplyReset(c) \/ ApplyVerification(c) PROVE MailInv'
  BY <1>0, <1>2, <1>3 DEF ApplyReset, ApplyVerification, MailTypeOK
<1>4. ASSUME NEW c \in MailCalls, MarkUsed(c) PROVE MailInv'
  <2>1. MailTypeOK'
    BY <1>0, <1>4 DEF MarkUsed, MailTypeOK, NoReader
  <2>2. ASSUME NEW t \in MailIds PROVE Owed(t)'
    <3>1. /\ reader[c].at = "applied" /\ reader'[c].at = "idle" /\ \A d \in MailCalls \ {c} : reader'[d] = reader[d]
          /\ mishaps' = mishaps /\ uses' = uses
          /\ mail' = [mail EXCEPT ![reader[c].token].state = "used"]
      BY <1>0, <1>4 DEF MarkUsed, NoReader, MailTypeOK
    <3>2. Cardinality(Checking(t)') = Cardinality(Checking(t))
      BY <1>0, <3>1, CheckingStep
    <3>3. IF reader[c].token = t THEN mail'[t].state = "used" ELSE mail'[t] = mail[t]
      BY <1>0, <3>1 DEF MailTypeOK
    <3>4. reader[c].token # t => (InUse(t) => InUse(t)')
      BY <1>0, <3>1, BusyStep
    <3>5. QED
      BY <1>0, <3>1, <3>2, <3>3, <3>4 DEF Owed
  <2>3. QED
    BY <2>1, <2>2 DEF MailInv
<1>5. ASSUME NEW c \in MailCalls, DropReader(c) PROVE MailInv'
  <2>1. MailTypeOK'
    <3>1. mail' = mail /\ uses' = uses /\ verified' = verified
      BY <1>5 DEF DropReader
    <3>2. mishaps' \in [MailIds -> Nat]
      <4> DEFINE more == IF reader[c].at = "applied" THEN 1 ELSE 0
      <4>1. mishaps' = [mishaps EXCEPT ![reader[c].token] = @ + more] /\ mishaps \in [MailIds -> Nat] /\ more \in Nat
        BY <1>0, <1>5 DEF DropReader, MailTypeOK
      <4> HIDE DEF more
      <4>2. CASE reader[c].token \in MailIds
        BY <4>1, <4>2
      <4>3. CASE reader[c].token \notin MailIds
        BY <4>1, <4>3
      <4>4. QED
        BY <4>2, <4>3
    <3>3. reader' \in [MailCalls -> [at : {"idle", "checked", "applied"}, token : MailIds \cup {"none"}]]
      BY <1>0, <1>5 DEF DropReader, MailTypeOK, NoReader
    <3>4. QED
      BY <1>0, <3>1, <3>2, <3>3 DEF MailTypeOK
  <2>2. ASSUME NEW t \in MailIds PROVE Owed(t)'
    <3>1. /\ reader'[c].at = "idle" /\ \A d \in MailCalls \ {c} : reader'[d] = reader[d]
          /\ mail' = mail /\ uses' = uses
      BY <1>0, <1>5 DEF DropReader, NoReader, MailTypeOK
    <3>2. Cardinality(Checking(t)') = Cardinality(Checking(t))
            - IF reader[c].at = "checked" /\ reader[c].token = t THEN 1 ELSE 0
      BY <1>0, <3>1, CheckingStep
    <3>3. mishaps'[t] = mishaps[t] + IF reader[c].at = "applied" /\ reader[c].token = t THEN 1 ELSE 0
      BY <1>0, <1>5 DEF DropReader, MailTypeOK
    <3>4. InUse(t) /\ ~(reader[c].at \in {"checked", "applied"} /\ reader[c].token = t) => InUse(t)'
      BY <1>0, <3>1, BusyStep
    <3>5. reader[c].at \in {"checked", "applied"} /\ reader[c].token = t => InUse(t)
      BY DEF InUse
    <3>6. QED
      BY <1>0, <3>1, <3>2, <3>3, <3>4, <3>5 DEF Owed
  <2>3. QED
    BY <2>1, <2>2 DEF MailInv
<1>6. ASSUME NEW s \in MailIds, ResendVerification(s) \/ ForgotPassword(s) \/ CleanUp(s) PROVE MailInv'
  <2>1. MailTypeOK'
    BY <1>0, <1>6 DEF ResendVerification, ForgotPassword, CreateToken, CleanUp, MailTypeOK, MailTypes
  <2>2. ASSUME NEW t \in MailIds PROVE Owed(t)'
    <3>1. UNCHANGED <<reader, uses, mishaps>>
      BY <1>6 DEF ResendVerification, ForgotPassword, CreateToken, CleanUp
    <3>2. mail'[t].state \in {"unused", "sent"} => mail[t].state \in {"unused", "sent"}
      BY <1>0, <1>6 DEF ResendVerification, ForgotPassword, CreateToken, CleanUp, MailTypeOK
    <3>3. QED
      BY <1>0, <3>1, <3>2, SameReaders DEF Owed
  <2>3. QED
    BY <2>1, <2>2 DEF MailInv
<1>7. CASE UNCHANGED mailVars
  <2>1. UNCHANGED <<mail, verified, reader, uses, mishaps>>
    BY <1>7 DEF mailVars
  <2>2. MailTypeOK' /\ \A t \in MailIds : Owed(t)'
    BY <1>0, <2>1, SameReaders DEF Owed, MailTypeOK
  <2>3. QED
    BY <2>2 DEF MailInv
<1>8. QED
  BY <1>1, <1>3, <1>4, <1>5, <1>6, <1>7 DEF MailNext

LEMMA MailInvariant == MailInit /\ [][MailNext]_mailVars => []MailInv
<1>1. MailInit => MailInv
  <2> SUFFICES ASSUME MailInit PROVE MailInv
    OBVIOUS
  <2>1. MailTypeOK
    BY DEF MailInit, MailTypeOK, MailTypes, NoReader
  <2>2. ASSUME NEW t \in MailIds PROVE Owed(t)
    <3>1. Checking(t) = {}
      BY DEF MailInit, Checking, NoReader
    <3>2. uses[t] = 0 /\ mishaps[t] = 0
      BY DEF MailInit
    <3>3. QED
      BY <3>1, <3>2, FS_EmptySet DEF Owed
  <2>3. QED
    BY <2>1, <2>2 DEF MailInv
<1>2. QED
  BY <1>1, MailStep, PTL

\* However many requests hold one mailed token, every use of it but one is owed to
\* an overlap or to a failure between the effect and the mark (auth.service.ts:360).
THEOREM MailTokenOnce == MailInit /\ [][MailNext]_mailVars => []MailUsedOnce
<1>1. MailInv => MailUsedOnce
  BY CheckingFinite DEF MailInv, Owed, MailTypeOK, MailUsedOnce
<1>2. QED
  BY <1>1, MailInvariant, PTL

-----------------------------------------------------------------------------
(* Ratings.  What an uncrossed writer has aggregated is what its commit     *)
(* makes true.                                                              *)

WriterRow == [at : {"idle", "loaded", "inserted", "aggregated", "updated"},
              session : Taught \cup {Absent}, stars : Nat, agg : Aggregate, crossed : BOOLEAN]

\* An insertion still open is the only one of its session, which has no feedback yet.
InsertedOnce ==
  \A w \in Writers : Open(w) =>
    /\ writer[w].session \in Taught /\ feedback[writer[w].session] = 0
    /\ \A v \in Writers \ {w} : Open(v) => writer[v].session # writer[w].session

Loaded == \A w \in Writers : writer[w].at # "idle" => writer[w].session \in Taught /\ writer[w].stars \in Stars

AggregateFresh ==
  \A w \in Writers : writer[w].at \in {"aggregated", "updated"} /\ ~writer[w].crossed
    => writer[w].agg = Visible(w)

RatingInv ==
  /\ RatingTypeOK
  /\ writer \in [Writers -> WriterRow]
  /\ Loaded /\ InsertedOnce /\ AggregateFresh /\ RatingExactWhenAlone

LEMMA RatedSums ==
  ASSUME feedback \in Feedback
  PROVE  /\ IsFiniteSet(Rated) /\ Cardinality(Rated) \in Nat
         /\ Total(Rated) \in Nat /\ Total(Taught) = Total(Rated)
<1>1. IsFiniteSet(Taught) /\ Stars \subseteq Nat
  BY RatingConstants
<1>2. \A s \in Taught : feedback[s] \in Nat
  <2>1. Stars \cup {0} \subseteq Nat
    BY <1>1
  <2> QED
    BY <2>1 DEF Feedback
<1>3. Rated \in SUBSET Taught
  BY DEF Rated
<1>4. IsFiniteSet(Rated) /\ Cardinality(Rated) \in Nat
  BY <1>1, <1>3, FS_Subset, FS_CardinalityType
<1>5. Total(Rated) \in Nat
  BY <1>2, <1>3, <1>4, SumNat DEF Total
<1> DEFINE Z == {s \in Taught : feedback[s] = 0}
<1>6. Z \in SUBSET Taught /\ Taught \ Z = Rated /\ \A s \in Z : feedback[s] = 0
  BY <1>2 DEF Rated
<1> HIDE DEF Z
<1>7. Total(Taught) = Total(Rated)
  BY <1>1, <1>2, <1>6, SumSupport DEF Total
<1> QED
  BY <1>4, <1>5, <1>7

\* A commit adds one rating to what was visible.
LEMMA RatedCommit ==
  ASSUME feedback \in Feedback, NEW s \in Taught, NEW n \in Stars, feedback[s] = 0,
         feedback' = [feedback EXCEPT ![s] = n]
  PROVE  /\ feedback' \in Feedback
         /\ Cardinality(Rated') = Cardinality(Rated) + 1
         /\ Total(Taught)' = Total(Rated) + n
<1>1. IsFiniteSet(Taught) /\ Stars \subseteq Nat \ {0}
  BY RatingConstants
<1>2. feedback' \in Feedback
  BY DEF Feedback
<1>3. s \notin Rated /\ Rated' = Rated \cup {s}
  BY <1>1 DEF Rated, Feedback
<1>4. Cardinality(Rated') = Cardinality(Rated) + 1
  BY <1>3, RatedSums, FS_AddElement
<1>5. SumFunctionOnSet(feedback', Taught) = SumFunctionOnSet(feedback, Taught) - feedback[s] + feedback'[s]
  <2> DEFINE after == feedback'
  <2>0. Stars \cup {0} \subseteq Int
    BY <1>1
  <2>1. \A x \in Taught : feedback[x] \in Int
    BY <2>0 DEF Feedback
  <2>2. after[s] \in Int /\ \A x \in Taught \ {s} : after[x] = feedback[x]
    BY <2>0 DEF Feedback
  <2> HIDE DEF after
  <2>3. SumFunctionOnSet(after, Taught) = SumFunctionOnSet(feedback, Taught) - feedback[s] + after[s]
    BY <1>1, <2>1, <2>2, SumChange
  <2> QED
    BY <2>3 DEF after
<1>6. feedback'[s] = n /\ n \in Nat
  BY <1>1 DEF Feedback
<1>7. Total(Taught)' = Total(Rated) + n
  BY <1>5, <1>6, RatedSums DEF Total
<1> QED
  BY <1>2, <1>4, <1>7

LEMMA RatingStart == RatingInit => RatingInv
<1> SUFFICES ASSUME RatingInit PROVE RatingInv
  OBVIOUS
<1>1. /\ feedback = [s \in Taught |-> 0] /\ rating = Zero
      /\ writer = [w \in Writers |-> NoWriter] /\ alone = TRUE
  BY DEF RatingInit
<1>2. RatingTypeOK /\ writer \in [Writers -> WriterRow]
  BY <1>1, RatingConstants DEF RatingTypeOK, Feedback, Aggregate, Zero, NoWriter, WriterRow
<1>3. Loaded /\ InsertedOnce /\ AggregateFresh
  BY <1>1 DEF NoWriter, Open, Loaded, InsertedOnce, AggregateFresh
<1>4. Rated = {}
  BY <1>1 DEF Rated
<1>5. Total(Taught) = 0 /\ Cardinality(Rated) = 0
  BY <1>2, <1>4, RatedSums, SumEmpty, FS_EmptySet DEF Total, RatingTypeOK
<1>6. RatingExactWhenAlone
  BY <1>1, <1>5 DEF RatingExactWhenAlone, Zero
<1> QED
  BY <1>2, <1>3, <1>6 DEF RatingInv

\* A step of w alone, short of its commit.
LEMMA WriterKeeps ==
  ASSUME RatingInv, NEW w \in Writers, NEW row \in WriterRow,
         writer' = [writer EXCEPT ![w] = row], UNCHANGED <<feedback, rating, alone>>,
         row.at # "idle" => row.session \in Taught /\ row.stars \in Stars,
         row.at \in {"inserted", "aggregated", "updated"} =>
           /\ feedback[row.session] = 0
           /\ \A v \in Writers \ {w} : Open(v) => writer[v].session # row.session,
         row.at \in {"aggregated", "updated"} /\ ~row.crossed =>
           row.agg = [count |-> Cardinality(Rated) + 1, sum |-> Total(Rated) + row.stars]
  PROVE  RatingInv'
<1>1. /\ RatingTypeOK /\ writer \in [Writers -> WriterRow]
      /\ Loaded /\ InsertedOnce /\ AggregateFresh /\ RatingExactWhenAlone
  BY DEF RatingInv
<1>2. writer' \in [Writers -> WriterRow] /\ writer'[w] = row /\ \A v \in Writers \ {w} : writer'[v] = writer[v]
  BY <1>1
<1>3. RatingTypeOK'
  BY <1>1, <1>2 DEF RatingTypeOK, WriterRow
<1>4. Rated' = Rated /\ Total(Rated)' = Total(Rated) /\ Total(Taught)' = Total(Taught)
  BY DEF Rated, Total
<1>5. Loaded'
  BY <1>1, <1>2 DEF Loaded
<1>6. InsertedOnce'
  BY <1>1, <1>2 DEF InsertedOnce, Open
<1>7. AggregateFresh'
  BY <1>1, <1>2, <1>4 DEF AggregateFresh, Visible
<1>8. RatingExactWhenAlone'
  BY <1>1, <1>4 DEF RatingExactWhenAlone
<1> QED
  BY <1>2, <1>3, <1>5, <1>6, <1>7, <1>8 DEF RatingInv

LEMMA CommitKeeps ==
  ASSUME RatingInv, NEW w \in Writers, CommitFeedback(w)
  PROVE  RatingInv'
<1>1. /\ RatingTypeOK /\ writer \in [Writers -> WriterRow]
      /\ Loaded /\ InsertedOnce /\ AggregateFresh /\ RatingExactWhenAlone
  BY DEF RatingInv
<1> DEFINE s == writer[w].session
           n == writer[w].stars
<1>2. /\ writer[w].at = "updated"
      /\ feedback' = [feedback EXCEPT ![s] = n]
      /\ rating' = writer[w].agg
      /\ alone' = ~writer[w].crossed
      /\ writer' = [v \in Writers |->
           IF v = w THEN NoWriter ELSE [writer[v] EXCEPT !.crossed = @ \/ Open(v)]]
  BY DEF CommitFeedback
<1>3. s \in Taught /\ n \in Stars /\ feedback[s] = 0 /\ feedback \in Feedback
  BY <1>1, <1>2 DEF InsertedOnce, Open, Loaded, RatingTypeOK
<1>4. /\ feedback' \in Feedback
      /\ Cardinality(Rated') = Cardinality(Rated) + 1
      /\ Total(Taught)' = Total(Rated) + n
  BY <1>2, <1>3, RatedCommit
<1>5. NoWriter \in WriterRow /\ NoWriter.at = "idle" /\ NoWriter.session = Absent
  BY DEF NoWriter, WriterRow, Aggregate, Zero
<1>6. ASSUME NEW v \in Writers \ {w}
      PROVE  /\ writer'[v] \in WriterRow /\ writer'[v].at = writer[v].at
             /\ writer'[v].session = writer[v].session /\ writer'[v].stars = writer[v].stars
             /\ writer'[v].agg = writer[v].agg
             /\ writer'[v].crossed = (writer[v].crossed \/ Open(v))
  <2>1. writer[v] \in WriterRow /\ Open(v) \in BOOLEAN
    BY <1>1 DEF Open
  <2>2. writer'[v] = [writer[v] EXCEPT !.crossed = writer[v].crossed \/ Open(v)]
    BY <1>2
  <2> HIDE DEF s, n
  <2> QED
    BY <2>1, <2>2 DEF WriterRow
<1>7. writer'[w] = NoWriter
  BY <1>2
<1>8. writer' \in [Writers -> WriterRow]
  <2>1. \A v \in Writers : writer'[v] \in WriterRow
    BY <1>5, <1>6, <1>7
  <2> QED
    BY <1>2, <2>1
<1>9. RatingTypeOK'
  BY <1>1, <1>2, <1>4, <1>8 DEF RatingTypeOK, WriterRow
<1>10. Loaded'
  BY <1>1, <1>5, <1>6, <1>7 DEF Loaded
<1>11. InsertedOnce'
  <2>1. ASSUME NEW v \in Writers, Open(v)'
        PROVE  /\ writer'[v].session \in Taught /\ feedback'[writer'[v].session] = 0
               /\ \A u \in Writers \ {v} : Open(u)' => writer'[u].session # writer'[v].session
    <3>1. v # w /\ Open(v) /\ Open(w)
      BY <2>1, <1>2, <1>5, <1>6, <1>7 DEF Open
    <3>2. \A u \in Writers \ {v} : Open(u)' => u # w /\ Open(u) /\ writer'[u].session = writer[u].session
      BY <1>5, <1>6, <1>7 DEF Open
    <3>3. writer[v].session # s /\ writer[v].session \in Taught /\ feedback[writer[v].session] = 0
      BY <3>1, <1>1 DEF InsertedOnce
    <3>4. writer'[v].session = writer[v].session
      BY <3>1, <1>6
    <3>5. feedback'[writer[v].session] = 0
      BY <1>2, <1>3, <3>3 DEF Feedback
    <3> QED
      BY <3>1, <3>2, <3>3, <3>4, <3>5, <1>1 DEF InsertedOnce
  <2> QED
    BY <2>1 DEF InsertedOnce
<1>12. AggregateFresh'
  <2>1. \A v \in Writers : writer'[v].at \in {"aggregated", "updated"} => writer'[v].crossed
    BY <1>5, <1>6, <1>7 DEF Open
  <2> QED
    BY <2>1 DEF AggregateFresh
<1>13. RatingExactWhenAlone'
  <2>1. SUFFICES ASSUME alone' PROVE rating'.count = Cardinality(Rated') /\ rating'.sum = Total(Taught)'
    BY DEF RatingExactWhenAlone
  <2>2. writer[w].agg = [count |-> Cardinality(Rated) + 1, sum |-> Total(Rated) + n]
    BY <2>1, <1>1, <1>2 DEF AggregateFresh, Visible
  <2> QED
    BY <2>2, <1>2, <1>4
<1> QED
  BY <1>8, <1>9, <1>10, <1>11, <1>12, <1>13 DEF RatingInv

LEMMA RatingStep == RatingInv /\ [RatingNext]_ratingVars => RatingInv'
<1> SUFFICES ASSUME RatingInv, [RatingNext]_ratingVars PROVE RatingInv'
  OBVIOUS
<1>0. /\ RatingTypeOK /\ writer \in [Writers -> WriterRow]
      /\ Loaded /\ InsertedOnce /\ AggregateFresh /\ RatingExactWhenAlone
  BY DEF RatingInv
<1>a. NoWriter \in WriterRow /\ NoWriter.at = "idle"
  BY DEF NoWriter, WriterRow, Aggregate, Zero
<1>1. ASSUME NEW w \in Writers, NEW s \in Taught, NEW n \in Stars, LoadSession(w, s, n) PROVE RatingInv'
  <2> DEFINE row == [NoWriter EXCEPT !.at = "loaded", !.session = s, !.stars = n]
  <2>1. row \in WriterRow /\ row.at = "loaded" /\ row.session = s /\ row.stars = n
    BY RatingConstants DEF NoWriter, WriterRow, Aggregate, Zero
  <2>2. writer' = [writer EXCEPT ![w] = row] /\ UNCHANGED <<feedback, rating, alone>>
    BY <1>1 DEF LoadSession
  <2> HIDE DEF row
  <2> QED
    BY <2>1, <2>2, WriterKeeps
<1>2. ASSUME NEW w \in Writers, InsertFeedback(w) PROVE RatingInv'
  <2> DEFINE row == [writer[w] EXCEPT !.at = "inserted"]
  <2>1. /\ row \in WriterRow /\ row.at = "inserted" /\ row.session = writer[w].session
        /\ row.stars = writer[w].stars
    BY <1>0 DEF WriterRow
  <2>2. /\ writer[w].at = "loaded" /\ feedback[writer[w].session] = 0
        /\ \A v \in Writers : v # w /\ Open(v) => writer[v].session # writer[w].session
        /\ writer' = [writer EXCEPT ![w] = row] /\ UNCHANGED <<feedback, rating, alone>>
    BY <1>2 DEF InsertFeedback
  <2>3. writer[w].session \in Taught /\ writer[w].stars \in Stars
    BY <1>0, <2>2 DEF Loaded
  <2> HIDE DEF row
  <2> QED
    BY <2>1, <2>2, <2>3, WriterKeeps
<1>3. ASSUME NEW w \in Writers, AggregateFeedback(w) PROVE RatingInv'
  <2> DEFINE row == [writer[w] EXCEPT !.at = "aggregated", !.agg = Visible(w)]
  <2>1. Visible(w) \in Aggregate
    <3>1. writer[w].stars \in Nat
      BY <1>0 DEF WriterRow
    <3>2. Cardinality(Rated) \in Nat /\ Total(Rated) \in Nat
      BY <1>0, RatedSums DEF RatingTypeOK
    <3> QED
      BY <3>1, <3>2 DEF Visible, Aggregate
  <2>2. /\ row \in WriterRow /\ row.at = "aggregated" /\ row.session = writer[w].session
        /\ row.stars = writer[w].stars /\ row.agg = Visible(w)
    BY <1>0, <2>1 DEF WriterRow
  <2>3. /\ writer[w].at = "inserted"
        /\ writer' = [writer EXCEPT ![w] = row] /\ UNCHANGED <<feedback, rating, alone>>
    BY <1>3, <1>0 DEF AggregateFeedback, WriterRow
  <2>4. writer[w].session \in Taught /\ writer[w].stars \in Stars
    BY <1>0, <2>3 DEF Loaded
  <2>5. /\ feedback[writer[w].session] = 0
        /\ \A v \in Writers \ {w} : Open(v) => writer[v].session # writer[w].session
    BY <1>0, <2>3 DEF InsertedOnce, Open
  <2>6. row.agg = [count |-> Cardinality(Rated) + 1, sum |-> Total(Rated) + row.stars]
    BY <2>2 DEF Visible
  <2> HIDE DEF row
  <2> QED
    BY <2>2, <2>3, <2>4, <2>5, <2>6, WriterKeeps
<1>4. ASSUME NEW w \in Writers, UpdateMentor(w) PROVE RatingInv'
  <2> DEFINE row == [writer[w] EXCEPT !.at = "updated"]
  <2>1. /\ row \in WriterRow /\ row.at = "updated" /\ row.session = writer[w].session
        /\ row.stars = writer[w].stars /\ row.agg = writer[w].agg /\ row.crossed = writer[w].crossed
    BY <1>0 DEF WriterRow
  <2>2. /\ writer[w].at = "aggregated"
        /\ writer' = [writer EXCEPT ![w] = row] /\ UNCHANGED <<feedback, rating, alone>>
    BY <1>4 DEF UpdateMentor
  <2>3. writer[w].session \in Taught /\ writer[w].stars \in Stars
    BY <1>0, <2>2 DEF Loaded
  <2>4. /\ feedback[writer[w].session] = 0
        /\ \A v \in Writers \ {w} : Open(v) => writer[v].session # writer[w].session
    BY <1>0, <2>2 DEF InsertedOnce, Open
  <2>5. ~writer[w].crossed =>
          writer[w].agg = [count |-> Cardinality(Rated) + 1, sum |-> Total(Rated) + writer[w].stars]
    BY <1>0, <2>2 DEF AggregateFresh, Visible
  <2> HIDE DEF row
  <2> QED
    BY <2>1, <2>2, <2>3, <2>4, <2>5, WriterKeeps
<1>5. ASSUME NEW w \in Writers, CommitFeedback(w) PROVE RatingInv'
  BY <1>5, CommitKeeps
<1>6. ASSUME NEW w \in Writers, RollBack(w) PROVE RatingInv'
  <2>1. writer' = [writer EXCEPT ![w] = NoWriter] /\ UNCHANGED <<feedback, rating, alone>>
    BY <1>6 DEF RollBack, Rolled
  <2> QED
    BY <1>a, <2>1, WriterKeeps
<1>7. CASE UNCHANGED ratingVars
  <2>1. UNCHANGED <<feedback, rating, writer, alone>>
    BY <1>7 DEF ratingVars
  <2> QED
    BY <1>0, <2>1 DEF RatingInv, RatingTypeOK, WriterRow, Loaded, InsertedOnce, AggregateFresh,
                      RatingExactWhenAlone, Open, Visible, Rated, Total
<1> QED
  BY <1>1, <1>2, <1>3, <1>4, <1>5, <1>6, <1>7 DEF RatingNext

LEMMA RatingInvariant == RatingInit /\ [][RatingNext]_ratingVars => []RatingInv
BY RatingStart, RatingStep, PTL

\* The rating is the exact count and sum of the feedback after every feedback
\* whose transaction no other one crossed, for any number of sessions, learners
\* and ratings (session.service.ts:391).
THEOREM RatingExact == RatingInit /\ [][RatingNext]_ratingVars => []RatingExactWhenAlone
<1>1. RatingInv => RatingExactWhenAlone
  BY DEF RatingInv
<1> QED
  BY <1>1, RatingInvariant, PTL

-----------------------------------------------------------------------------
(* All of them together, as the run has them: a behaviour of the whole is a   *)
(* behaviour of each part.                                                  *)

LEMMA Parts ==
  AllSpec => /\ Init /\ [][Next /\ Serial']_vars
             /\ LockInit /\ [][LockNext]_lockVars
             /\ MailInit /\ [][MailNext]_mailVars
             /\ LocksInit /\ [][LocksNext]_lockTableVars
             /\ RuleInit /\ [][RuleNext]_ruleVars
             /\ ReminderInit /\ [][ReminderNext]_reminderVars
             /\ RatingInit /\ [][RatingNext]_ratingVars
             /\ ReportInit /\ [][ReportNext]_reportVars
             /\ SeedInit /\ [][SeedNext]_seedVars
<1>1. AllInit => /\ Init /\ LockInit /\ MailInit /\ LocksInit /\ RuleInit /\ ReminderInit
                 /\ RatingInit /\ ReportInit /\ SeedInit
  BY DEF AllInit
<1>2. [AllNext]_AllVars => /\ [Next /\ Serial']_vars /\ [LockNext]_lockVars /\ [MailNext]_mailVars
                           /\ [LocksNext]_lockTableVars /\ [RuleNext]_ruleVars
                           /\ [ReminderNext]_reminderVars /\ [RatingNext]_ratingVars
                           /\ [ReportNext]_reportVars /\ [SeedNext]_seedVars
  <2>1. ASSUME AllNext
        PROVE  /\ [Next /\ Serial']_vars /\ [LockNext]_lockVars /\ [MailNext]_mailVars
               /\ [LocksNext]_lockTableVars /\ [RuleNext]_ruleVars
               /\ [ReminderNext]_reminderVars /\ [RatingNext]_ratingVars
               /\ [ReportNext]_reportVars /\ [SeedNext]_seedVars
    BY <2>1 DEF AllNext, Others
  <2>2. CASE UNCHANGED AllVars
    BY <2>2 DEF AllVars
  <2>3. QED
    BY <2>1, <2>2
<1>3. QED
  BY <1>1, <1>2, PTL DEF AllSpec

LEMMA CalendarPart == AllSpec => Spec /\ SerialSpec
<1>1. [Next /\ Serial']_vars => [Next]_vars
  OBVIOUS
<1>2. QED
  BY <1>1, Parts, PTL DEF Spec, SerialSpec

\* Every variable of the nine parts keeps its type, for any number of users, rows,
\* requests and runs.
THEOREM ServicesTyped == AllSpec => []TypesOK
<1>1. /\ LockInv => LockTypeOK
      /\ MailInv => MailTypeOK
      /\ RuleInv => RuleTypeOK
      /\ RatingInv => RatingTypeOK
      /\ SeedInv => SeedTypeOK
  BY DEF LockInv, MailInv, RuleInv, RuleTypeOK, RatingInv, SeedInv, SeedFlow
<1>2. /\ TypeOK /\ LockTypeOK /\ MailTypeOK /\ LocksTypeOK /\ RuleTypeOK
      /\ ReminderTypeOK /\ RatingTypeOK /\ ReportTypeOK /\ SeedTypeOK
      => TypesOK
  BY DEF TypesOK
<1>3. QED
  BY <1>1, <1>2, Parts, CalendarPart, TypeCorrect, LockInvariant, MailInvariant, LocksTyped, RuleInvariant,
     ReminderTyped, RatingInvariant, ReportTyped, SeedInvariant, PTL

\* What the run checks on small sets holds of the whole for any sets: the nine parts
\* keep their promises together.
THEOREM ServicesCorrect ==
  AllSpec => [](/\ LookbackSuffices /\ SameKindApart /\ SlotsCanBeBooked /\ LockoutExact
                /\ MailUsedOnce /\ DeadlocksAreUpgrades /\ ActiveRulesApart
                /\ RemindedOnce /\ NobodyForgotten /\ RatingExactWhenAlone
                /\ NoteKept /\ RerunRepairs)
BY Parts, CalendarPart, LookbackCovers, KindsApart, SlotsBookable, LockoutHolds, MailTokenOnce,
   OnlyUpgradesDeadlock, RulesApart, OneReminder, EveryoneReminded, RatingExact, NotesKept,
   SeedRepairs, PTL
=============================================================================

----------------------------- MODULE Reminders -----------------------------
(***************************************************************************)
(* The reminder job (session.service.ts, sendDueReminders): every quarter  *)
(* of an hour, and when asked to, a run lists the sessions that start in   *)
(* 55 to 70 minutes, and for each claims reminderSentAt before it sends.   *)
(* Runs may overlap and may be killed.                                     *)
(***************************************************************************)
EXTENDS Integers

CONSTANTS
  Booked,   \* sessions
  Runs,     \* runs of the job that may overlap
  FromTime, \* 55 minutes
  ToTime,   \* 70 minutes
  Cadence,  \* the schedule: a run every 15 minutes
  LastTime, \* BOUND: when the clock stops
  MaxKills  \* BOUND: runs killed

ASSUME ReminderConstants ==
  /\ FromTime \in Nat /\ ToTime \in Nat /\ FromTime < ToTime
  /\ Cadence \in Nat \ {0} /\ Cadence <= ToTime - FromTime
  /\ LastTime \in Nat /\ MaxKills \in Nat

VARIABLES
  startsAt, \* startsAt[s]: Session.scheduledAt, 0 before
  known,    \* known[s]: ghost, when s became SCHEDULED, -1 before
  off,      \* sessions cancelled
  claimed,  \* sessions whose reminderSentAt is set
  sent,     \* sent[s]: reminders sent to each party of s
  list,     \* list[j]: sessions run j has still to claim
  claim,    \* claim[j]: the session run j has claimed and not yet sent, if any
  lastRun,  \* when the schedule last fired
  minute,   \* the clock
  kills     \* runs killed so far

reminderVars == <<startsAt, known, off, claimed, sent, list, claim, lastRun, minute, kills>>

\* The schedule fired at zero, before any of these sessions existed.
ReminderInit ==
  /\ startsAt = [s \in Booked |-> 0]
  /\ known = [s \in Booked |-> -1]
  /\ off = {}
  /\ claimed = {}
  /\ sent = [s \in Booked |-> 0]
  /\ list = [j \in Runs |-> {}]
  /\ claim = [j \in Runs |-> {}]
  /\ lastRun = 0
  /\ minute = 0
  /\ kills = 0

Scheduled == {s \in Booked : known[s] >= 0} \ off

\* Slips a change to this code could make; none is part of the specification.
Within(s)       == minute + FromTime < startsAt[s] /\ startsAt[s] < minute + ToTime
ClaimedAnyway(s) == TRUE

\* By a booking, an acceptance or an update.
Schedule(s, at) ==
  /\ known[s] < 0
  /\ minute < at
  /\ startsAt' = [startsAt EXCEPT ![s] = at]
  /\ known' = [known EXCEPT ![s] = minute]
  /\ UNCHANGED <<off, claimed, sent, list, claim, lastRun, minute, kills>>

CancelSession(s) ==
  /\ s \in Scheduled
  /\ off' = off \cup {s}
  /\ UNCHANGED <<startsAt, known, claimed, sent, list, claim, lastRun, minute, kills>>

Due(s) == minute + FromTime <= startsAt[s] /\ startsAt[s] < minute + ToTime

\* A run is fired by the schedule, or by whoever may call the cron endpoint, and
\* lists what is due.
Fire(j) ==
  /\ list[j] = {} /\ claim[j] = {}
  /\ lastRun' = IF minute = lastRun + Cadence THEN minute ELSE lastRun
  /\ list' = [list EXCEPT ![j] = {s \in Scheduled \ claimed : Due(s)}]
  /\ UNCHANGED <<startsAt, known, off, claimed, sent, claim, minute, kills>>

Unclaimed(s) == s \notin claimed

Claim(j, s) ==
  /\ s \in list[j] /\ claim[j] = {}
  /\ list' = [list EXCEPT ![j] = @ \ {s}]
  /\ \/ /\ Unclaimed(s)
        /\ claimed' = claimed \cup {s}
        /\ claim' = [claim EXCEPT ![j] = {s}]
     \/ ~Unclaimed(s) /\ UNCHANGED <<claimed, claim>>
  /\ UNCHANGED <<startsAt, known, off, sent, lastRun, minute, kills>>

Send(j) ==
  /\ claim[j] # {}
  /\ sent' = [s \in Booked |-> sent[s] + IF s \in claim[j] THEN 1 ELSE 0]
  /\ claim' = [claim EXCEPT ![j] = {}]
  /\ UNCHANGED <<startsAt, known, off, claimed, list, lastRun, minute, kills>>

Kill(j) ==
  /\ list[j] \cup claim[j] # {}
  /\ kills < MaxKills
  /\ kills' = kills + 1
  /\ list' = [list EXCEPT ![j] = {}]
  /\ claim' = [claim EXCEPT ![j] = {}]
  /\ UNCHANGED <<startsAt, known, off, claimed, sent, lastRun, minute>>

\* The schedule is punctual: time does not pass a run that is due.
Tick ==
  /\ minute < LastTime
  /\ minute < lastRun + Cadence
  /\ minute' = minute + 1
  /\ UNCHANGED <<startsAt, known, off, claimed, sent, list, claim, lastRun, kills>>

ReminderNext ==
  \/ \E s \in Booked : CancelSession(s) \/ \E at \in 1 .. LastTime : Schedule(s, at)
  \/ \E j \in Runs : Fire(j) \/ Send(j) \/ Kill(j) \/ \E s \in Booked : Claim(j, s)
  \/ Tick

ReminderTypeOK ==
  /\ startsAt \in [Booked -> 0 .. LastTime]
  /\ known \in [Booked -> -1 .. LastTime]
  /\ off \subseteq Booked /\ claimed \subseteq Booked
  /\ sent \in [Booked -> Nat]
  /\ list \in [Runs -> SUBSET Booked] /\ claim \in [Runs -> SUBSET Booked]
  /\ lastRun \in 0 .. LastTime /\ minute \in 0 .. LastTime /\ kills \in 0 .. MaxKills

\* Nobody is reminded twice, however many runs have the session on their lists
\* (session.service.ts:550).
RemindedOnce == \A s \in Booked : sent[s] <= 1

\* While no run is killed, a session that was known in time and was not cancelled
\* is claimed, or on the list of a run, once its window has passed: windows of
\* punctual runs leave no gap (session.service.ts:532).
NobodyForgotten ==
  kills = 0 => \A s \in Scheduled :
    /\ known[s] >= 0 /\ known[s] + ToTime <= startsAt[s]
    /\ minute + FromTime > startsAt[s]
    => s \in claimed \/ \E j \in Runs : s \in list[j]
=============================================================================

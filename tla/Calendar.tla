------------------------------ MODULE Calendar ------------------------------
(***************************************************************************)
(* The times of one mentor's sessions: the two conflict queries, which     *)
(* fetch candidates through a window on scheduledAt and refine them by     *)
(* exact overlap (createSession against open and scheduled sessions,       *)
(* acceptRequest against scheduled ones only), and the weekly availability *)
(* as createRequest tests it and as getMentorSlots expands it.  A query    *)
(* and the insertion after it are two steps.                               *)
(***************************************************************************)
EXTENDS Integers

CONSTANTS
  SessionIds,   \* BOUND: sessions that may come to exist
  Handlers,     \* createSession and acceptRequest calls in flight at once
  Times,        \* times at which a session may begin, counted from a midnight
  Durations,    \* lengths of sessions (15..480 minutes in both schemas)
  Lookback,     \* how far before its start a query looks for sessions (8 h)
  DayLength,    \* DAY_MS
  SlotLength,   \* SLOT_MINUTES
  Days,         \* days somebody asks the slots of
  Rules,        \* the active weekly rules: [day, start, end], times of day
  Nowhen        \* no time

ASSUME CalendarConstants ==
  /\ Times \subseteq Nat
  /\ Durations \subseteq 1..Lookback
  /\ Lookback \in Nat
  /\ DayLength \in Nat \ {0}
  /\ SlotLength \in Nat \ {0}
  /\ Days \subseteq Nat
  /\ Rules \subseteq [day : 0..6, start : 0..DayLength - 1, end : 0..DayLength - 1]
  /\ Nowhen \notin Times

VARIABLES
  status,  \* Session.status; CANCELLED and COMPLETED are both "OVER"
  start,   \* Session.scheduledAt
  length,  \* Session.duration
  opened,  \* opened[x]: x was created by createSession, not by acceptRequest
  call     \* call[h]: the insertion that h has checked and not yet made

times == <<start, length, opened>>
vars  == <<status, times, call>>

-----------------------------------------------------------------------------
Statuses == {"ABSENT", "PENDING", "SCHEDULED", "OVER"}

NoCall == [op |-> "none", at |-> Nowhen, for |-> 0]
Calls  == [op : {"none", "open", "accept"}, at : Times \cup {Nowhen}, for : Durations \cup {0}]

Init ==
  /\ status = [x \in SessionIds |-> "ABSENT"]
  /\ start = [x \in SessionIds |-> 0]
  /\ length = [x \in SessionIds |-> 0]
  /\ opened = [x \in SessionIds |-> FALSE]
  /\ call = [h \in Handlers |-> NoCall]

-----------------------------------------------------------------------------
(* The conflict queries. *)

RangesOverlap(aStart, aEnd, bStart, bEnd) == aStart < bEnd /\ bStart < aEnd

End(x) == start[x] + length[x]

\* Session x takes place at some time of the d minutes from t.
Meets(x, t, d) == RangesOverlap(start[x], End(x), t, t + d)

\* Slips a change to this code could make; none is part of the specification.
BeginsBefore(x, t, d) == t - Lookback <= start[x] /\ start[x] < t
EndsInside(n, x)      == n * DayLength < End(x) /\ End(x) < (n + 1) * DayLength
ScheduledOnly         == {"SCHEDULED"}

\* The window on scheduledAt through which a query fetches its candidates.
InWindow(x, t, d) == t - Lookback <= start[x] /\ start[x] < t + d

Conflicts(among, t, d) ==
  {x \in SessionIds : status[x] \in among /\ InWindow(x, t, d) /\ Meets(x, t, d)}

Blocking == {"SCHEDULED", "PENDING"}     \* what createSession must not overlap

-----------------------------------------------------------------------------
(* The weekly availability. *)

\* The rules of the day that hold the whole session (createRequest).
RulesAround(t, d) ==
  LET minute == t % DayLength
  IN  {r \in Rules : /\ r.day = (t \div DayLength) % 7
                     /\ r.start <= minute /\ minute + d <= r.end}

Fits(t, d) == RulesAround(t, d) # {}

\* The sessions that day n's slots are compared with: those that begin on it.
OnDay(n, x) == n * DayLength <= start[x] /\ start[x] < (n + 1) * DayLength

Busy(n, t) ==
  \E x \in SessionIds : status[x] = "SCHEDULED" /\ OnDay(n, x) /\ Meets(x, t, SlotLength)

\* getMentorSlots for day n, which lies in the future.
Slots(n) ==
  {t \in {n * DayLength + m : m \in 0..DayLength} :
     /\ \E r \in Rules :
          LET offset == t - n * DayLength - r.start
          IN  /\ r.day = n % 7
              /\ offset >= 0 /\ offset % SlotLength = 0
              /\ r.start + offset + SlotLength <= r.end
     /\ ~Busy(n, t)}

-----------------------------------------------------------------------------
(* createSession and acceptRequest. *)

Call(h, op, t, d) == call' = [call EXCEPT ![h] = [op |-> op, at |-> t, for |-> d]]
Reply(h)          == call' = [call EXCEPT ![h] = NoCall]
Lasts(h)          == call[h].for

OpenCheck(h, t, d) ==
  /\ call[h] = NoCall
  /\ Conflicts(Blocking, t, d) = {}
  /\ Call(h, "open", t, d)
  /\ UNCHANGED <<status, times>>

\* The proposal fitted the availability when it was made.
AcceptCheck(h, t, d) ==
  /\ call[h] = NoCall
  /\ Fits(t, d)
  /\ Conflicts({"SCHEDULED"}, t, d) = {}
  /\ Call(h, "accept", t, d)
  /\ UNCHANGED <<status, times>>

Insert(h, x, op, st) ==
  /\ call[h].op = op
  /\ status[x] = "ABSENT"
  /\ status' = [status EXCEPT ![x] = st]
  /\ start' = [start EXCEPT ![x] = call[h].at]
  /\ length' = [length EXCEPT ![x] = Lasts(h)]
  /\ opened' = [opened EXCEPT ![x] = (op = "open")]
  /\ Reply(h)

OpenCommit(h, x)   == Insert(h, x, "open", "PENDING")
AcceptCommit(h, x) == Insert(h, x, "accept", "SCHEDULED")

Abandon(h) ==
  /\ call[h] # NoCall
  /\ Reply(h)
  /\ UNCHANGED <<status, times>>

\* bookSession, or updateSessionStatus to SCHEDULED: neither looks at other times.
Book(x) ==
  /\ status[x] = "PENDING"
  /\ status' = [status EXCEPT ![x] = "SCHEDULED"]
  /\ UNCHANGED <<times, call>>

\* updateSessionStatus or the auto-complete job.
Finish(x) ==
  /\ status[x] \in {"PENDING", "SCHEDULED"}
  /\ status' = [status EXCEPT ![x] = "OVER"]
  /\ UNCHANGED <<times, call>>

Handle(h) ==
  \/ \E t \in Times, d \in Durations : OpenCheck(h, t, d) \/ AcceptCheck(h, t, d)
  \/ \E x \in SessionIds : OpenCommit(h, x) \/ AcceptCommit(h, x)
  \/ Abandon(h)

Next ==
  \/ \E h \in Handlers : Handle(h)
  \/ \E x \in SessionIds : Book(x) \/ Finish(x)

Spec == Init /\ [][Next]_vars

\* No two calls of one kind for overlapping times are in flight at once: the
\* behaviours of the code with each query and its insertion under one lock.
Serial ==
  \A g, h \in Handlers :
    /\ g # h /\ call[g].op = call[h].op /\ call[g].op # "none"
    => ~RangesOverlap(call[g].at, call[g].at + call[g].for, call[h].at, call[h].at + call[h].for)

SerialSpec == Init /\ [][Next /\ Serial']_vars

-----------------------------------------------------------------------------
\* Every variable has its type; a session that exists lasts at most the look-back.
TypeOK ==
  /\ status \in [SessionIds -> Statuses]
  /\ start \in [SessionIds -> Nat]
  /\ length \in [SessionIds -> 0..Lookback]
  /\ opened \in [SessionIds -> BOOLEAN]
  /\ call \in [Handlers -> Calls]
  /\ \A h \in Handlers : call[h] # NoCall => call[h].at \in Times /\ call[h].for \in Durations

\* "Longest allowed session is 480 min, so an 8h look-back covers any overlap"
\* (session.service.ts:64): the window never hides a session that meets the time.
LookbackSuffices ==
  \A t \in Times, d \in Durations, x \in SessionIds :
    status[x] \in Blocking /\ Meets(x, t, d) => x \in Conflicts(Blocking, t, d)

\* When calls of one kind for overlapping times wait for each other, two sessions of a
\* mentor that were both opened, or both accepted, never overlap, whatever is booked, settled and inserted in between.  One
\* opened and one accepted may: acceptRequest does not look at open sessions, and
\* bookSession looks at none.
SameKindApart ==
  \A x, y \in SessionIds :
    /\ x # y /\ status[x] \in Blocking /\ status[y] \in Blocking
    /\ opened[x] = opened[y]
    => ~Meets(x, start[y], length[y])

\* A slot that is offered can be requested, and accepted, as it stands, unless a
\* session that began on an earlier day runs into it: the three computations of the
\* availability (availability.service.ts, createRequest, acceptRequest) agree.
SlotsCanBeBooked ==
  \A n \in Days : \A t \in Slots(n) :
    /\ Fits(t, SlotLength)
    /\ \A x \in Conflicts({"SCHEDULED"}, t, SlotLength) : start[x] < n * DayLength

\* "excluding times already taken by a SCHEDULED session"
\* (availability.service.ts:92).
SlotsAreFree ==
  \A n \in Days : \A t \in Slots(n), x \in SessionIds :
    status[x] = "SCHEDULED" => ~Meets(x, t, SlotLength)
=============================================================================

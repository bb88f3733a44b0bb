--------------------------- MODULE CalendarProofs ---------------------------
(***************************************************************************)
(* What holds of the calendar for every set of times, durations and rules: *)
(* the eight-hour window misses nothing, offered slots fit the rules and   *)
(* meet no session of their day, and when overlapping calls of one kind    *)
(* wait for each other, each check keeps its own kind of session apart.    *)
(***************************************************************************)
EXTENDS Calendar, TLAPS

-----------------------------------------------------------------------------
(* Typing. *)

LEMMA Bounds ==
  /\ Times \subseteq Nat /\ Lookback \in Nat
  /\ \A d \in Durations : d \in Nat /\ d \in 0..Lookback
<1>1. Times \subseteq Nat /\ Lookback \in Nat /\ Durations \subseteq 1..Lookback
  BY CalendarConstants
<1> QED
  BY <1>1

LEMMA CallTyped ==
  ASSUME TypeOK, NEW h \in Handlers, call[h].op # "none"
  PROVE  call[h].at \in Times /\ call[h].for \in Durations
BY DEF TypeOK, NoCall

LEMMA TypeInit == Init => TypeOK
BY CalendarConstants DEF Init, TypeOK, Statuses, Calls, NoCall

LEMMA TypeInsert ==
  ASSUME TypeOK, NEW h \in Handlers, NEW x \in SessionIds,
         NEW op \in {"open", "accept"}, NEW st \in {"PENDING", "SCHEDULED"}, Insert(h, x, op, st)
  PROVE  TypeOK'
<1>1. call[h].at \in Times /\ call[h].for \in Durations
  BY CallTyped DEF Insert
<1>2. call[h].at \in Nat /\ call[h].for \in 0..Lookback
  BY <1>1, Bounds
<1>3. status' \in [SessionIds -> Statuses] /\ opened' \in [SessionIds -> BOOLEAN]
  BY DEF Insert, TypeOK, Statuses
<1>4. start' \in [SessionIds -> Nat] /\ length' \in [SessionIds -> 0..Lookback]
  BY <1>2 DEF Insert, Lasts, TypeOK
<1>5. /\ call' \in [Handlers -> Calls]
      /\ \A g \in Handlers : call'[g] # NoCall => call'[g] = call[g]
  BY DEF Insert, Reply, TypeOK, Calls, NoCall
<1> QED
  BY <1>3, <1>4, <1>5 DEF TypeOK

LEMMA TypeCall ==
  ASSUME TypeOK, NEW h \in Handlers, NEW op \in {"open", "accept"},
         NEW t \in Times, NEW d \in Durations, Call(h, op, t, d), UNCHANGED <<status, times>>
  PROVE  TypeOK'
<1>1. call' \in [Handlers -> Calls]
  BY DEF Call, TypeOK, Calls
<1>2. \A g \in Handlers : call'[g] # NoCall => call'[g].at \in Times /\ call'[g].for \in Durations
  BY DEF Call, TypeOK
<1> QED
  BY <1>1, <1>2 DEF TypeOK, times

LEMMA TypeStep == TypeOK /\ [Next]_vars => TypeOK'
<1> SUFFICES ASSUME TypeOK, [Next]_vars PROVE TypeOK'
  OBVIOUS
<1>1. ASSUME NEW h \in Handlers, NEW t \in Times, NEW d \in Durations,
             OpenCheck(h, t, d) \/ AcceptCheck(h, t, d)
      PROVE  TypeOK'
  BY <1>1, TypeCall DEF OpenCheck, AcceptCheck
<1>2. ASSUME NEW h \in Handlers, NEW x \in SessionIds, OpenCommit(h, x) \/ AcceptCommit(h, x)
      PROVE  TypeOK'
  BY <1>2, TypeInsert DEF OpenCommit, AcceptCommit
<1>3. ASSUME NEW h \in Handlers, Abandon(h) PROVE TypeOK'
  BY <1>3 DEF Abandon, Reply, TypeOK, times, Calls, NoCall
<1>4. ASSUME NEW x \in SessionIds, Book(x) \/ Finish(x) PROVE TypeOK'
  BY <1>4 DEF Book, Finish, TypeOK, times, Statuses
<1>5. CASE UNCHANGED vars
  BY <1>5 DEF vars, times, TypeOK
<1> QED
  BY <1>1, <1>2, <1>3, <1>4, <1>5 DEF Next, Handle

\* Every reachable state is well typed; no session outlasts the look-back.
THEOREM TypeCorrect == Spec => []TypeOK
BY TypeInit, TypeStep, PTL DEF Spec

-----------------------------------------------------------------------------
(* The window. *)

\* Whatever meets the d minutes from t lies in the window on scheduledAt.
LEMMA WindowCovers ==
  ASSUME TypeOK, NEW x \in SessionIds, NEW t \in Nat, NEW d \in Nat, Meets(x, t, d)
  PROVE  InWindow(x, t, d)
<1>1. start[x] \in Nat /\ length[x] \in 0..Lookback /\ Lookback \in Nat
  BY CalendarConstants DEF TypeOK
<1> QED
  BY <1>1 DEF Meets, RangesOverlap, End, InWindow

LEMMA LookbackEnough == TypeOK => LookbackSuffices
<1> SUFFICES ASSUME TypeOK, NEW t \in Times, NEW d \in Durations, NEW x \in SessionIds,
                    status[x] \in Blocking, Meets(x, t, d)
             PROVE  x \in Conflicts(Blocking, t, d)
  BY DEF LookbackSuffices
<1>1. t \in Nat /\ d \in Nat
  BY Bounds
<1> QED
  BY <1>1, WindowCovers DEF Conflicts

\* "Longest allowed session is 480 min, so an 8h look-back covers any overlap".
THEOREM LookbackCovers == Spec => []LookbackSuffices
BY TypeCorrect, LookbackEnough, PTL

-----------------------------------------------------------------------------
(* Sessions of one kind. *)

\* A session that was accepted is never open.
AcceptedBooked == \A x \in SessionIds : status[x] = "PENDING" => opened[x]

\* The kind of call that created a session.
Kind(x) == IF opened[x] THEN "open" ELSE "accept"

\* What a check found free is still free of sessions of its own kind.
CallClear ==
  \A h \in Handlers, x \in SessionIds :
    status[x] \in Blocking /\ call[h].op = Kind(x) => ~Meets(x, call[h].at, call[h].for)

IInv == TypeOK /\ Serial /\ AcceptedBooked /\ CallClear /\ SameKindApart

LEMMA ApartInit == Init => IInv
<1> SUFFICES ASSUME Init PROVE IInv
  OBVIOUS
<1>1. \A x \in SessionIds : status[x] = "ABSENT"
  BY DEF Init
<1> QED
  BY <1>1, TypeInit DEF Init, NoCall, IInv, Serial, AcceptedBooked, CallClear, SameKindApart, Blocking

\* Two sessions either both meet each other or neither does.
LEMMA MeetsSymmetric ==
  ASSUME TypeOK, NEW x \in SessionIds, NEW y \in SessionIds
  PROVE  Meets(x, start[y], length[y]) <=> Meets(y, start[x], length[x])
<1>1. start[x] \in Nat /\ start[y] \in Nat /\ length[x] \in Nat /\ length[y] \in Nat
  BY CalendarConstants DEF TypeOK
<1> QED
  BY <1>1 DEF Meets, RangesOverlap, End

\* A call whose query came back empty is clear of the sessions the query looks at.
LEMMA CheckedClear ==
  ASSUME TypeOK, NEW t \in Times, NEW d \in Durations, NEW among,
         Conflicts(among, t, d) = {}, NEW x \in SessionIds, status[x] \in among
  PROVE  ~Meets(x, t, d)
<1>1. t \in Nat /\ d \in Nat
  BY Bounds
<1> QED
  BY <1>1, WindowCovers DEF Conflicts

LEMMA ApartCheck ==
  ASSUME IInv, NEW h \in Handlers, NEW t \in Times, NEW d \in Durations,
         OpenCheck(h, t, d) \/ AcceptCheck(h, t, d)
  PROVE  AcceptedBooked' /\ CallClear' /\ SameKindApart'
<1>1. UNCHANGED <<status, start, length, opened>>
  BY DEF OpenCheck, AcceptCheck, times
<1>2. AcceptedBooked' /\ SameKindApart'
  BY <1>1 DEF IInv, AcceptedBooked, SameKindApart, Blocking, Meets, End
<1>3. ASSUME NEW g \in Handlers, NEW x \in SessionIds, status[x] \in Blocking,
             call'[g].op = Kind(x)
      PROVE  ~Meets(x, call[g].at, call[g].for)'
  <2>1. CASE g # h
    <3>1. call'[g] = call[g]
      BY <2>1 DEF OpenCheck, AcceptCheck, Call, IInv, TypeOK
    <3> QED
      BY <1>1, <1>3, <3>1 DEF IInv, CallClear, Meets, End
  <2>2. CASE g = h /\ OpenCheck(h, t, d)
    <3>1. call'[g] = [op |-> "open", at |-> t, for |-> d]
      BY <2>2 DEF OpenCheck, Call, IInv, TypeOK
    <3>2. ~Meets(x, t, d)
      <4>1. Conflicts(Blocking, t, d) = {} /\ TypeOK
        BY <2>2 DEF OpenCheck, IInv
      <4> QED
        BY <1>3, <4>1, CheckedClear
    <3> QED
      BY <1>1, <3>1, <3>2 DEF Meets, End
  <2>3. CASE g = h /\ AcceptCheck(h, t, d)
    <3>1. call'[g] = [op |-> "accept", at |-> t, for |-> d]
      BY <2>3 DEF AcceptCheck, Call, IInv, TypeOK
    <3>2. status[x] = "SCHEDULED"
      BY <1>3, <3>1 DEF IInv, AcceptedBooked, Blocking, Kind
    <3>3. ~Meets(x, t, d)
      <4>1. Conflicts({"SCHEDULED"}, t, d) = {} /\ TypeOK /\ status[x] \in {"SCHEDULED"}
        BY <2>3, <3>2 DEF AcceptCheck, IInv
      <4> QED
        BY <4>1, CheckedClear
    <3> QED
      BY <1>1, <3>1, <3>3 DEF Meets, End
  <2> QED
    BY <2>1, <2>2, <2>3
<1>4. CallClear'
  BY <1>1, <1>3 DEF CallClear, Blocking, Kind
<1> QED
  BY <1>2, <1>4

LEMMA ApartInsert ==
  ASSUME IInv, NEW h \in Handlers, NEW x \in SessionIds,
         OpenCommit(h, x) \/ AcceptCommit(h, x)
  PROVE  AcceptedBooked' /\ CallClear' /\ SameKindApart'
<1> USE DEF IInv
<1>1. PICK op \in {"open", "accept"}, st \in {"PENDING", "SCHEDULED"} :
        Insert(h, x, op, st) /\ (st = "PENDING" => op = "open")
  BY DEF OpenCommit, AcceptCommit
<1>2. /\ status' = [status EXCEPT ![x] = st]
      /\ start' = [start EXCEPT ![x] = call[h].at]
      /\ length' = [length EXCEPT ![x] = call[h].for]
      /\ opened' = [opened EXCEPT ![x] = (op = "open")]
      /\ call[h].op = op
  BY <1>1 DEF Insert, Lasts
<1>3. /\ status'[x] = st /\ start'[x] = call[h].at /\ length'[x] = call[h].for
      /\ opened'[x] = (op = "open")
  BY <1>2 DEF TypeOK
<1>4. \A y \in SessionIds : y # x =>
        /\ status'[y] = status[y] /\ start'[y] = start[y] /\ length'[y] = length[y]
        /\ opened'[y] = opened[y]
  BY <1>2 DEF TypeOK
<1>5. TypeOK'
  BY <1>1, TypeInsert
<1>6. AcceptedBooked'
  BY <1>1, <1>3, <1>4 DEF AcceptedBooked
<1>7. CallClear'
  <2>1. ASSUME NEW g \in Handlers, NEW y \in SessionIds, status'[y] \in Blocking, call'[g].op = Kind(y)'
        PROVE  ~Meets(y, call[g].at, call[g].for)'
    <3>1. g # h /\ call'[g] = call[g] /\ call[g].op # "none"
      BY <1>1, <2>1 DEF Insert, Reply, NoCall, TypeOK, Kind
    <3>2. CASE y # x
      BY <1>4, <2>1, <3>1, <3>2 DEF CallClear, Kind, Meets, End
    <3>3. CASE y = x
      <4>1. call[g].op = call[h].op
        BY <1>2, <1>3, <2>1, <3>1, <3>3 DEF Kind
      <4>2. ~RangesOverlap(call[h].at, call[h].at + call[h].for, call[g].at, call[g].at + call[g].for)
        BY <3>1, <4>1 DEF Serial
      <4> QED
        BY <1>3, <3>1, <3>3, <4>2 DEF Meets, End
    <3> QED
      BY <3>2, <3>3
  <2> QED
    BY <2>1 DEF CallClear
<1>8. ASSUME NEW y \in SessionIds, y # x, status'[y] \in Blocking, opened'[y] = opened'[x]
      PROVE  ~Meets(y, start[x], length[x])'
  <2>1. ~Meets(y, call[h].at, call[h].for)
    BY <1>2, <1>3, <1>4, <1>8 DEF CallClear, Kind
  <2> QED
    BY <2>1, <1>3, <1>4, <1>8 DEF Meets, End
<1>9. ASSUME NEW y \in SessionIds, NEW z \in SessionIds, y # z, y # x, z # x,
             status'[y] \in Blocking, status'[z] \in Blocking, opened'[y] = opened'[z]
      PROVE  ~Meets(y, start[z], length[z])'
  <2>1. ~Meets(y, start[z], length[z])
    BY <1>4, <1>9 DEF SameKindApart
  <2> QED
    BY <2>1, <1>4, <1>9 DEF Meets, End
<1>10. ASSUME NEW y \in SessionIds, NEW z \in SessionIds
       PROVE  Meets(y, start[z], length[z])' <=> Meets(z, start[y], length[y])'
  <2>1. start'[y] \in Nat /\ start'[z] \in Nat /\ length'[y] \in Nat /\ length'[z] \in Nat
    BY <1>5, CalendarConstants DEF TypeOK
  <2> QED
    BY <2>1 DEF Meets, RangesOverlap, End
<1>11. SameKindApart'
  BY <1>8, <1>9, <1>10 DEF SameKindApart, Blocking
<1> QED
  BY <1>6, <1>7, <1>11

LEMMA ApartRest ==
  ASSUME IInv,
         \/ \E h \in Handlers : Abandon(h)
         \/ \E x \in SessionIds : Book(x) \/ Finish(x)
         \/ UNCHANGED vars
  PROVE  AcceptedBooked' /\ CallClear' /\ SameKindApart'
<1> USE DEF IInv
<1>1. UNCHANGED <<start, length, opened>>
  BY DEF Abandon, Book, Finish, vars, times
<1>2. \A x \in SessionIds :
        /\ status'[x] \in Blocking => status[x] \in Blocking
        /\ status'[x] = "PENDING" => status[x] = "PENDING"
  BY DEF Abandon, Book, Finish, vars, times, TypeOK, Blocking
<1>3. \A g \in Handlers : call'[g] = call[g] \/ call'[g].op = "none"
  BY DEF Abandon, Book, Finish, vars, times, Reply, NoCall, TypeOK
<1>4. AcceptedBooked'
  BY <1>1, <1>2 DEF AcceptedBooked
<1>5. SameKindApart'
  BY <1>1, <1>2 DEF SameKindApart, Meets, End, Blocking
<1>6. CallClear'
  BY <1>1, <1>2, <1>3 DEF CallClear, Kind, Meets, End, Blocking
<1> QED
  BY <1>4, <1>5, <1>6

LEMMA ApartStep == IInv /\ [Next /\ Serial']_vars => IInv'
<1> SUFFICES ASSUME IInv, [Next /\ Serial']_vars PROVE IInv'
  OBVIOUS
<1>1. [Next]_vars
  OBVIOUS
<1>2. Serial'
  BY DEF IInv, Serial, vars
<1>3. TypeOK'
  BY <1>1, TypeStep DEF IInv
<1>4. AcceptedBooked' /\ CallClear' /\ SameKindApart'
  BY <1>1, ApartCheck, ApartInsert, ApartRest DEF Next, Handle
<1> QED
  BY <1>2, <1>3, <1>4 DEF IInv

\* When overlapping calls of one kind wait for each other, two opened or two accepted
\* sessions never overlap, whatever the calls of the other kind do meanwhile
\* (session.service.ts:38, booking.service.ts:172).
THEOREM KindsApart == SerialSpec => []SameKindApart
<1>1. IInv => SameKindApart
  BY DEF IInv
<1> QED
  BY <1>1, ApartInit, ApartStep, PTL DEF SerialSpec

-----------------------------------------------------------------------------
(* The slots. *)

\* The minute m of day n, when days are numbered from a midnight.
LEMMA MinuteOfDay ==
  ASSUME NEW n \in Nat, NEW m \in 0..DayLength - 1
  PROVE  /\ (n * DayLength + m) \div DayLength = n
         /\ (n * DayLength + m) % DayLength = m
         /\ (n + 1) * DayLength = n * DayLength + DayLength
         /\ n * DayLength \in Nat
<1>1. DayLength \in Nat /\ DayLength > 0
  BY CalendarConstants
<1> QED
  BY <1>1, SMTT(60)

\* What makes a time a slot of a day: a rule of the day around it, and a free hour.
LEMMA SlotShape ==
  ASSUME NEW n \in Days, NEW t \in Slots(n)
  PROVE  \E m \in Nat, r \in Rules :
           /\ t = n * DayLength + m
           /\ r.day = n % 7 /\ r.start <= m /\ m + SlotLength <= r.end
           /\ ~Busy(n, t)
<1>1. PICK m \in 0..DayLength, r \in Rules :
        LET offset == t - n * DayLength - r.start
        IN  /\ t = n * DayLength + m
            /\ r.day = n % 7 /\ offset >= 0 /\ r.start + offset + SlotLength <= r.end
            /\ ~Busy(n, t)
  BY DEF Slots
<1>2. /\ n * DayLength \in Nat /\ m \in Nat /\ r.start \in Nat /\ r.end \in Nat
      /\ SlotLength \in Nat
  <2>1. n \in Nat /\ DayLength \in Nat /\ SlotLength \in Nat
    BY CalendarConstants
  <2>2. r \in [day : 0..6, start : 0..DayLength - 1, end : 0..DayLength - 1]
    BY CalendarConstants
  <2> QED
    BY <2>1, <2>2
<1>3. r.start <= m /\ m + SlotLength <= r.end
  <2> DEFINE base == n * DayLength
  <2>1. base \in Nat /\ t = base + m
    BY <1>1, <1>2
  <2>2. t - base - r.start >= 0 /\ r.start + (t - base - r.start) + SlotLength <= r.end
    BY <1>1
  <2> HIDE DEF base
  <2> QED
    BY <1>2, <2>1, <2>2
<1> QED
  BY <1>1, <1>2, <1>3

LEMMA SlotsAgree == TypeOK => SlotsCanBeBooked
<1> SUFFICES ASSUME TypeOK, NEW n \in Days, NEW t \in Slots(n)
             PROVE  /\ Fits(t, SlotLength)
                    /\ \A x \in Conflicts({"SCHEDULED"}, t, SlotLength) :
                         start[x] < n * DayLength
  BY DEF SlotsCanBeBooked
<1>1. PICK m \in Nat, r \in Rules :
        /\ t = n * DayLength + m
        /\ r.day = n % 7 /\ r.start <= m /\ m + SlotLength <= r.end
        /\ ~Busy(n, t)
  BY SlotShape
<1>2. n \in Nat /\ SlotLength \in Nat \ {0} /\ DayLength \in Nat \ {0}
  BY CalendarConstants
<1>3. r.end \in 0..DayLength - 1
  BY CalendarConstants
<1>4. m \in 0..DayLength - 1
  BY <1>1, <1>2, <1>3
<1>5. Fits(t, SlotLength)
  <2>1. t \div DayLength = n /\ t % DayLength = m
    BY <1>1, <1>2, <1>4, MinuteOfDay
  <2>2. r \in RulesAround(t, SlotLength)
    BY <1>1, <2>1 DEF RulesAround
  <2> QED
    BY <2>2 DEF Fits
<1>6. ASSUME NEW x \in Conflicts({"SCHEDULED"}, t, SlotLength)
      PROVE  start[x] < n * DayLength
  <2>1. x \in SessionIds /\ status[x] = "SCHEDULED" /\ Meets(x, t, SlotLength)
    BY <1>6 DEF Conflicts
  <2>2. ~OnDay(n, x)
    BY <1>1, <2>1 DEF Busy
  <2>3. start[x] \in Nat /\ start[x] < t + SlotLength
    BY <2>1 DEF TypeOK, Meets, RangesOverlap
  <2>4. /\ (n + 1) * DayLength = n * DayLength + DayLength
        /\ n * DayLength \in Nat
    BY <1>2, <1>4, MinuteOfDay
  <2>5. n * DayLength <= start[x] => start[x] >= n * DayLength + DayLength
    <3>1. ~(n * DayLength <= start[x] /\ start[x] < n * DayLength + DayLength)
      BY <2>2, <2>4 DEF OnDay
    <3> DEFINE base == n * DayLength
    <3>2. base \in Nat /\ ~(base <= start[x] /\ start[x] < base + DayLength)
      BY <2>4, <3>1
    <3> HIDE DEF base
    <3>3. base <= start[x] => start[x] >= base + DayLength
      BY <1>2, <2>3, <3>2
    <3> QED
      BY <3>3 DEF base
  <2> DEFINE base == n * DayLength
  <2>6. /\ base \in Nat /\ start[x] < base + m + SlotLength
        /\ base <= start[x] => start[x] >= base + DayLength
    BY <1>1, <2>3, <2>4, <2>5
  <2> HIDE DEF base
  <2>7. start[x] < base
    BY <1>1, <1>2, <1>3, <2>3, <2>6
  <2> QED
    BY <2>7 DEF base
<1> QED
  BY <1>5, <1>6

\* A slot that is offered fits the rules and meets no session that began on its day.
THEOREM SlotsBookable == Spec => []SlotsCanBeBooked
BY TypeCorrect, SlotsAgree, PTL
=============================================================================

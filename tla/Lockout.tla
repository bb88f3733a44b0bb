------------------------------ MODULE Lockout ------------------------------
(***************************************************************************)
(* The lockout of one account after failed logins (auth.service.ts,        *)
(* login).  The row is read, the password is compared, which takes a while,*)
(* and the counter and the lock are written back from what was read.       *)
(***************************************************************************)
EXTENDS Integers

CONSTANTS
  Logins,     \* logins in flight at once
  MaxFailed,  \* MAX_FAILED_ATTEMPTS
  LockTime,   \* LOCK_DURATION_MS, in ticks
  LastTick,   \* BOUND: when the clock stops
  MaxTries    \* BOUND: failed logins in a row

ASSUME LockoutConstants ==
  MaxFailed \in Nat \ {0} /\ LockTime \in Nat \ {0} /\ LastTick \in Nat \ {0} /\ MaxTries \in Nat

VARIABLES
  lock,     \* failedLoginAttempts and lockedUntil, 0 for null
  login,    \* login[l]: the columns it read
  tick,     \* the clock
  failures, \* ghost: failed logins since the last successful one, and the last one's time
  stale     \* ghost: a failed login wrote back columns that had changed since it read them

lockVars == <<lock, login, tick, failures, stale>>

Columns == [attempts : 0 .. MaxTries, until : 0 .. LastTick + LockTime]

LockInit ==
  /\ lock = [attempts |-> 0, until |-> 0]
  /\ login = [l \in Logins |-> [busy |-> FALSE, seen |-> lock]]
  /\ tick = 1
  /\ failures = [count |-> 0, last |-> 0]
  /\ stale = FALSE

\* A slip a change to this code could make.
LockAfter(attempts) == attempts > MaxFailed

Done(l) == login' = [login EXCEPT ![l].busy = FALSE, ![l].seen = [attempts |-> 0, until |-> 0]]

\* The row is read; a lock that has not run out refuses the login.
LoadUser(l) ==
  /\ ~login[l].busy
  /\ lock.until <= tick
  /\ login' = [login EXCEPT ![l] = [busy |-> TRUE, seen |-> lock]]
  /\ UNCHANGED <<lock, tick, failures, stale>>

ShouldLock(attempts) == attempts >= MaxFailed

WrongPassword(l) ==
  LET seen == login[l].seen IN
  /\ login[l].busy
  /\ seen.attempts < MaxTries /\ failures.count < MaxTries
  /\ lock' = [attempts |-> seen.attempts + 1,
              until |-> IF ShouldLock(seen.attempts + 1) THEN tick + LockTime ELSE seen.until]
  /\ failures' = [count |-> failures.count + 1, last |-> tick]
  /\ stale' = (stale \/ seen # lock)
  /\ Done(l)
  /\ UNCHANGED tick

RightPassword(l) ==
  /\ login[l].busy
  /\ lock' = [attempts |-> 0, until |-> 0]
  /\ failures' = [count |-> 0, last |-> 0]
  /\ Done(l)
  /\ UNCHANGED <<tick, stale>>

DropLogin(l) == login[l].busy /\ Done(l) /\ UNCHANGED <<lock, tick, failures, stale>>

LockTick == tick < LastTick /\ tick' = tick + 1 /\ UNCHANGED <<lock, login, failures, stale>>

LockNext ==
  \/ \E l \in Logins : LoadUser(l) \/ WrongPassword(l) \/ RightPassword(l) \/ DropLogin(l)
  \/ LockTick

LockTypeOK ==
  /\ lock \in Columns
  /\ login \in [Logins -> [busy : BOOLEAN, seen : Columns]]
  /\ tick \in 1 .. LastTick
  /\ failures \in [count : 0 .. MaxTries, last : 0 .. LastTick]
  /\ stale \in BOOLEAN

\* The columns tell what happened, unless a failed login wrote back what another
\* had changed meanwhile: every failure since the last success counts, and from
\* the fifth on the account is locked for the whole time after the last of them
\* (auth.service.ts:192; the stale write may even lift a lock).
LockoutExact ==
  ~stale => /\ lock.attempts = failures.count
            /\ failures.count >= MaxFailed => lock.until = failures.last + LockTime
            /\ failures.count < MaxFailed => lock.until = 0
=============================================================================

# SkillSwap: formal model

TLA+ modules, TLC configurations and TLAPS proofs about the SkillSwap backend: an Express API over
PostgreSQL (through Prisma) in which learners spend credits on sessions with mentors. Paths below are
relative to the repository; `session.service.ts` stands for `src/modules/sessions/session.service.ts`,
and so on.

## 1. The system

The program keeps no state in memory except a small cache: everything else is rows of PostgreSQL. It
runs as serverless functions (`api/index.ts`, killed after `maxDuration`) or as one long-lived process,
so any number of requests and jobs interleave, at every `await`, and any of them may be cut off.
Transactions run at PostgreSQL's default level READ COMMITTED. A handler typically reads rows, checks
them, and writes afterwards; whether that is sound depends on what guards the write.

| Component | State | Operations | Hard behaviour | What makes it correct | Module |
| --- | --- | --- | --- | --- | --- |
| Credit ledger (`credit.service.ts`, `register`) | `User.creditBalance`, `credit_transactions` | `transfer`, `adminAdjust`, registration bonus | transactions of one user interleave, fail at any statement | never below zero, ledger explains balance, movements atomic | CreditLedger, Accounts |
| Sessions (`session.service.ts`) | `Session` rows, `totalSessionsTaught` | create, book, update status, auto-complete | slot races; status read before the transaction; price and clock move; overlapping and killed job runs | one learner wins; held credits are settled once, exactly, to the right party | Sessions, Escrow, Calendar |
| Booking requests (`booking.service.ts`) | `BookingRequest` rows, link to the session | create, accept, reject, cancel, expire | every answer writes by id alone; unlocked conflict query | one answer; one session; no double booking; debit with session | BookingRequests, Calendar |
| Skills and caches (`skill.service.ts`, `cache.ts`, dashboard) | `Skill` rows, cached lists per instance | create, update, delete, list | a fill races an eviction; instances know nothing of each other; price changes under bookings | no instance serves a stale list for ever | SkillCache, Sessions (`Reprice`) |
| Authentication (`auth.service.ts`, `middleware/auth.ts`) | refresh tokens, token version | login, refresh, logout, password change and reset | concurrent refresh, statements without a transaction | one live token per family; changed passwords, burnt families and deletions reach tokens in flight | Tokens |
| Lockout (`auth.service.ts`, login) | `failedLoginAttempts`, `lockedUntil` | failed and successful login | counter read, awaited, written back | counter exact, lock lasts | Lockout |
| Mailed links (`auth.service.ts`) | `VerificationToken` rows | forgot, reset, verify, resend | check, effect and mark are three statements | a token works once | MailTokens |
| User administration (`user.service.ts`) | role, `isActive`, `deletedAt` | role change, deactivate, activate, delete | a signed role outlives the change; deletion races an activation | a role change takes hold; deleted accounts stay out | Roles, Tokens |
| Mentor applications (`mentor.service.ts`) | `mentorStatus`, role | apply, review | check-then-write | an application is decided once | Roles |
| Availability (`availability.service.ts`) | weekly rules | create, update, delete, slots | overlap check without a lock; midnight | active rules apart; offered slots bookable | WeeklyRules, Calendar |
| Feedback and ratings (`session.service.ts`) | `Feedback`, `ratingAvg`, `ratingCount` | add feedback | aggregates that miss uncommitted rows | rating equals the feedback | Ratings |
| Reminders (`session.service.ts`) | `reminderSentAt` | `sendDueReminders` | overlapping and killed runs; window edges | at most one reminder, and one | Reminders |
| Reports and audit log (`report.service.ts`, `auditLog.ts`) | `Report`, `AuditLog` rows | create, resolve, audit | read, then write back; audit row after the answer | no note lost; trail never ahead | Reports |
| Database (`prisma/client.ts`, schema) | row locks | lock modes of whole transactions | lock order, deadlock detector | who can deadlock is known | TxLocks, CreditLedger |
| Seed (`prisma/seed.ts`) | every table | `main` | killed anywhere, run again on data in use | a completed run leaves coherent data | Seed |
| Scheduler (`jobs/`, `internal.routes.ts`, `vercel.json`) | none | four jobs, by schedule or by request | overlapping, killed, late runs | work left behind is picked up | in the modules of the jobs |
| Notifications, e-mail, dashboard queries, HTTP shell, API docs | rows nobody decides on, or none | | | | partly or not, section 6 |

How they interact: sessions, requests and registration call `creditService.transfer` inside their own
transaction; `acceptRequest` inserts a session; the expire and auto-complete jobs compete with the
handlers for the same rows; a change of a skill's `creditCost` changes what the next read of it sees; a
role or a token version is read when a token is signed and compared, or not, when it is used; every
handler sends notifications after its commit, without waiting for them.

## 2. Modules

    Accounts <-implements- CreditLedger    Escrow <-implements- Sessions, BookingRequests    Tokens

    MCServices: Calendar, Lockout, MailTokens, TxLocks, WeeklyRules, Reminders, Ratings, Reports, Seed
    MCAccess:   Roles, SkillCache

    CreditLedgerProofs, SessionsProofs, BookingRequestsProofs, TokensProofs, CalendarProofs, SeedProofs:
                each of the module it is named after
    ServicesProofs: the other parts of MCServices, Roles, and MCServices as a whole
    SumTheorems:    sums over finite sets and over sequences, for the proofs that add up credits and stars

In all modules an action with a name of the code is a handler or a step of one. A block of alternatives
near the top of a module lists slips a change to the code could make (a guard forgotten, a stale price);
the specification does not use them; they exist so that each property can be shown to fail under one.
Some modules record in *ghost* variables what happened (a use of a token, an overlap of two requests):
no guard reads them but the named bounds.

### Money

**Accounts** states what balances promise: an account opens with the starter credits and then changes
by atomic movements that leave it in `0..MaxInt`.

**CreditLedger** is `transfer` statement by statement. A transaction `t` has a program counter
`pc[t]`: `select` (the `SELECT ... FOR UPDATE`, credit.service.ts:47), `update` (the guard and the
balance write, :54-63), `insert` (the ledger row, :65-74), `commit`. `lock[u]` is the row lock,
`seen[t]` the balance read under it. Uncommitted writes live in `seen` and `job` and reach `balance`,
`ledger` and `accounts` in `Commit`, which is what READ COMMITTED shows to others. `Fail(t)` rolls back
at any statement. A registration creates the row with balance 0 and makes its first movement in the
same transaction (auth.service.ts:127-150): it waits on, and may lose against, the unique e-mail.

**Sessions** treats a transaction as one step. Two facts justify this. Each of its transactions first
writes, and so locks, the session's row, so two transactions on one session do not interleave (a newly
inserted session is invisible until its commit); and `transfer` is atomic with respect to every other
movement, which is what `CreditLedger` shows (`ImplementsAccounts`, proved). What is *not* atomic is
modelled as separate steps: `BookLoad` and `UpdateLoad` read the session, the skill's price and the
balance outside of any transaction and keep what the code keeps in `request[h]`; `BookCommit` and the
`...Commit` actions of updateSessionStatus run later, on whatever the rows are by then. `bookSession`
commits under a guard in the WHERE clause (`Available`), `updateSessionStatus` under none, the job under
`StillScheduled`. The job reads its list at once (`SweepStart`) and closes its members one by one.

* `ledger[s][u]` is the sum of u's entries for session s, which is all the code ever asks of them
  (`learnerNetForSession`); `Held` is that sum turned into the amount held.
* `phase[s]` is the clock as the code compares it with the session: before the start, after it, more
  than the grace period after the end.
* `inbox[s]` records which kinds of notice were sent about s. A notice may in reality be lost or late;
  the properties only say what must be true once it is sent, at the commit that sends it.
* A person may act as learner and as mentor: the role in a token may be older than a change of role. An
  administrator may teach too (session.routes.ts:42); to teach he is also one of `Users`.
* Nothing forbids `bookSession` or `acceptRequest` after the scheduled time, and so the model does not.

**Escrow** is the abstract promise of a booking: credits leave the learner once and leave the pot once,
to the mentor, back to the learner, or to nobody. `Sessions` maps to it with `Pot` (what the ledger
entries of the parties leave unaccounted for) and `Stage`; `BookingRequests` maps to it the sessions its
acceptances create, with `Payer`, `paid` and its own `Stage`, mentors and their payouts left out.

**BookingRequests** has the requests to one mentor for one skill. Each handler is a `...Load` (read and
check PENDING) and a `...Commit` (write by id); `acceptRequest` has the conflict query (`AcceptCheck`)
as a step of its own, because nothing locks what it looked for. Two proposed times overlap iff their
slots are equal. `CancelSession` is the one thing sessions do that matters here: it frees the time and
returns the credits.

**TxLocks** has whole transactions as sequences of row locks: a foreign key shares a row, an update takes
it, `transfer` selects it FOR UPDATE. `Plans` are the transactions of the four services; a deadlock is
resolved by PostgreSQL's detector (`Leave`), so the model asks who can be in one.

### Time

**Calendar** has the *times* of one mentor's sessions, which the other modules abstract from: each
session has a start and a length, counted from a midnight. The two conflict queries (`hasMentorConflict`
of createSession, `hasSchedulingConflict` of acceptRequest) are `Conflicts`: a window on `scheduledAt`
(`InWindow`) and then exact overlap (`Meets`). A query and the insertion after it are two steps, kept in
`call[h]`. `Fits` is the test of createRequest against the weekly rules, `Slots` the expansion of
getMentorSlots. What the calendar does not need, it leaves out: who books and pays. Two calls of
one handler for overlapping times can double-book (run requests_double_booked); Calendar asks what the two
queries promise when such calls wait for each other (`Serial`), whatever else overlaps.

**WeeklyRules** has the rules as rows that come, change and go: `assertNoOverlap` and the write are two
steps, a change writes back the columns it read, and a rule switched on again is checked as a new one.

**Reminders** has the clock in ticks, the window `FromTime..ToTime`, and runs fired by the schedule
or by a call of the cron endpoint. Listing (`Fire`), claiming (`Claim`) and sending (`Send`) are steps;
a run can be killed between any two.

### People

**Tokens** has the refresh tokens of one account, with the family and the version each was signed
with. Nothing in auth.service.ts is a transaction here, so every statement is a step: `Present` and
`CheckUser` read, `Rotate` revokes by id, `Issue` stores the next token; a reuse is `BurnFamily` and then
`BumpVersion`; a change of password is `WritePassword`, `Purge` and, for changePassword, `Issue`; a
deletion is `Purge` and `Mark`. A call can fail after any of them. `issued` remembers every signed
payload, because an access token has no row. A password is named by the version it came with, and a token
carries the password whose knowledge its holder proved. `Login` refuses a deleted account because the
e-mail by which it would be found was replaced.

**Lockout** reads the two columns (`LoadUser`), compares the password (which takes a while) and writes
back what it computed from them. **MailTokens** checks a token, applies it and marks it, for both kinds
of token, while the cleanup deletes used and expired rows.

**Roles** has the role and `mentorStatus` of one user, the roles in his unexpired access and refresh
tokens, and `Guards`, the roles that the routes name. **SkillCache** has two keys in the cache of each
instance; a miss is three steps (`Miss`, `Query`, `Store`), and a list stored after an eviction may be
older than it.

**Ratings** has the transaction of addFeedback step by step: insertion (one per session, by the unique
column), aggregate over what READ COMMITTED shows, update of the mentor's row under its lock, commit.
**Reports** has resolveReport as a read and a write, and the audit row as a step after the answer.

**Seed** is `main` section by section, each loop one user at a time, killed anywhere and started again;
between runs the application moves credits, completes and reviews sessions and decides applications. A
completed session of the seed pays nothing: nothing was held for it. One user, session or row stands for each
kind the seed writes.

## 3. What is checked

`Spec` allows every interleaving. The other specifications are `Spec` after a repair of the code:

* `GuardedSpec` has every update of a session, and every answer to a request, commit only over the status it
  read. That is the code with `status` repeated in the WHERE clause and the row count checked, as
  bookSession and the jobs have it. Reads still go stale; what then commits is nothing.
* `SerialSpec` (BookingRequests, Calendar) has overlapping acceptances, or creations of one learner, or in
  Calendar calls of one kind for overlapping times, wait for each other: a lock around query and insertion.
* `RepairedSpec` (BookingRequests) has both.

The properties under them fail under `Spec`, as section 5 lists. That they hold after the repair shows that
nothing else breaks settlement: not the clock, prices, competing bookings, nor overlapping and killed jobs.
In the services, where a property holds only while two calls do not cross, a ghost variable says when they
did (`stale`, `raced`, `apart`, `overlapped`, `outdated`, `alone`, `straddled`) and the property is
conditional on it; everything else (deaths, clean-up, the clock, further calls) remains free.

| Run | Module / specification | Properties | Instance |
| --- | --- | --- | --- |
| ledger | CreditLedger, Spec | NeverOverdrawn, LedgerExplainsBalance, ImplementsAccounts | 2 users, 3 transactions, amounts -2, -1, 2, starter 2, column limit 3, no new movement of a user with 3 rows |
| sessions_races | Sessions, Spec | RefundWithinHold, SlotClaimedOnce, PayoutIsTheHold, CancelBeforeStartIsFree | 1 session, 2 learners, mentor, administrator, 2 requests, 1 job run, prices 1 and 2, a debit by an administrator, 1 mishap |
| sessions_guarded | Sessions, GuardedSpec | SettlementExact, TaughtCountsCompleted, NoticesStayTrue, ImplementsEscrow | 2 sessions taught crosswise, 2 requests, 2 job runs, 1 mishap |
| sessions_live | Sessions, FairSpec | StaleSessionsClose | 2 sessions, a balance for one of them, 1 request, 2 job runs, 1 mishap |
| sessions_double_pay | Sessions, Spec | EarnedWithinPaid (violated) | 1 session, 2 requests |
| requests_races | BookingRequests, FairSpec | OpenHoldsNothing, DebitsMatchSessions, ImplementsEscrow, StaleRequestsClose | 2 learners, 2 requests, 2 sessions, 2 handlers, 1 job run, 1 mishap |
| requests_repaired | BookingRequests, RepairedSpec | NeverDoubleBooked, OneOpenRequest, NoticesStayTrue, AnsweredOnce | 1 learner, 2 requests for one time, 3 handlers, 2 job runs, 1 mishap |
| requests_double_booked | BookingRequests, Spec | NeverDoubleBooked (violated) | 2 learners, 2 requests for one time, 2 handlers |
| tokens | Tokens, TokenSpec | UsableKnowsPassword, BurntFamilyUnusable, OneLivePerFamily, DeletedStaysOut | 3 refresh tokens, 2 calls at once, versions 0 to 2 |
| services | MCServices, AllSpec | TypesOK, LookbackSuffices, SameKindApart, SlotsCanBeBooked, LockoutExact, MailUsedOnce, DeadlocksAreUpgrades, ActiveRulesApart, RemindedOnce, NobodyForgotten, RatingExactWhenAlone, NoteKept, RerunRepairs | see below |
| access | MCAccess, Spec | DecidedOnce, CacheConverges, RoleTakesHold | 2 calls, 2 applications; 1 skill, 2 instances, 2 misses, 2 changes |
| calendar_slots | Calendar, Spec | SlotsAreFree (violated) | 1 session, two days |

`MCServices` and `MCAccess` put parts that share no state into one run: `focus` chooses the part that a
behaviour belongs to and the others stay at their initial state, so the states add up and do not multiply.
`AllSpec` restricted to one focus is the specification of that part; the calendar's part is its `SerialSpec`.

A mishap is a run of a job that is killed, or a session (a request) whose transaction fails and which
the run passes over (`SweepDie`, `SweepFail`, `ExpireDie`, `ExpireFail`).

### Bounds

Each is a constant. `MaxRows` (ledger rows per user before no new movement begins), `MaxCredits` (what
an administrator's grant may reach), `MaxDeaths`, `MaxKills` (mishaps of jobs), the size of `SessionIds`
in BookingRequests (sessions acceptances can create), `TokenIds` and `MaxVersion`, `MaxTries` (7, so that
the threshold of 5 is passed by two) and `LastTick`, `MailIds` and `MaxMishaps`, `RuleIds`, `LastTime`,
`MaxWrites`, `MaxRuns` and `MaxUses` of the seed, `MaxSent`, `MaxChanges`.

Three transactions are the fewest in which one holds a row, one waits and one begins, and the fewest that
can form a cycle of locks that is not a pair; two handlers and one job are the fewest in which each pair of
writers races; two sessions are the fewest that share a balance. Three tokens let two refreshes of one token
both issue, and let a family be burnt while its next token is stored. In Calendar the durations 1 and 3 with
a look-back of 3 put a session exactly at the edge of the window and one across midnight, and two sessions
with two calls let a call check while another inserts, of the same kind or of the other. The day of
WeeklyRules has two intervals, enough for rules that touch, overlap and contain each other. In Reminders the
window 11..14 and the cadence 3 have the code's proportion (55..70 minutes every 15) and the clock of 20
lets a session be scheduled before, inside and after the run that must catch it. Two runs of the seed with
two uses between them are the fewest in which a kill, a use and a completed run follow each other. The runs
are symmetric in handlers, job runs and other identities that no definition tells apart; runs that check a
temporal property with fairness use no symmetry.

### Fairness

* `Sessions`, `BookingRequests`: weak fairness of the job only. vercel.json, .github/workflows/cron.yml
  and jobs/index.ts start it again and again and each run continues through its list. Mishaps are not
  fair and bounded by `MaxDeaths`: were every run killed at its first session, nothing would be closed.
  Requests and the clock are under no obligation.
* `CacheFairness`: queries return, what they returned is stored, entries age. Nothing obliges an instance
  to be asked again, to evict or to restart: the lifetime alone is what repairs a cache.
* `RoleFairness`: a call that was asked ends, and tokens expire; nobody is obliged to sign in or refresh.
* `Reminders` assumes no fairness but punctuality: time does not pass a run that is due. The workflow's
  own comment says that the schedule "may be delayed under load"; a session whose whole window falls into
  such a delay gets no reminder, and `NobodyForgotten` says nothing about it.

## 4. What is proved

TLAPS proves the following for every value of the constants that satisfies the `ASSUME`s: any number of
users, transactions, sessions, handlers, job runs and tokens, any prices, amounts, times and windows.
Where a theorem needs a repair, its specification is the repaired one of section 3.

**CreditLedgerProofs**: TypeCorrect, NoOverdraft, LedgerCoherent and Refinement (`Spec =>
ImplementsAccounts`). The invariant adds to typing that a transaction past `select` holds its user's row,
alone, that the balance it saw is still the committed one, and that past `update` the new balance is
legal. Mutual exclusion makes the value it saw stay current until it commits: without it neither the
ledger chain nor the guard survives `Commit`. LedgerTotals adds what an auditor would ask: the stored balance
is the sum of all the user's movements (`BalanceIsSum`), of which a commit appends one.

**SessionsProofs**: from `Spec`, TypeCorrect, NoOverdraft, PartiesOnly, RefundBounded, OneWinner,
PayoutExact and FreeCancellation. The invariant `IInv` adds that a request's fields fit its operation
(`RequestsOK`), that an unclaimed session has no entries and an open one no learner (`ClaimsOK`,
`UnclaimedUntouched`), and that the learner on a job's list is the session's (`DueOK`): a list read before
a claim would otherwise pay for the wrong learner. The action properties follow from `EveryStepChanges`,
which sorts every step by what it does to one session (opens, claims, schedules, completes, cancels,
adjusts or idles); it also records the status from which a guarded step starts. From `GuardedSpec`,
BooksBalance, CountExact, NoticesTrue and EscrowRefinement use the same sorting: a step that completes or
cancels starts from a session that has not ended, so entries, counter and notices of a session change together
and once, and each kind of step is a step of Escrow or a stutter. Two theorems are drawn from that. PaidOnce
is the property that run sessions_double_pay refutes of the code as it stands. NoMinting is global: all
balances and pots together (`Worth`) never grow but by an administrator's grant, and no pot is negative, so
that people never have more than they started with (`NothingMinted`); it sums over users and sessions, and
supposes that both sets are finite and that administrators only take.

**BookingRequestsProofs**: from `Spec`, TypeCorrect, OpenIsFree, AcceptanceLinked and DebitsExact. `RaceInv`
adds that a creation is alone with its request, that a call names a request that exists, that the session in
an entry of the job's list is none, and that a scheduled session has been paid. DebitsExact counts sessions,
by the library's facts on cardinality, over the three things a step can do to them (`SessionSteps`: book
one, end one, leave them). The same three make EscrowRefinement, which needs no repair: even racing
acceptances take a hold per session and give each back once and whole. From `GuardedSpec`, NoticesTrue and
OneAnswer: `NoticeInv` adds that whatever a call in flight saw was open (`SeenOpen`). From `SerialSpec`,
NoDoubleBooking and OneRequest: `SerialInv` adds that an acceptance that has looked for conflicts, and a
creation that has looked for a duplicate, still have none (`Checked`). So each flaw of section 5 is shown
with the one repair it takes; Repaired has the four together, as the run does.

**TokensProofs**: TokenTypeCorrect, PasswordKnown, BurntForGood, DeletedForGood, OneLive. `TokenIInv` says of
every call in flight what its payload may be: the password it carries is the one of its version
(`KnownAll`), the families that were burnt are older than the current version even in refreshes that have
not stored yet (`RefreshesBurnt`), and after a deletion nobody is about to sign the current version except
a change of password that straddled it (`DeletedSigns`). `RotationInv` adds that whoever is about to store
the next token of a family is alone with it, and that no other token of the family is live.

**CalendarProofs**: TypeCorrect; LookbackCovers, because a session that meets a time began at most its own
length before it (`WindowCovers`); SlotsBookable, from the arithmetic of a minute within its day
(`MinuteOfDay`); KindsApart from `SerialSpec`, whose invariant adds that a call which has checked and not
yet inserted is still clear of the sessions it keeps apart (`CallClear`), although others are booked
meanwhile, and that an accepted session is never open (`AcceptedBooked`).

**SumTheorems** has the lemmas on the community modules' sums, which are folds over an element chosen from
the set: a sum is an integer, or a natural, when its terms are; it gains a term with an element, changes by
what one of its terms changes, and needs only the terms that are not zero. Each is shown without an
induction theorem: of the subsets that refute it take a smallest one, and one element out of that.
`SumAppend` does the same for the end of a sequence.

**SeedProofs**: SeedRepairs. The invariant says where a run is and whom its loop has still to visit
(`SeedFlow`, `Visits`), and what each section may rely on when it starts: statistics of the mentors it has
passed equal what they count (`StatsDone`), the ledgers it has passed add up to the balances
(`LedgersDone`), each demo table that it has written holds its rows once (`DemoOnce`). A kill at any step
leaves all of it to be done again, and a use of the application between runs keeps what a complete run
established.

**ServicesProofs**, one theorem per part, each over that part's own specification, and two on the whole:

| Theorem | Invariant beyond the property |
| --- | --- |
| LockoutHolds | typing; the rest is in the ghost `stale` |
| RulesApart | the write a request has checked overlaps no other rule, unless it was crossed (`EditsChecked`) |
| OneReminder | what is unclaimed was sent to nobody, and a claim still to be sent is one run's alone (`ClaimedFirst`) |
| EveryoneReminded | a session whose start the last run's window has passed is claimed or on a list; the others lie ahead of a run still to come (`AheadOrSeen`) |
| NotesKept, AuditHonest | a resolution in flight read the last note, unless it was overlapped (`NotesFresh`); one row at most follows one write |
| ApplicationsDecidedOnce | an application in flight read a status that admits one, a review in flight read PENDING (`AskedProperly`) |
| OnlyUpgradesDeadlock | which locks a transaction holds when it waits for its first, second or third (`Waits`): sessions come before users, and of users only one is asked for by itself |
| RatingExact | an insertion not yet committed is the only one of its session (`InsertedOnce`), and the aggregate of a transaction that none crossed is that of the rows it still sees (`AggregateFresh`) |
| MailTokenOnce | uses are at most one plus the mishaps, less what calls that still check it may owe (`Owed`) |
| ServicesTyped, ServicesCorrect | none: a behaviour of `AllSpec` is a behaviour of every part (`Parts`), which moves in one of them and stands still in the others; so all the promises hold together |

Assumptions: the named `ASSUME` of each module, which TLC evaluates in the runs. They are naturals and
disjointness, and these facts of the code: prices are positive and `Nobody` is nobody
(`SessionConstants`); no duration exceeds the look-back, both request schemas allowing 15 to 480 minutes
and the look-back being eight hours, and a rule lies within one day (`CalendarConstants`); the schedule's
cadence is no longer than the window (`ReminderConstants`); a mentor has finitely many sessions and a
feedback at least one star (`RatingConstants`). NoMinting has the hypotheses named above.

Only model-checked: StaleSessionsClose, StaleRequestsClose, CacheConverges and RoleTakesHold: liveness
under fairness, and the ENABLED that fairness contains, are outside of what the prover does. Of the
properties of the runs that pass, all others are proved.

## 5. Where the code and its comments disagree

Three are runs that TLC refutes with a short behaviour.

| Run | Property | The behaviour |
| --- | --- | --- |
| sessions_double_pay | EarnedWithinPaid | two updates to COMPLETED read SCHEDULED; both commit; the mentor is paid twice for one hold |
| requests_double_booked | NeverDoubleBooked | two acceptances for one time both find no conflict |
| calendar_slots | SlotsAreFree | a session of three hours begins two hours before midnight; the first slot of the next day is offered |

The first is repaired by the guard the other writers already use, `updateMany({ where: { id, status:
session.status } })` with a check of the count: EarnedWithinPaid is proved of `GuardedSpec` (PaidOnce). The
second is repaired by a lock held from the conflict query to the insertion: NeverDoubleBooked is proved of
`SerialSpec` (NoDoubleBooking).

Others follow from the same causes or from conditions of properties above, and have no run of their own.

* Answers of requests: accept and cancel, or reject, both read PENDING, and the later one overwrites the
  earlier (AnsweredOnce fails under `Spec`); two acceptances of one request create and charge two sessions;
  two creations both find no duplicate (OneOpenRequest fails under `Spec`). The guard repairs the first
  two (OneAnswer, NoticesTrue), a lock the third (OneRequest).
* Jobs' notices: session.service.ts:503 and booking.service.ts:333 tell the learner of a completion or an
  expiry that the transaction's callback skipped (`SweepSkip`, `ExpireSkip`).
* A mentor can be scheduled twice without any race: acceptRequest looks at SCHEDULED sessions only, so a
  request may be accepted over an open session, which bookSession then lets somebody book. SameKindApart is
  therefore about sessions of one kind.
* Refresh: two refreshes that both read the token unrevoked both issue one (the ghost `raced`), and the
  second is not taken for a reuse. A call that presents a token before a logout everywhere, and issues after
  it, leaves a live token: `logoutAll` changes no version. Deactivation changes none either; `isActive` is
  what refuses the tokens, and an activation makes the signed ones good again.
* Deletion bumps the version so that "any outstanding access tokens are rejected" (user.service.ts:141), as
  the answer to a reuse does "to invalidate access tokens" (auth.service.ts:237). Only `strictAuth` and refresh
  compare versions, and strictAuth guards one route (auth.routes.ts:77): everywhere else `authenticate` takes a
  signed access token until it expires. The properties of Tokens speak of the version, and so of what those two
  let pass. The pair that a changePassword begun before the deletion issues after it has even the current
  version (`straddled`).
* Ratings: the comment at session.service.ts:391 says the average "stays exact"; it is recomputed, but two
  transactions that overlap each miss the other's row, and it stays wrong until the next feedback.
* Reports: RESOLVED and DISMISSED are "terminal outcomes" (report.service.ts:58), but any status may follow
  them, and UNDER_REVIEW then clears `resolvedAt`.
* Seed: section 8 "stays idempotent and re-runnable" (seed.ts:258), which holds of the tables it wipes
  (RerunRepairs). Skills and sessions are added again by every run, the wipe also takes the ledger of users
  the seed does not know and leaves them their balances, a user with the default balance of 3 has no row to
  explain it, and a decided applicant is PENDING again.
* Configuration: README.md says that ENABLE_CRON and ENABLE_DOCS default to `true` off production, and
  config/index.ts:84, 87 has a fallback for it; the schema turns an unset variable into `false`, so the
  fallback is never taken.
* Schedule: the comment in jobs/index.ts says that vercel.json mirrors the expressions; there
  autoCompleteSessions runs daily and not hourly. No property depends on how often it runs.

## 6. Not modelled

Listings, searches and validation of shapes; formatting; rate limits (a library's); the error handler; the
dashboard's totals; API documentation: they change no state the properties speak of. Delivery of mail and
of notifications is I/O, and a notification that was sent is in the modules of the handlers that send it;
marking one read or deleting it touches only its owner's rows. Hashing, signing and the expiry inside a
signed token are external: a token is what was signed. The connection pool and the client's set-up have no
behaviour of the program. Overflow of `totalSessionsTaught` and of the version is out of reach of any use.
Soft deletion of users is in Tokens and left out of Sessions: nothing in the code sets `Session.deletedAt`,
and a deleted user's rows stay.

Three compositions are argued and not checked: that Sessions may use `transfer` as one step (section 2);
that BookingRequests may see of Sessions only a cancellation; and that in MCAccess the two parts share no
state, which their disjoint variables show. Of MCServices it is proved (`Parts`).

## 7. Order of the work, and what may follow

The modules were written in the order money, calendar, tokens, services, and each theorem after TLC had
found nothing against its invariant. What would add most next: Sessions and BookingRequests composed over
one balance and one calendar; TxLocks with `adminAdjust` and registration in one plan with what they insert.

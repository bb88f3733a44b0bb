----------------------------- MODULE MCServices -----------------------------
\* What surrounds sessions and requests, on small instances.  These parts share no
\* state, so a behaviour is a behaviour of one of them, chosen at the start, and
\* the others stay as they are.  Overlapping calls of one kind to the calendar wait
\* for each other, without which SameKindApart fails.
EXTENDS MCCalendar, Lockout, MailTokens, TxLocks, WeeklyRules, Reminders, Ratings, Reports, Seed

CONSTANTS a, b

VARIABLE focus

AllVars == <<vars, lockVars, mailVars, lockTableVars, ruleVars, reminderVars,
             ratingVars, reportVars, seedVars, focus>>

AllInit ==
  /\ focus \in {"calendar", "lockout", "mail", "locks", "rules", "reminders",
                "ratings", "reports", "seed"}
  /\ Init /\ LockInit /\ MailInit /\ LocksInit /\ RuleInit /\ ReminderInit
  /\ RatingInit /\ ReportInit /\ SeedInit

Others ==
  /\ focus # "calendar" => UNCHANGED vars
  /\ focus # "lockout" => UNCHANGED lockVars
  /\ focus # "mail" => UNCHANGED mailVars
  /\ focus # "locks" => UNCHANGED lockTableVars
  /\ focus # "rules" => UNCHANGED ruleVars
  /\ focus # "reminders" => UNCHANGED reminderVars
  /\ focus # "ratings" => UNCHANGED ratingVars
  /\ focus # "reports" => UNCHANGED reportVars
  /\ focus # "seed" => UNCHANGED seedVars
  /\ UNCHANGED focus

AllNext ==
  /\ Others
  /\ \/ focus = "calendar" /\ Next /\ Serial'
     \/ focus = "lockout" /\ LockNext
     \/ focus = "mail" /\ MailNext
     \/ focus = "locks" /\ LocksNext
     \/ focus = "rules" /\ RuleNext
     \/ focus = "reminders" /\ ReminderNext
     \/ focus = "ratings" /\ RatingNext
     \/ focus = "reports" /\ ReportNext
     \/ focus = "seed" /\ SeedNext

\* Whatever the mishaps, every variable stays within its type; no table the seed
\* wipes ever holds its rows twice.
TypesOK ==
  /\ TypeOK /\ LockTypeOK /\ MailTypeOK /\ LocksTypeOK /\ RuleTypeOK
  /\ ReminderTypeOK /\ RatingTypeOK /\ ReportTypeOK /\ SeedTypeOK

AllSpec == AllInit /\ [][AllNext]_AllVars

\* Every set of users, requests, runs or rows whose identity does not matter holds
\* these two; only one part moves, so one permutation serves them all.
Alike == Permutations({a, b})
=============================================================================

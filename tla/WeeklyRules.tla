---------------------------- MODULE WeeklyRules ----------------------------
(***************************************************************************)
(* The weekly availability rules of one mentor (availability.service.ts).  *)
(* Creation and change look for an active rule they would overlap and then *)
(* write, without a transaction, and a change writes back the columns it   *)
(* read where the request names none.                                      *)
(***************************************************************************)
EXTENDS Naturals

CONSTANTS
  RuleIds,  \* BOUND: rules ever created
  Weekdays, \* days of the week
  DayEnd,   \* times are 0 .. DayEnd, one step the granularity that matters
  RuleCalls \* requests in flight at once

ASSUME RuleConstants == DayEnd \in Nat /\ Weekdays # {}

VARIABLES
  rule,   \* rule[r]: the Availability row, absent before and after its life
  editor, \* editor[c]: the write a request is about to make, and whether another
          \* request wrote since it read
  apart   \* ghost: no request wrote between the reads and the write of another

ruleVars == <<rule, editor, apart>>

RuleTimes == 0 .. DayEnd
Rule  == [state : {"absent", "active", "inactive"}, day : Weekdays, from : RuleTimes, to : RuleTimes]
NoEdit == [at |-> "idle"]

NoRule == [state |-> "absent", day |-> CHOOSE d \in Weekdays : TRUE, from |-> 0, to |-> 0]

RuleInit ==
  /\ rule = [r \in RuleIds |-> NoRule]
  /\ editor = [c \in RuleCalls |-> NoEdit]
  /\ apart = TRUE

MinutesOverlap(a, b) == a.from < b.to /\ b.from < a.to

\* Slips a change to this code could make; none is part of the specification.
StartsWithin(q, new) ==
  rule[q].state = "active" /\ rule[q].day = new.day
    /\ rule[q].from <= new.from /\ new.from < rule[q].to

RuleBlocks(q, new) == rule[q].state = "active" /\ rule[q].day = new.day /\ MinutesOverlap(new, rule[q])

\* assertNoOverlap, before a creation and, but for the rule itself, a change.
NoOverlap(new, except) == \A q \in RuleIds \ except : ~RuleBlocks(q, new)

Edit(c, r, new, except) ==
  /\ editor[c] = NoEdit
  /\ new.from < new.to
  /\ NoOverlap(new, except)
  /\ editor' = [editor EXCEPT ![c] = [at |-> "checked", id |-> r, new |-> new, crossed |-> FALSE]]
  /\ UNCHANGED <<rule, apart>>

CreateAvailability(c, r, new) ==
  /\ rule[r].state = "absent"
  /\ \A d \in RuleCalls : editor[d] # NoEdit => editor[d].id # r
  /\ Edit(c, r, new, {})

\* Each column is the request's or, where it names none, the row's.
UpdateAvailability(c, r, new) ==
  /\ rule[r].state # "absent"
  /\ new.state # "absent"
  /\ Edit(c, r, new, {r})

\* The row is written, by id: a change of a deleted rule throws.
WriteRule(c) ==
  LET e == editor[c] IN
  /\ e # NoEdit
  /\ rule' = [rule EXCEPT ![e.id] = e.new]
  /\ apart' = (apart /\ ~e.crossed)
  /\ editor' = [d \in RuleCalls |->
       IF d = c \/ editor[d] = NoEdit THEN NoEdit ELSE [editor[d] EXCEPT !.crossed = TRUE]]

\* A request in flight that would change the rule then throws.
DeleteAvailability(r) ==
  /\ rule[r].state # "absent"
  /\ rule' = [rule EXCEPT ![r] = NoRule]
  /\ editor' = [c \in RuleCalls |->
       IF editor[c] # NoEdit /\ editor[c].id = r THEN NoEdit ELSE editor[c]]
  /\ UNCHANGED apart

DropEdit(c) ==
  /\ editor[c] # NoEdit
  /\ editor' = [editor EXCEPT ![c] = NoEdit]
  /\ UNCHANGED <<rule, apart>>

NewRules == {n \in Rule : n.state # "absent" /\ n.from < n.to}

RuleNext ==
  \/ \E c \in RuleCalls, r \in RuleIds, new \in NewRules :
       CreateAvailability(c, r, new) \/ UpdateAvailability(c, r, new)
  \/ \E c \in RuleCalls : WriteRule(c) \/ DropEdit(c)
  \/ \E r \in RuleIds : DeleteAvailability(r)

RuleTypeOK == rule \in [RuleIds -> Rule] /\ apart \in BOOLEAN

\* Active rules of one day never overlap, inactive ones that are switched on
\* again included, unless two requests crossed between check and write
\* (availability.service.ts:40, 67).
ActiveRulesApart ==
  apart => \A r, q \in RuleIds :
    r # q /\ rule[r].state = "active" /\ rule[q].state = "active" /\ rule[r].day = rule[q].day
      => ~MinutesOverlap(rule[r], rule[q])
=============================================================================

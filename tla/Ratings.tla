------------------------------ MODULE Ratings ------------------------------
(***************************************************************************)
(* Feedback on the sessions of one mentor and the denormalized rating      *)
(* (session.service.ts, addFeedback).  Each call is a transaction under    *)
(* READ COMMITTED: it inserts its row, aggregates what it can see, and     *)
(* writes the aggregate into the mentor's row, which it locks by that.     *)
(***************************************************************************)
EXTENDS Naturals, FiniteSets, Functions

CONSTANTS
  Taught,  \* completed sessions of the mentor
  Stars,   \* ratings a learner may give
  Writers, \* calls of addFeedback in flight at once
  Absent   \* no session

ASSUME RatingConstants == IsFiniteSet(Taught) /\ Stars \subseteq Nat \ {0} /\ Absent \notin Taught

VARIABLES
  feedback, \* feedback[s]: the committed rating of session s, 0 for none
  rating,   \* ratingCount and the sum that ratingAvg is computed from
  writer,   \* writer[w]: a call, its transaction's steps, and whether another
            \* transaction committed since it began
  alone     \* ghost: no other transaction committed while the last one ran

ratingVars == <<feedback, rating, writer, alone>>

Feedback  == [Taught -> Stars \cup {0}]
Aggregate == [count : Nat, sum : Nat]
Zero      == [count |-> 0, sum |-> 0]
NoWriter  == [at |-> "idle", session |-> Absent, stars |-> 0, agg |-> Zero, crossed |-> FALSE]

RatingInit ==
  /\ feedback = [s \in Taught |-> 0]
  /\ rating = Zero
  /\ writer = [w \in Writers |-> NoWriter]
  /\ alone = TRUE

Open(w)   == writer[w].at \in {"inserted", "aggregated", "updated"}
Rolled(w) == writer' = [writer EXCEPT ![w] = NoWriter]

Rated    == {s \in Taught : feedback[s] > 0}
Total(S) == SumFunctionOnSet(feedback, S)

\* The session is completed and has no feedback yet.
LoadSession(w, s, n) ==
  /\ writer[w] = NoWriter
  /\ feedback[s] = 0
  /\ writer' = [writer EXCEPT ![w] = [NoWriter EXCEPT !.at = "loaded", !.session = s, !.stars = n]]
  /\ UNCHANGED <<feedback, rating, alone>>

\* sessionId is unique: an insertion waits for an open one of the same session,
\* and throws if it commits.
InsertFeedback(w) ==
  LET s == writer[w].session IN
  /\ writer[w].at = "loaded"
  /\ feedback[s] = 0
  /\ \A v \in Writers : v # w /\ Open(v) => writer[v].session # s
  /\ writer' = [writer EXCEPT ![w].at = "inserted"]
  /\ UNCHANGED <<feedback, rating, alone>>

\* A slip a change to this code could make.
CommittedOnly(w) ==
  [count |-> Cardinality(Rated), sum |-> Total(Rated)]

\* Every committed row of the mentor, and the transaction's own.
Visible(w) ==
  [count |-> Cardinality(Rated) + 1, sum |-> Total(Rated) + writer[w].stars]

AggregateFeedback(w) ==
  /\ writer[w].at = "inserted"
  /\ writer' = [writer EXCEPT ![w].at = "aggregated", ![w].agg = Visible(w)]
  /\ UNCHANGED <<feedback, rating, alone>>

\* The update locks the mentor's row until the transaction ends.
UpdateMentor(w) ==
  /\ writer[w].at = "aggregated"
  /\ \A v \in Writers : writer[v].at # "updated"
  /\ writer' = [writer EXCEPT ![w].at = "updated"]
  /\ UNCHANGED <<feedback, rating, alone>>

CommitFeedback(w) ==
  /\ writer[w].at = "updated"
  /\ feedback' = [feedback EXCEPT ![writer[w].session] = writer[w].stars]
  /\ rating' = writer[w].agg
  /\ alone' = ~writer[w].crossed
  /\ writer' = [v \in Writers |->
       IF v = w THEN NoWriter ELSE [writer[v] EXCEPT !.crossed = @ \/ Open(v)]]

RollBack(w) == writer[w] # NoWriter /\ Rolled(w) /\ UNCHANGED <<feedback, rating, alone>>

RatingNext ==
  \/ \E w \in Writers, s \in Taught, n \in Stars : LoadSession(w, s, n)
  \/ \E w \in Writers :
       \/ InsertFeedback(w) \/ AggregateFeedback(w) \/ UpdateMentor(w)
       \/ CommitFeedback(w) \/ RollBack(w)

RatingTypeOK ==
  /\ feedback \in Feedback
  /\ rating \in Aggregate
  /\ \A w \in Writers : writer[w].session \in Taught \cup {Absent}
  /\ alone \in BOOLEAN

\* The rating is exact after every feedback whose transaction no other one
\* crossed: such a feedback also repairs what crossing ones left behind
\* (session.service.ts:391).
RatingExactWhenAlone ==
  alone => /\ rating.count = Cardinality(Rated)
           /\ rating.sum = Total(Taught)
=============================================================================

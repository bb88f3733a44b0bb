----------------------------- MODULE MCSessions -----------------------------
\* Sessions on small instances; the configurations say which question is asked.
EXTENDS Sessions, TLC

CONSTANTS m, a, b, s1, s2

\* m teaches every session.
OneMentor == [s \in SessionIds |-> m]

\* Each of two people teaches one session and may learn in the other.
TwoMentors == [s \in SessionIds |-> IF s = s1 THEN m ELSE a]

Debits == {-1}

Workers == Permutations(Handlers) \cup Permutations(Sweepers)

\* With OneMentor the two learners are interchangeable as well.
WorkersAndLearners == Workers \cup Permutations({a, b})
=============================================================================

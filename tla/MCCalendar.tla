----------------------------- MODULE MCCalendar -----------------------------
\* A day of five hours; sessions may cross the midnight at 5.
EXTENDS Calendar, TLC

\* The middle of the first day, and the morning of the next.
MCRules == {[day |-> 0, start |-> 1, end |-> 4], [day |-> 1, start |-> 0, end |-> 3]}

Symmetry == Permutations(SessionIds)
=============================================================================

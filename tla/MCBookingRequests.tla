-------------------------- MODULE MCBookingRequests --------------------------
\* BookingRequests on small instances; the configurations say which question is
\* asked.
EXTENDS BookingRequests, TLC

CONSTANTS a, b, r1, r2, w1

\* a sends every request / a sends r1 and b sends r2.
OneLearner == [r \in ReqIds |-> a]
TwoLearners == [r \in ReqIds |-> IF r = r1 THEN a ELSE b]

\* All requests propose overlapping times, the case in which they compete.
SameSlot == [r \in ReqIds |-> w1]

Workers == Permutations(Handlers) \cup Permutations(Expirers) \cup Permutations(SessionIds)
=============================================================================

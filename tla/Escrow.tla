------------------------------- MODULE Escrow -------------------------------
(***************************************************************************)
(* What a booking promises about its credits: they leave the learner once, *)
(* lie in the pot of the session, and leave the pot once, to the mentor,   *)
(* back to the learner, or to nobody (a late cancellation that is not the  *)
(* mentor's forfeits them).  BookingRequests implements this as it stands, *)
(* Sessions when no status it read goes stale.                             *)
(***************************************************************************)
EXTENDS Integers

CONSTANTS Users, SessionIds, MentorOf, Prices, StartCredits, Adjustments,
          MaxCredits, Nobody

VARIABLES
  balance,  \* credits every user may spend
  payer,    \* payer[s]: who booked s, or Nobody
  pot,      \* credits held for s
  stage     \* what has become of them

vars == <<balance, payer, pot, stage>>

Init ==
  /\ balance = [u \in Users |-> StartCredits]
  /\ payer = [s \in SessionIds |-> Nobody]
  /\ pot = [s \in SessionIds |-> 0]
  /\ stage = [s \in SessionIds |-> "free"]

Hold(s, u, c) ==
  /\ stage[s] = "free"
  /\ u # MentorOf[s]
  /\ balance[u] >= c
  /\ balance' = [balance EXCEPT ![u] = @ - c]
  /\ payer' = [payer EXCEPT ![s] = u]
  /\ pot' = [pot EXCEPT ![s] = c]
  /\ stage' = [stage EXCEPT ![s] = "held"]

\* The whole pot goes to u and the booking reaches its end st.
Empty(s, u, st) ==
  /\ stage[s] = "held"
  /\ balance' = [balance EXCEPT ![u] = @ + pot[s]]
  /\ pot' = [pot EXCEPT ![s] = 0]
  /\ stage' = [stage EXCEPT ![s] = st]
  /\ UNCHANGED payer

Release(s) == Empty(s, MentorOf[s], "released")
Refund(s)  == Empty(s, payer[s], "refunded")

Forfeit(s) ==
  /\ stage[s] = "held"
  /\ stage' = [stage EXCEPT ![s] = "forfeited"]
  /\ UNCHANGED <<balance, payer, pot>>

\* An administrator moves a credit outside of any booking.
Grant(u, n) ==
  /\ balance[u] + n >= 0
  /\ n > 0 => balance[u] + n <= MaxCredits
  /\ balance' = [balance EXCEPT ![u] = @ + n]
  /\ UNCHANGED <<payer, pot, stage>>

Next ==
  \/ \E s \in SessionIds :
       \/ \E u \in Users, c \in Prices : Hold(s, u, c)
       \/ Release(s) \/ Refund(s) \/ Forfeit(s)
  \/ \E u \in Users, n \in Adjustments : Grant(u, n)

Spec == Init /\ [][Next]_vars
=============================================================================

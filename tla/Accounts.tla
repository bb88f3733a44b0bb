------------------------------ MODULE Accounts ------------------------------
(***************************************************************************)
(* What SkillSwap promises about credit balances: an account is opened     *)
(* with the starter credits, and afterwards its balance changes only by    *)
(* whole, atomic movements that never leave it negative.  How the database *)
(* transactions of services/credit.service.ts achieve this is the subject  *)
(* of CreditLedger, which implements this specification.                   *)
(***************************************************************************)
EXTENDS Integers

CONSTANTS
  Users,           \* the people who may hold an account, one per e-mail
  Amounts,         \* signed credit movements the callers ask for
  StarterCredits,  \* STARTER_CREDITS of auth.service.ts
  MaxInt           \* the largest value of the INTEGER balance column

VARIABLES
  accounts,        \* users whose row is committed
  balance          \* committed creditBalance of every user

vars == <<accounts, balance>>

Init == /\ accounts = {}
        /\ balance = [u \in Users |-> 0]

\* Registration: the row and its welcome bonus appear together.
Open(u) == /\ u \notin accounts
           /\ accounts' = accounts \cup {u}
           /\ balance' = [balance EXCEPT ![u] = StarterCredits]

\* One movement of a credits, accepted only when the result is a legal balance.
Move(u, a) == /\ u \in accounts
              /\ balance[u] + a \in 0..MaxInt
              /\ balance' = [balance EXCEPT ![u] = @ + a]
              /\ UNCHANGED accounts

Next == \E u \in Users : Open(u) \/ \E a \in Amounts : Move(u, a)

Spec == Init /\ [][Next]_vars
=============================================================================

----------------------------- MODULE MailTokens -----------------------------
(***************************************************************************)
(* Verification tokens of one account (auth.service.ts): sent by mail,     *)
(* used once to reset the password or to verify the address.  Checking a   *)
(* token, applying it and marking it used are separate statements without  *)
(* a transaction, and the cleanup job deletes used and expired rows.       *)
(***************************************************************************)
EXTENDS Integers, FiniteSets

CONSTANTS
  MailIds,   \* BOUND: tokens ever created
  MailCalls, \* requests in flight at once
  MaxMishaps \* BOUND: overlapping uses of one token

ASSUME MailConstants == MaxMishaps \in Nat /\ IsFiniteSet(MailCalls)

VARIABLES
  mail,      \* mail[t]: the VerificationToken row
  verified,  \* User.isEmailVerified
  reader,    \* reader[c]: the token c presents, and whether it was applied
  uses,      \* ghost: uses[t]: how often t was applied
  mishaps    \* ghost: uses of t that overlapped another, or ended after the
             \* effect and before the mark

mailVars == <<mail, verified, reader, uses, mishaps>>

MailTypes == {"EMAIL_VERIFICATION", "PASSWORD_RESET", "none"}
NoReader  == [at |-> "idle", token |-> "none"]

MailInit ==
  /\ mail = [t \in MailIds |-> [type |-> "none", state |-> "unused"]]
  /\ verified = FALSE
  /\ reader = [c \in MailCalls |-> NoReader]
  /\ uses = [t \in MailIds |-> 0]
  /\ mishaps = [t \in MailIds |-> 0]

\* A slip a change to this code could make.
EverSent(t) == mail[t].state \in {"sent", "used"}

CreateToken(t, type) ==
  /\ mail[t].state = "unused"
  /\ mail' = [mail EXCEPT ![t] = [type |-> type, state |-> "sent"]]
  /\ UNCHANGED <<verified, reader, uses, mishaps>>

\* As register does for a new account.
ResendVerification(t) == ~verified /\ CreateToken(t, "EMAIL_VERIFICATION")

ForgotPassword(t) == CreateToken(t, "PASSWORD_RESET")

Valid(t) == mail[t].state = "sent"

CheckToken(c, t) ==
  /\ reader[c] = NoReader
  /\ Valid(t)
  /\ mishaps[t] < MaxMishaps
  /\ reader' = [reader EXCEPT ![c] = [at |-> "checked", token |-> t]]
  /\ mishaps' = [mishaps EXCEPT ![t] = @ + IF \E d \in MailCalls : reader[d].token = t THEN 1 ELSE 0]
  /\ UNCHANGED <<mail, verified, uses>>

\* The account is updated by what was read of the row before.
Applied(c, type) ==
  /\ reader[c].at = "checked"
  /\ mail[reader[c].token].type = type
  /\ uses' = [uses EXCEPT ![reader[c].token] = @ + 1]
  /\ reader' = [reader EXCEPT ![c].at = "applied"]
  /\ UNCHANGED <<mail, mishaps>>

ApplyReset(c) == Applied(c, "PASSWORD_RESET") /\ UNCHANGED verified

ApplyVerification(c) == Applied(c, "EMAIL_VERIFICATION") /\ verified' = TRUE

\* By id: of a row the cleanup has deleted this throws.
MarkUsed(c) ==
  LET t == reader[c].token IN
  /\ reader[c].at = "applied"
  /\ mail[t].state # "gone"
  /\ mail' = [mail EXCEPT ![t].state = "used"]
  /\ reader' = [reader EXCEPT ![c] = NoReader]
  /\ UNCHANGED <<verified, uses, mishaps>>

DropReader(c) ==
  LET t == reader[c].token IN
  /\ reader[c] # NoReader
  /\ reader' = [reader EXCEPT ![c] = NoReader]
  /\ mishaps' = [mishaps EXCEPT ![t] = @ + IF reader[c].at = "applied" THEN 1 ELSE 0]
  /\ UNCHANGED <<mail, verified, uses>>

\* Expiry of a token, and the deletion of expired and used rows.
CleanUp(t) ==
  /\ mail[t].state \in {"sent", "used"}
  /\ mail' = [mail EXCEPT ![t].state = "gone"]
  /\ UNCHANGED <<verified, reader, uses, mishaps>>

MailNext ==
  \/ \E c \in MailCalls, t \in MailIds : CheckToken(c, t)
  \/ \E c \in MailCalls : ApplyReset(c) \/ ApplyVerification(c) \/ MarkUsed(c) \/ DropReader(c)
  \/ \E t \in MailIds : ResendVerification(t) \/ ForgotPassword(t) \/ CleanUp(t)

MailTypeOK ==
  /\ mail \in [MailIds -> [type : MailTypes, state : {"unused", "sent", "used", "gone"}]]
  /\ verified \in BOOLEAN
  /\ reader \in [MailCalls -> [at : {"idle", "checked", "applied"}, token : MailIds \cup {"none"}]]
  /\ uses \in [MailIds -> Nat]
  /\ mishaps \in [MailIds -> Nat]

\* A mailed token works once; every further use is owed to a call that overlapped
\* another on the same token, or ended between the effect and the mark
\* (auth.service.ts:360, 393).
MailUsedOnce == \A t \in MailIds : uses[t] <= 1 + mishaps[t]
=============================================================================

------------------------------- MODULE Tokens -------------------------------
(***************************************************************************)
(* Refresh tokens of one account (auth.service.ts, user.service.ts): login *)
(* opens a family, refresh rotates within it, and whoever presents a       *)
(* revoked token burns the family.  A token is as good as its tokenVersion *)
(* is current.  Every method is a sequence of single statements without a  *)
(* transaction, so each statement is a step and a call may fail after any. *)
(***************************************************************************)
EXTENDS Integers, FiniteSets

CONSTANTS
  TokenIds,    \* BOUND: refresh tokens, numbered in the order they are issued
  TokenCalls,  \* requests in flight at once
  MaxVersion   \* BOUND: highest tokenVersion

ASSUME TokenConstants == TokenIds \subseteq Nat \ {0} /\ MaxVersion \in Nat

VARIABLES
  account,   \* the User row; its password is named by the version it came with
  rows,      \* RefreshToken rows with the signed token that each belongs to
  issued,    \* ghost: versions signed into tokens, refresh and access, with the
             \* password whose knowledge the holder proved
  calls,     \* calls[c]: where the request c is
  burnt,     \* ghost: families whose burning, version bump included, is done
  raced,     \* ghost: families in which a token was rotated that someone else
             \* had revoked since it was read
  straddled  \* ghost: a password was changed by a call older than the deletion

tokenVars == <<account, rows, issued, calls, burnt, raced, straddled>>

-----------------------------------------------------------------------------
\* "gone": expired, or pruned by the cleanup job.
RowStates == {"unused", "live", "revoked", "gone"}
Goals     == {"none", "login", "refresh", "change", "reset", "deactivate", "delete", "activate"}
Points    == {"idle", "stored", "rotate", "burn", "bump", "write", "purge", "mark", "issue"}
Versions  == 0 .. MaxVersion

Row      == [state : RowStates, family : TokenIds \cup {0}, version : Versions, password : Versions]
IdleCall == [at |-> "idle", goal |-> "none", token |-> 0, seen |-> "unused",
             family |-> 0, version |-> 0, password |-> 0]

\* The account as register leaves it, with its first token pair.
TokenInit ==
  /\ account = [active |-> TRUE, deleted |-> FALSE, version |-> 0, password |-> 0]
  /\ rows = [t \in TokenIds |->
       [state |-> IF t = 1 THEN "live" ELSE "unused",
        family |-> IF t = 1 THEN 1 ELSE 0, version |-> 0, password |-> 0]]
  /\ issued = {[version |-> 0, password |-> 0]}
  /\ calls = [c \in TokenCalls |-> IdleCall]
  /\ burnt = {}
  /\ raced = {}
  /\ straddled = FALSE

-----------------------------------------------------------------------------
\* Slips a change to this code could make; none is part of the specification.
SameVersion(a)  == a                                       \* bumps forgotten
PasswordOnly(a) == [a EXCEPT !.password = a.version + 1]
DeleteOnly(a)   == [a EXCEPT !.deleted = TRUE, !.active = FALSE]
KeepRow(t)      == rows                                    \* rotation forgotten

Begin(c, call) == calls[c].at = "idle" /\ calls' = [calls EXCEPT ![c] = call]
Go(c, call)    == calls' = [calls EXCEPT ![c] = call]
End(c)         == calls' = [calls EXCEPT ![c] = IdleCall]

\* The updates of the User row, each one statement.
Outdated(a)    == [a EXCEPT !.version = @ + 1]
NewPassword(a) == [a EXCEPT !.version = @ + 1, !.password = a.version + 1]
Deleted(a)     == [a EXCEPT !.version = @ + 1, !.deleted = TRUE, !.active = FALSE]

Revoked(t) == [rows EXCEPT ![t].state = IF @ = "live" THEN "revoked" ELSE @]
RevokedAll(S) == [t \in TokenIds |->
  IF t \in S /\ rows[t].state = "live" THEN [rows[t] EXCEPT !.state = "revoked"] ELSE rows[t]]

-----------------------------------------------------------------------------
(* login and refresh. *)

\* The account is found by its e-mail, which a deletion replaces: from then on
\* nobody is found (user.service.ts:139).
Login(c) ==
  /\ account.active /\ ~account.deleted
  /\ Begin(c, [IdleCall EXCEPT !.at = "issue", !.goal = "login",
                !.version = account.version, !.password = account.password])
  /\ UNCHANGED <<account, rows, issued, burnt, raced, straddled>>

\* The signed token is of the right type and has not expired.
Verified(t) == rows[t].state \in {"live", "revoked"}

\* The token is verified and its row is found.
Present(c, t) ==
  /\ Verified(t)
  /\ Begin(c, [IdleCall EXCEPT !.at = "stored", !.goal = "refresh", !.token = t,
                !.seen = rows[t].state])
  /\ UNCHANGED <<account, rows, issued, burnt, raced, straddled>>

\* The user is read after the row; a token of an older version is refused.
CheckUser(c) ==
  LET t == calls[c].token IN
  /\ calls[c].at = "stored"
  /\ account.active
  /\ rows[t].version = account.version
  /\ \/ /\ calls[c].seen = "revoked"
        /\ Go(c, [IdleCall EXCEPT !.at = "burn", !.family = rows[t].family])
     \/ /\ calls[c].seen = "live" /\ rows[t].state # "gone"
        /\ Go(c, [IdleCall EXCEPT !.at = "rotate", !.goal = "refresh", !.token = t,
                    !.family = rows[t].family, !.version = account.version,
                    !.password = rows[t].password])
  /\ UNCHANGED <<account, rows, issued, burnt, raced, straddled>>

\* The presented token is revoked by id, whatever became of it; if its row was
\* pruned the statement throws, as FailCall.
Rotate(c) ==
  LET t == calls[c].token IN
  /\ calls[c].at = "rotate"
  /\ rows' = Revoked(t)
  /\ raced' = IF rows[t].state = "live" THEN raced ELSE raced \cup {calls[c].family}
  /\ Go(c, [calls[c] EXCEPT !.at = "issue", !.token = 0])
  /\ UNCHANGED <<account, issued, burnt, straddled>>

\* What the payload of a signed token says that matters later.
Signed(call) == [version |-> call.version, password |-> call.password]

\* issueTokens: sign both tokens, store the refresh token; login and
\* changePassword open a new family.
Issue(c, t) ==
  LET call == calls[c] IN
  /\ call.at = "issue"
  /\ rows[t].state = "unused"
  /\ \A u \in TokenIds : u < t => rows[u].state # "unused"
  /\ rows' = [rows EXCEPT ![t] =
       [state |-> "live", family |-> IF call.goal = "refresh" THEN call.family ELSE t,
        version |-> call.version, password |-> call.password]]
  /\ issued' = issued \cup {Signed(call)}
  /\ End(c)
  /\ UNCHANGED <<account, burnt, raced, straddled>>

\* Reuse of a revoked token: revoke what is live in the family ...
BurnFamily(c) ==
  /\ calls[c].at = "burn"
  /\ rows' = RevokedAll({t \in TokenIds : rows[t].family = calls[c].family})
  /\ Go(c, [calls[c] EXCEPT !.at = "bump"])
  /\ UNCHANGED <<account, issued, burnt, raced, straddled>>

\* ... and outdate every token signed so far.
BumpVersion(c) ==
  /\ calls[c].at = "bump"
  /\ account.version < MaxVersion
  /\ account' = Outdated(account)
  /\ burnt' = burnt \cup {calls[c].family}
  /\ End(c)
  /\ UNCHANGED <<rows, issued, raced, straddled>>

-----------------------------------------------------------------------------
(* Passwords. *)

\* A signed token of the current version.
StrictAuth ==
  /\ account.active /\ ~account.deleted
  /\ \E i \in issued : i.version = account.version

\* The comparison of passwords is the caller's affair and nothing that is read
\* for it is used later, so it is one step with strictAuth.
ChangePassword(c) ==
  /\ StrictAuth
  /\ Begin(c, [IdleCall EXCEPT !.at = "write", !.goal = "change"])
  /\ UNCHANGED <<account, rows, issued, burnt, raced, straddled>>

\* A reset link was accepted; nothing is read of the account.
ResetPassword(c) ==
  /\ Begin(c, [IdleCall EXCEPT !.at = "write", !.goal = "reset"])
  /\ UNCHANGED <<account, rows, issued, burnt, raced, straddled>>

WritePassword(c) ==
  /\ calls[c].at = "write"
  /\ account.version < MaxVersion
  /\ account' = NewPassword(account)
  /\ straddled' = (straddled \/ (account.deleted /\ calls[c].goal = "change"))
  /\ Go(c, [calls[c] EXCEPT !.at = "purge", !.version = account'.version,
             !.password = account'.password])
  /\ UNCHANGED <<rows, issued, burnt, raced>>

\* Revoke every stored live token of the account.
Purge(c) ==
  /\ calls[c].at = "purge"
  /\ rows' = RevokedAll(TokenIds)
  /\ CASE calls[c].goal = "change" -> Go(c, [calls[c] EXCEPT !.at = "issue"])
       [] calls[c].goal = "reset"  -> End(c)
       [] OTHER                    -> Go(c, [calls[c] EXCEPT !.at = "mark"])
  /\ UNCHANGED <<account, issued, burnt, raced, straddled>>

-----------------------------------------------------------------------------
(* Administration: the row is found not deleted, then written by id. *)

Administer(c, goal) ==
  /\ ~account.deleted
  /\ Begin(c, [IdleCall EXCEPT !.at = IF goal = "activate" THEN "mark" ELSE "purge", !.goal = goal])
  /\ UNCHANGED <<account, rows, issued, burnt, raced, straddled>>

Mark(c) ==
  /\ calls[c].at = "mark"
  /\ \/ calls[c].goal = "activate" /\ account' = [account EXCEPT !.active = TRUE]
     \/ calls[c].goal = "deactivate" /\ account' = [account EXCEPT !.active = FALSE]
     \/ calls[c].goal = "delete" /\ account.version < MaxVersion /\ account' = Deleted(account)
  /\ End(c)
  /\ UNCHANGED <<rows, issued, burnt, raced, straddled>>

-----------------------------------------------------------------------------
(* Single statements, the clock, the cleanup job and failures. *)

\* logout and revokeSession.
RevokeOne(t) ==
  /\ rows[t].state = "live"
  /\ rows' = Revoked(t)
  /\ UNCHANGED <<account, issued, calls, burnt, raced, straddled>>

LogoutAll ==
  /\ rows' = RevokedAll(TokenIds)
  /\ UNCHANGED <<account, issued, calls, burnt, raced, straddled>>

\* The row expires together with the signed token, and cleanupExpiredTokens
\* deletes it; a revoked row goes after thirty days, expired or not.
Lapse(t) ==
  /\ rows[t].state \in {"live", "revoked"}
  /\ rows' = [rows EXCEPT ![t].state = "gone"]
  /\ UNCHANGED <<account, issued, calls, burnt, raced, straddled>>

\* A check fails, a statement throws or the process dies.
FailCall(c) ==
  /\ calls[c].at # "idle"
  /\ End(c)
  /\ UNCHANGED <<account, rows, issued, burnt, raced, straddled>>

CallStep(c) ==
  \/ Login(c) \/ CheckUser(c) \/ Rotate(c) \/ BurnFamily(c) \/ BumpVersion(c)
  \/ ChangePassword(c) \/ ResetPassword(c) \/ WritePassword(c)
  \/ Purge(c) \/ Mark(c) \/ FailCall(c)
  \/ \E t \in TokenIds : Present(c, t) \/ Issue(c, t)
  \/ \E goal \in {"deactivate", "delete", "activate"} : Administer(c, goal)

TokenNext ==
  \/ \E c \in TokenCalls : CallStep(c)
  \/ \E t \in TokenIds : RevokeOne(t) \/ Lapse(t)
  \/ LogoutAll

TokenSpec == TokenInit /\ [][TokenNext]_tokenVars

-----------------------------------------------------------------------------
TokenTypeOK ==
  /\ account \in [active : BOOLEAN, deleted : BOOLEAN, version : Versions, password : Versions]
  /\ rows \in [TokenIds -> Row]
  /\ issued \subseteq [version : Versions, password : Versions]
  /\ calls \in [TokenCalls -> [at : Points, goal : Goals, token : TokenIds \cup {0},
                  seen : RowStates, family : TokenIds \cup {0},
                  version : Versions, password : Versions]]
  /\ burnt \subseteq TokenIds \cup {0}
  /\ raced \subseteq TokenIds \cup {0}
  /\ straddled \in BOOLEAN

\* No token of the current version, access or refresh, revoked or not, goes back
\* to somebody who did not know the current password: a login or a refresh in
\* flight during changePassword or resetPassword stores a token too late for the
\* revocation, and only its version makes it worthless.
UsableKnowsPassword ==
  \A i \in issued : i.version = account.version => i.password = account.password

\* Once a reuse has been answered, no token of that family is of the current
\* version, whatever refreshes of the family were in flight (auth.service.ts:236).
BurntFamilyUnusable ==
  \A t \in TokenIds : rows[t].family \in burnt => rows[t].version < account.version

\* A family has at most one live token, unless a token was rotated although it
\* had been revoked since it was read: rotation and issue fail separately.
OneLivePerFamily ==
  \A t, u \in TokenIds :
    /\ rows[t].state = "live" /\ rows[u].state = "live"
    /\ rows[t].family = rows[u].family
    /\ rows[t].family \notin raced
    => t = u

\* A deleted account has no token of its current version, even when an activation
\* that was in flight revives it, unless a change of password straddled the
\* deletion (user.service.ts:141).
DeletedStaysOut ==
  account.deleted /\ ~straddled => \A i \in issued : i.version < account.version
=============================================================================

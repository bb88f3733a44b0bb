---------------------------- MODULE TokensProofs ----------------------------
(***************************************************************************)
(* What holds of the tokens of an account for any number of tokens and of  *)
(* requests in flight.  The inductive invariant says of every version that *)
(* is written down anywhere, signed, stored or about to be, that it is not *)
(* ahead of the account's and, if it is the account's, comes with the      *)
(* account's password.                                                     *)
(***************************************************************************)
EXTENDS Tokens, TLAPS

-----------------------------------------------------------------------------
(* The inductive invariant. *)

\* A version and password that may be written down.
Known(v, pw) == v <= account.version /\ (v = account.version => pw = account.password)

KnownAll ==
  /\ Known(0, 0)
  /\ \A i \in issued : Known(i.version, i.password)
  /\ \A t \in TokenIds : Known(rows[t].version, rows[t].password)
  /\ \A c \in TokenCalls : Known(calls[c].version, calls[c].password)

\* A request whose version is going to be signed.
Signing(call) == call.at \in {"rotate", "issue"} \/ (call.at = "purge" /\ call.goal = "change")

TokenGiven == \A c \in TokenCalls : calls[c].at \in {"stored", "rotate"} => calls[c].token \in TokenIds

\* A token that does not exist has no family yet.
FamilyFresh ==
  \A t \in TokenIds : rows[t].state = "unused" =>
    /\ t \notin burnt
    /\ \A u \in TokenIds : rows[u].family # t
    /\ \A c \in TokenCalls : calls[c].family # t

RefreshesBurnt ==
  \A c \in TokenCalls :
    /\ calls[c].at \in {"rotate", "issue"} /\ calls[c].goal = "refresh"
    /\ calls[c].family \in burnt
    => calls[c].version < account.version

Gone == account.deleted /\ ~straddled

DeletedSigns ==
  Gone => /\ \A i \in issued : i.version < account.version
          /\ \A t \in TokenIds : rows[t].version < account.version
          /\ \A c \in TokenCalls : Signing(calls[c]) => calls[c].version < account.version

TokenIInv ==
  /\ TokenTypeOK /\ TokenGiven /\ KnownAll
  /\ FamilyFresh /\ RefreshesBurnt /\ BurntFamilyUnusable /\ DeletedSigns

-----------------------------------------------------------------------------
(* Typing. *)

CallType == [at : Points, goal : Goals, token : TokenIds \cup {0},
             seen : RowStates, family : TokenIds \cup {0},
             version : Versions, password : Versions]

LEMMA Bounds ==
  /\ 0 \in Versions /\ 0 \notin TokenIds /\ IdleCall \in CallType
  /\ \A v \in Versions : v \in Int /\ 0 <= v /\ v <= MaxVersion
  /\ \A v \in Versions : v < MaxVersion => v + 1 \in Versions
BY TokenConstants DEF Versions, IdleCall, CallType, Points, Goals, RowStates

\* A revocation touches states only.
LEMMA Revoking ==
  ASSUME TokenTypeOK, NEW S,
         \/ rows' = RevokedAll(S)
         \/ \E t \in TokenIds : rows' = Revoked(t)
         \/ \E t \in TokenIds : rows[t].state \in {"live", "revoked"} /\ rows' = [rows EXCEPT ![t].state = "gone"]
         \/ rows' = rows
  PROVE  /\ rows' \in [TokenIds -> Row]
         /\ \A t \in TokenIds :
              /\ rows'[t].version = rows[t].version /\ rows'[t].password = rows[t].password
              /\ rows'[t].family = rows[t].family
              /\ rows'[t].state = "unused" <=> rows[t].state = "unused"
<1>0. rows \in [TokenIds -> Row]
  BY DEF TokenTypeOK
<1>1. CASE rows' = RevokedAll(S)
  BY <1>0, <1>1 DEF RevokedAll, Row, RowStates
<1>2. CASE \E t \in TokenIds : rows' = Revoked(t)
  BY <1>0, <1>2 DEF Revoked, Row, RowStates
<1>3. CASE \E t \in TokenIds : rows[t].state \in {"live", "revoked"} /\ rows' = [rows EXCEPT ![t].state = "gone"]
  BY <1>0, <1>3 DEF Row, RowStates
<1>4. CASE rows' = rows
  BY <1>0, <1>4
<1> QED
  BY <1>1, <1>2, <1>3, <1>4

-----------------------------------------------------------------------------
(* What every step but the issue of a token keeps. *)

Account == [active : BOOLEAN, deleted : BOOLEAN, version : Versions, password : Versions]

\* The account never goes back, and no password changes without the version.
Forward ==
  /\ account' \in Account
  /\ \/ account'.version > account.version
     \/ account'.version = account.version /\ account'.password = account.password

RowsKept ==
  /\ rows' \in [TokenIds -> Row]
  /\ \A t \in TokenIds :
       /\ rows'[t].version = rows[t].version /\ rows'[t].password = rows[t].password
       /\ rows'[t].family = rows[t].family
       /\ rows'[t].state = "unused" <=> rows[t].state = "unused"

LEMMA TypedInts ==
  ASSUME TokenTypeOK
  PROVE  /\ account \in Account /\ account.version \in Versions /\ account.version \in Int
         /\ \A i \in issued : i.version \in Int
         /\ \A t \in TokenIds : rows[t].version \in Int /\ rows[t].version \in Versions
         /\ \A c \in TokenCalls : calls[c] \in CallType /\ calls[c].version \in Int
<1>1. account \in Account /\ account.version \in Versions
  BY DEF TokenTypeOK, Account
<1>2. \A i \in issued : i.version \in Versions
  BY DEF TokenTypeOK
<1>3. \A t \in TokenIds : rows[t].version \in Versions
  BY DEF TokenTypeOK, Row
<1>4. \A c \in TokenCalls : calls[c] \in CallType
  BY DEF TokenTypeOK, CallType
<1>5. \A c \in TokenCalls : calls[c].version \in Versions
  BY <1>4 DEF CallType
<1> QED
  BY <1>1, <1>2, <1>3, <1>4, <1>5, Bounds

LEMMA KnownAges ==
  ASSUME TokenTypeOK, Forward, NEW v \in Int, NEW pw, Known(v, pw)
  PROVE  Known(v, pw)'
<1>1. account.version \in Int /\ account'.version \in Int
  BY TypedInts, Bounds DEF Forward, Account
<1> QED
  BY <1>1 DEF Known, Forward

\* A step that signs nothing, leaves the rows but for their states, and leaves
\* the request c as the record call.
LEMMA QuietStep ==
  ASSUME TokenIInv, Forward, RowsKept, issued' = issued,
         NEW c \in TokenCalls, NEW call \in CallType,
         calls' = [calls EXCEPT ![c] = call],
         raced' \subseteq TokenIds \cup {0}, straddled' \in BOOLEAN,
         burnt' \subseteq TokenIds \cup {0},
         call.version <= account'.version,
         call.version = account'.version => call.password = account'.password,
         call.at \in {"stored", "rotate"} => call.token \in TokenIds,
         \A t \in TokenIds : rows[t].state = "unused" => call.family # t,
         \A f \in burnt' : f \in burnt \/ (f = calls[c].family /\ account'.version > account.version),
         call.at \in {"rotate", "issue"} /\ call.goal = "refresh" /\ call.family \in burnt'
           => call.version < account'.version,
         Gone' => Gone \/ account'.version > account.version,
         Gone' /\ Signing(call) => call.version < account'.version
  PROVE  TokenIInv'
<1>0. TokenTypeOK /\ account.version \in Int /\ account'.version \in Int
  BY TypedInts, Bounds DEF TokenIInv, Forward, Account
<1>c. /\ calls'[c] = call /\ \A d \in TokenCalls : d # c => calls'[d] = calls[d]
      /\ \A d \in TokenCalls : calls'[d] = call \/ calls'[d] = calls[d]
  BY <1>0 DEF TokenTypeOK
<1>1. TokenTypeOK'
  BY <1>0 DEF TokenTypeOK, Forward, RowsKept, Account, CallType
<1>2. TokenGiven'
  BY <1>c DEF TokenIInv, TokenGiven
<1>3. KnownAll'
  <2>1. \A i \in issued' : Known(i.version, i.password)'
    BY <1>0, TypedInts, KnownAges DEF TokenIInv, KnownAll
  <2>2. \A t \in TokenIds : Known(rows[t].version, rows[t].password)'
    <3> TAKE t \in TokenIds
    <3>1. account'.version >= rows[t].version /\ (account'.version = rows[t].version => account'.password = rows[t].password)
      BY <1>0, TypedInts, KnownAges DEF TokenIInv, KnownAll, Known
    <3> QED
      BY <3>1, <1>0, TypedInts DEF Known, RowsKept
  <2>3. \A d \in TokenCalls : Known(calls[d].version, calls[d].password)'
    <3> TAKE d \in TokenCalls
    <3>1. CASE d = c
      BY <3>1, <1>c DEF Known
    <3>2. CASE d # c
      <4>1. account'.version >= calls[d].version /\ (account'.version = calls[d].version => account'.password = calls[d].password)
        BY <1>0, TypedInts, KnownAges DEF TokenIInv, KnownAll, Known
      <4> QED
        BY <4>1, <3>2, <1>c, <1>0, TypedInts DEF Known
    <3> QED
      BY <3>1, <3>2
  <2>4. Known(0, 0)'
    BY <1>0, KnownAges DEF TokenIInv, KnownAll
  <2> QED
    BY <2>1, <2>2, <2>3, <2>4 DEF KnownAll
<1>4. FamilyFresh'
  <2> SUFFICES ASSUME NEW t \in TokenIds, rows'[t].state = "unused"
               PROVE  /\ t \notin burnt'
                      /\ \A u \in TokenIds : rows'[u].family # t
                      /\ \A d \in TokenCalls : calls'[d].family # t
    BY DEF FamilyFresh
  <2>1. rows[t].state = "unused"
    BY DEF RowsKept
  <2>2. t \notin burnt /\ (\A u \in TokenIds : rows[u].family # t) /\ \A d \in TokenCalls : calls[d].family # t
    BY <2>1 DEF TokenIInv, FamilyFresh
  <2> QED
    BY <2>1, <2>2, <1>c DEF RowsKept
<1>5. RefreshesBurnt'
  <2> SUFFICES ASSUME NEW d \in TokenCalls, calls'[d].at \in {"rotate", "issue"},
                      calls'[d].goal = "refresh", calls'[d].family \in burnt'
               PROVE  calls'[d].version < account'.version
    BY DEF RefreshesBurnt
  <2>1. CASE d = c
    BY <2>1, <1>c
  <2>2. CASE d # c
    <3>1. calls'[d] = calls[d]
      BY <2>2, <1>c
    <3>2. CASE calls[d].family \in burnt
      <4>1. calls[d].version < account.version
        BY <3>1, <3>2 DEF TokenIInv, RefreshesBurnt
      <4> QED
        BY <4>1, <3>1, <1>0, TypedInts DEF Forward
    <3>3. CASE account'.version > account.version
      <4>1. calls[d].version <= account.version
        BY DEF TokenIInv, KnownAll, Known
      <4> QED
        BY <4>1, <3>1, <3>3, <1>0, TypedInts
    <3> QED
      BY <3>1, <3>2, <3>3
  <2> QED
    BY <2>1, <2>2
<1>6. BurntFamilyUnusable'
  <2> SUFFICES ASSUME NEW t \in TokenIds, rows'[t].family \in burnt'
               PROVE  rows'[t].version < account'.version
    BY DEF BurntFamilyUnusable
  <2>1. rows'[t].version = rows[t].version /\ rows'[t].family = rows[t].family
    BY DEF RowsKept
  <2>2. CASE rows[t].family \in burnt
    <3>1. rows[t].version < account.version
      BY <2>2 DEF TokenIInv, BurntFamilyUnusable
    <3> QED
      BY <3>1, <2>1, <1>0, TypedInts DEF Forward
  <2>3. CASE account'.version > account.version
    <3>1. rows[t].version <= account.version
      BY DEF TokenIInv, KnownAll, Known
    <3> QED
      BY <3>1, <2>1, <2>3, <1>0, TypedInts
  <2> QED
    BY <2>1, <2>2, <2>3
<1>7. DeletedSigns'
  <2> SUFFICES ASSUME Gone'
               PROVE  /\ \A i \in issued' : i.version < account'.version
                      /\ \A t \in TokenIds : rows'[t].version < account'.version
                      /\ \A d \in TokenCalls : Signing(calls'[d]) => calls'[d].version < account'.version
    BY DEF DeletedSigns, Signing
  <2>1. CASE account'.version > account.version
    <3>1. \A i \in issued : i.version < account'.version
      BY <2>1, <1>0, TypedInts DEF TokenIInv, KnownAll, Known
    <3>2. \A t \in TokenIds : rows[t].version < account'.version
      BY <2>1, <1>0, TypedInts DEF TokenIInv, KnownAll, Known
    <3>3. \A d \in TokenCalls : calls[d].version < account'.version
      BY <2>1, <1>0, TypedInts DEF TokenIInv, KnownAll, Known
    <3> QED
      BY <3>1, <3>2, <3>3, <1>c DEF RowsKept
  <2>2. CASE Gone
    <3>0. account'.version >= account.version
      BY <1>0 DEF Forward
    <3>1. \A i \in issued : i.version < account'.version
      BY <2>2, <3>0, <1>0, TypedInts DEF TokenIInv, DeletedSigns
    <3>2. \A t \in TokenIds : rows[t].version < account'.version
      BY <2>2, <3>0, <1>0, TypedInts DEF TokenIInv, DeletedSigns
    <3>3. \A d \in TokenCalls : Signing(calls[d]) => calls[d].version < account'.version
      BY <2>2, <3>0, <1>0, TypedInts DEF TokenIInv, DeletedSigns
    <3> QED
      BY <3>1, <3>2, <3>3, <1>c DEF RowsKept
  <2> QED
    BY <2>1, <2>2
<1> QED
  BY <1>1, <1>2, <1>3, <1>4, <1>5, <1>6, <1>7 DEF TokenIInv

\* A step of the clock or of one statement that touches states of rows only.
LEMMA RowStep ==
  ASSUME TokenIInv, RowsKept, UNCHANGED <<account, issued, calls, burnt, raced, straddled>>
  PROVE  TokenIInv'
<1>0. TokenTypeOK
  BY DEF TokenIInv
<1>1. TokenTypeOK'
  BY <1>0 DEF TokenTypeOK, RowsKept
<1>2. TokenGiven' /\ RefreshesBurnt'
  BY DEF TokenIInv, TokenGiven, RefreshesBurnt
<1>3. KnownAll'
  BY DEF TokenIInv, KnownAll, Known, RowsKept
<1>4. FamilyFresh'
  BY DEF TokenIInv, FamilyFresh, RowsKept
<1>5. BurntFamilyUnusable'
  BY DEF TokenIInv, BurntFamilyUnusable, RowsKept
<1>6. DeletedSigns'
  BY DEF TokenIInv, DeletedSigns, Gone, Signing, RowsKept
<1> QED
  BY <1>1, <1>2, <1>3, <1>4, <1>5, <1>6 DEF TokenIInv

\* The one step that signs and stores.
LEMMA IssueStep ==
  ASSUME TokenIInv, NEW c \in TokenCalls, NEW t \in TokenIds, Issue(c, t)
  PROVE  TokenIInv'
<1> DEFINE call == calls[c]
           row == [state |-> "live", family |-> IF call.goal = "refresh" THEN call.family ELSE t,
                   version |-> call.version, password |-> call.password]
<1>0. TokenTypeOK /\ call \in CallType /\ call.version \in Int /\ account.version \in Int
  BY TypedInts DEF TokenIInv
<1>1. /\ call.at = "issue" /\ rows[t].state = "unused"
      /\ rows' = [rows EXCEPT ![t] = row]
      /\ issued' = issued \cup {[version |-> call.version, password |-> call.password]}
      /\ calls' = [calls EXCEPT ![c] = IdleCall]
      /\ UNCHANGED <<account, burnt, raced, straddled>>
  BY DEF Issue, Signed, End
<1>2. row \in Row
  BY <1>0 DEF CallType, Row, RowStates
<1> HIDE DEF row
<1>3. /\ rows'[t] = row /\ \A u \in TokenIds : u # t => rows'[u] = rows[u]
      /\ calls'[c] = IdleCall /\ \A d \in TokenCalls : d # c => calls'[d] = calls[d]
      /\ \A d \in TokenCalls : calls'[d] = IdleCall \/ calls'[d] = calls[d]
  BY <1>0, <1>1 DEF TokenTypeOK
<1>4. /\ row.version = call.version /\ row.password = call.password /\ row.state = "live"
      /\ row.family = IF call.goal = "refresh" THEN call.family ELSE t
  BY DEF row
<1>5. Known(call.version, call.password) /\ Known(0, 0)
  BY DEF TokenIInv, KnownAll
<1>6. TokenTypeOK'
  BY <1>0, <1>1, <1>2, Bounds DEF TokenTypeOK, CallType
<1>7. TokenGiven'
  BY <1>3 DEF TokenIInv, TokenGiven, IdleCall
<1>8. KnownAll'
  <2>1. \A i \in issued' : Known(i.version, i.password)
    BY <1>1, <1>5 DEF TokenIInv, KnownAll
  <2>2. \A u \in TokenIds : Known(rows'[u].version, rows'[u].password)
    BY <1>3, <1>4, <1>5 DEF TokenIInv, KnownAll
  <2>3. \A d \in TokenCalls : Known(calls'[d].version, calls'[d].password)
    BY <1>3, <1>5 DEF TokenIInv, KnownAll, IdleCall
  <2> QED
    BY <2>1, <2>2, <2>3, <1>1, <1>5 DEF KnownAll, Known
<1>9. FamilyFresh'
  <2> SUFFICES ASSUME NEW u \in TokenIds, rows'[u].state = "unused"
               PROVE  /\ u \notin burnt'
                      /\ \A w \in TokenIds : rows'[w].family # u
                      /\ \A d \in TokenCalls : calls'[d].family # u
    BY DEF FamilyFresh
  <2>1. u # t /\ rows[u].state = "unused"
    BY <1>3, <1>4
  <2>2. u \notin burnt /\ (\A w \in TokenIds : rows[w].family # u) /\ \A d \in TokenCalls : calls[d].family # u
    BY <2>1 DEF TokenIInv, FamilyFresh
  <2>3. row.family # u
    BY <2>1, <2>2, <1>4
  <2>4. IdleCall.family # u
    BY Bounds DEF IdleCall
  <2> QED
    BY <2>2, <2>3, <2>4, <1>1, <1>3
<1>10. RefreshesBurnt'
  BY <1>1, <1>3 DEF TokenIInv, RefreshesBurnt, IdleCall
<1>11. BurntFamilyUnusable'
  <2>1. row.family \in burnt => row.version < account.version
    <3>1. t \notin burnt
      BY <1>1 DEF TokenIInv, FamilyFresh
    <3>2. call.goal = "refresh" /\ call.family \in burnt => call.version < account.version
      BY <1>1 DEF TokenIInv, RefreshesBurnt
    <3> QED
      BY <3>1, <3>2, <1>4
  <2> QED
    BY <2>1, <1>1, <1>3 DEF TokenIInv, BurntFamilyUnusable
<1>12. DeletedSigns'
  <2> SUFFICES ASSUME Gone
               PROVE  /\ \A i \in issued' : i.version < account.version
                      /\ \A u \in TokenIds : rows'[u].version < account.version
                      /\ \A d \in TokenCalls : Signing(calls'[d]) => calls'[d].version < account.version
    BY <1>1 DEF DeletedSigns, Gone, Signing
  <2>1. call.version < account.version
    BY <1>1 DEF TokenIInv, DeletedSigns, Signing
  <2>2. ~Signing(IdleCall)
    BY DEF Signing, IdleCall
  <2>3. /\ \A i \in issued : i.version < account.version
        /\ \A u \in TokenIds : rows[u].version < account.version
        /\ \A d \in TokenCalls : Signing(calls[d]) => calls[d].version < account.version
    BY DEF TokenIInv, DeletedSigns
  <2>4. \A d \in TokenCalls : Signing(calls'[d]) => calls'[d].version < account.version
    BY <2>2, <2>3, <1>3
  <2> QED
    BY <2>1, <2>3, <2>4, <1>1, <1>3, <1>4
<1> QED
  BY <1>6, <1>7, <1>8, <1>9, <1>10, <1>11, <1>12 DEF TokenIInv

-----------------------------------------------------------------------------
(* The other steps of a request. *)

LEMMA SameAccount ==
  ASSUME TokenTypeOK, account' = account
  PROVE  Forward
BY TypedInts DEF Forward

LEMMA SameRows ==
  ASSUME TokenTypeOK, rows' = rows
  PROVE  RowsKept
BY DEF TokenTypeOK, RowsKept

\* The request leaves for another point, and nothing else but states of rows changes.
LEMMA GoStep ==
  ASSUME TokenIInv, RowsKept, UNCHANGED <<account, issued, burnt, straddled>>,
         raced' \subseteq TokenIds \cup {0},
         NEW c \in TokenCalls, NEW call \in CallType,
         calls' = [calls EXCEPT ![c] = call],
         Known(call.version, call.password),
         call.at \in {"stored", "rotate"} => call.token \in TokenIds,
         \A t \in TokenIds : rows[t].state = "unused" => call.family # t,
         call.at \in {"rotate", "issue"} /\ call.goal = "refresh" /\ call.family \in burnt
           => call.version < account.version,
         Gone /\ Signing(call) => call.version < account.version
  PROVE  TokenIInv'
<1>1. TokenTypeOK /\ Forward
  BY SameAccount DEF TokenIInv
<1>2. /\ call.version <= account'.version
      /\ call.version = account'.version => call.password = account'.password
  BY DEF Known
<1>3. straddled' \in BOOLEAN /\ burnt' \subseteq TokenIds \cup {0} /\ (Gone' <=> Gone)
  BY <1>1 DEF TokenTypeOK, Gone
<1>4. \A f \in burnt' : f \in burnt \/ (f = calls[c].family /\ account'.version > account.version)
  OBVIOUS
<1>5. call.at \in {"rotate", "issue"} /\ call.goal = "refresh" /\ call.family \in burnt'
        => call.version < account'.version
  OBVIOUS
<1>6. Gone' => Gone \/ account'.version > account.version
  BY <1>3
<1>7. Gone' /\ Signing(call) => call.version < account'.version
  BY <1>3
<1>8. issued' = issued
  OBVIOUS
<1> QED
  BY <1>1, <1>2, <1>3, <1>4, <1>5, <1>6, <1>7, <1>8, QuietStep

\* The request ends.
LEMMA EndStep ==
  ASSUME TokenIInv, Forward, RowsKept, issued' = issued, NEW c \in TokenCalls, End(c),
         raced' = raced, straddled' = straddled, burnt' \subseteq TokenIds \cup {0},
         \A f \in burnt' : f \in burnt \/ (f = calls[c].family /\ account'.version > account.version),
         Gone' => Gone \/ account'.version > account.version
  PROVE  TokenIInv'
<1>1. IdleCall \in CallType /\ calls' = [calls EXCEPT ![c] = IdleCall]
  BY Bounds DEF End
<1>2. TokenTypeOK /\ Known(0, 0)
  BY DEF TokenIInv, KnownAll
<1>3. Known(0, 0)'
  BY <1>2, KnownAges
<1>4. /\ IdleCall.version <= account'.version
      /\ IdleCall.version = account'.version => IdleCall.password = account'.password
  BY <1>3 DEF IdleCall, Known
<1>5. /\ IdleCall.at \notin {"stored", "rotate", "issue"} /\ ~Signing(IdleCall)
      /\ \A t \in TokenIds : IdleCall.family # t
  BY Bounds DEF IdleCall, Signing
<1>6. raced' \subseteq TokenIds \cup {0} /\ straddled' \in BOOLEAN
  BY <1>2 DEF TokenTypeOK
<1> QED
  BY <1>1, <1>4, <1>5, <1>6, QuietStep

LEMMA LoginStep ==
  ASSUME TokenIInv, NEW c \in TokenCalls, Login(c)
  PROVE  TokenIInv'
<1> DEFINE call == [IdleCall EXCEPT !.at = "issue", !.goal = "login",
                      !.version = account.version, !.password = account.password]
<1>1. TokenTypeOK /\ RowsKept /\ raced' \subseteq TokenIds \cup {0}
  BY SameRows DEF TokenIInv, Login, TokenTypeOK
<1>2. call \in CallType
  BY <1>1, Bounds DEF TokenTypeOK, CallType, Points, Goals
<1>3. /\ call.at = "issue" /\ call.goal = "login" /\ call.family = 0
      /\ call.version = account.version /\ call.password = account.password
  BY DEF IdleCall
<1>4. calls' = [calls EXCEPT ![c] = call]
  BY DEF Login, Begin
<1>5. Known(call.version, call.password)
  BY <1>3, <1>1, TypedInts DEF Known
<1>6. ~Gone \/ straddled
  BY DEF Login, Gone
<1> HIDE DEF call
<1> QED
  BY <1>1, <1>2, <1>3, <1>4, <1>5, <1>6, Bounds, GoStep DEF Login, Gone

LEMMA PresentStep ==
  ASSUME TokenIInv, NEW c \in TokenCalls, NEW t \in TokenIds, Present(c, t)
  PROVE  TokenIInv'
<1> DEFINE call == [IdleCall EXCEPT !.at = "stored", !.goal = "refresh", !.token = t,
                      !.seen = rows[t].state]
<1>1. TokenTypeOK /\ RowsKept /\ raced' \subseteq TokenIds \cup {0}
  BY SameRows DEF TokenIInv, Present, TokenTypeOK
<1>2. rows[t].state \in RowStates
  BY <1>1 DEF TokenTypeOK, Row
<1>3. call \in CallType
  BY <1>2, Bounds DEF CallType, Points, Goals
<1>4. call.at = "stored" /\ call.token = t /\ call.family = 0 /\ call.version = 0 /\ call.password = 0
  BY DEF IdleCall
<1>5. calls' = [calls EXCEPT ![c] = call] /\ UNCHANGED <<account, issued, burnt, straddled>>
  BY DEF Present, Begin
<1>6. Known(call.version, call.password)
  BY <1>4 DEF TokenIInv, KnownAll
<1>7. ~Signing(call) /\ \A u \in TokenIds : call.family # u
  BY <1>4, Bounds DEF Signing
<1> HIDE DEF call
<1> QED
  BY <1>1, <1>3, <1>4, <1>5, <1>6, <1>7, GoStep

LEMMA CheckUserStep ==
  ASSUME TokenIInv, NEW c \in TokenCalls, CheckUser(c)
  PROVE  TokenIInv'
<1> DEFINE t == calls[c].token
           burn == [IdleCall EXCEPT !.at = "burn", !.family = rows[t].family]
           rotate == [IdleCall EXCEPT !.at = "rotate", !.goal = "refresh", !.token = t,
                        !.family = rows[t].family, !.version = account.version,
                        !.password = rows[t].password]
<1>1. TokenTypeOK /\ RowsKept /\ raced' \subseteq TokenIds \cup {0}
  BY SameRows DEF TokenIInv, CheckUser, TokenTypeOK
<1>2. t \in TokenIds /\ rows[t].version = account.version /\ UNCHANGED <<account, issued, burnt, straddled>>
  BY DEF TokenIInv, TokenGiven, CheckUser
<1>3. rows[t] \in Row /\ rows[t].version \in Int /\ account.version \in Versions
  BY <1>1, <1>2, TypedInts DEF TokenTypeOK
<1>4. rows[t].family \in TokenIds \cup {0} /\ rows[t].password \in Versions
  BY <1>3 DEF Row
<1>5. \A u \in TokenIds : rows[u].state = "unused" => rows[t].family # u
  BY <1>2 DEF TokenIInv, FamilyFresh
<1>6. CASE Go(c, burn)
  <2>1. burn \in CallType
    BY <1>4, Bounds DEF CallType, Points
  <2>2. burn.at = "burn" /\ burn.family = rows[t].family /\ burn.version = 0 /\ burn.password = 0
    BY DEF IdleCall
  <2>3. Known(burn.version, burn.password) /\ ~Signing(burn)
    BY <2>2 DEF TokenIInv, KnownAll, Signing
  <2>4. calls' = [calls EXCEPT ![c] = burn]
    BY <1>6 DEF Go
  <2> HIDE DEF burn
  <2> QED
    BY <2>1, <2>2, <2>3, <2>4, <1>1, <1>2, <1>5, GoStep
<1>7. CASE Go(c, rotate)
  <2>1. rotate \in CallType
    BY <1>2, <1>3, <1>4, Bounds DEF CallType, Points, Goals
  <2>2. /\ rotate.at = "rotate" /\ rotate.token = t /\ rotate.family = rows[t].family
        /\ rotate.version = account.version /\ rotate.password = rows[t].password
    BY DEF IdleCall
  <2>3. Known(rotate.version, rotate.password)
    BY <2>2, <1>2 DEF TokenIInv, KnownAll
  <2>4. rows[t].family \notin burnt
    BY <1>2, <1>3 DEF TokenIInv, BurntFamilyUnusable
  <2>5. ~Gone
    BY <1>2, <1>3 DEF TokenIInv, DeletedSigns
  <2>6. calls' = [calls EXCEPT ![c] = rotate]
    BY <1>7 DEF Go
  <2> HIDE DEF rotate
  <2> QED
    BY <2>1, <2>2, <2>3, <2>4, <2>5, <2>6, <1>1, <1>2, <1>5, GoStep
<1> QED
  BY <1>6, <1>7 DEF CheckUser

\* What the record of a request says of itself, for the steps that carry it on.
LEMMA CallGiven ==
  ASSUME TokenIInv, NEW c \in TokenCalls
  PROVE  /\ calls[c] \in CallType /\ Known(calls[c].version, calls[c].password)
         /\ calls[c].family \in TokenIds \cup {0}
         /\ \A t \in TokenIds : rows[t].state = "unused" => calls[c].family # t
         /\ calls[c].at \in {"rotate", "issue"} /\ calls[c].goal = "refresh" /\ calls[c].family \in burnt
              => calls[c].version < account.version
         /\ Gone /\ Signing(calls[c]) => calls[c].version < account.version
<1>1. calls[c] \in CallType
  BY TypedInts DEF TokenIInv
<1> QED
  BY <1>1 DEF TokenIInv, KnownAll, FamilyFresh, RefreshesBurnt, DeletedSigns, CallType

LEMMA RotateStep ==
  ASSUME TokenIInv, NEW c \in TokenCalls, Rotate(c)
  PROVE  TokenIInv'
<1> DEFINE call == [calls[c] EXCEPT !.at = "issue", !.token = 0]
<1>1. TokenTypeOK /\ UNCHANGED <<account, issued, burnt, straddled>> /\ calls[c].at = "rotate"
  BY DEF TokenIInv, Rotate
<1>2. calls[c].token \in TokenIds
  BY <1>1 DEF TokenIInv, TokenGiven
<1>3. RowsKept
  BY <1>1, <1>2, Revoking DEF Rotate, RowsKept
<1>4. raced' \subseteq TokenIds \cup {0}
  BY <1>1, CallGiven DEF Rotate, TokenTypeOK
<1>5. /\ call \in CallType /\ call.at = "issue" /\ call.goal = calls[c].goal
      /\ call.family = calls[c].family
      /\ call.version = calls[c].version /\ call.password = calls[c].password
  BY CallGiven DEF CallType, Points
<1>6. calls' = [calls EXCEPT ![c] = call]
  BY DEF Rotate, Go
<1>7. Signing(calls[c])
  BY <1>1 DEF Signing
<1> HIDE DEF call
<1> QED
  BY <1>1, <1>3, <1>4, <1>5, <1>6, <1>7, CallGiven, GoStep

LEMMA BurnFamilyStep ==
  ASSUME TokenIInv, NEW c \in TokenCalls, BurnFamily(c)
  PROVE  TokenIInv'
<1> DEFINE call == [calls[c] EXCEPT !.at = "bump"]
<1>1. /\ TokenTypeOK /\ UNCHANGED <<account, issued, burnt, straddled>>
      /\ raced' \subseteq TokenIds \cup {0}
  BY DEF TokenIInv, BurnFamily, TokenTypeOK
<1>2. RowsKept
  BY <1>1, Revoking DEF BurnFamily, RowsKept
<1>3. /\ call \in CallType /\ call.at = "bump" /\ call.family = calls[c].family
      /\ call.version = calls[c].version /\ call.password = calls[c].password
  BY CallGiven DEF CallType, Points
<1>4. calls' = [calls EXCEPT ![c] = call]
  BY DEF BurnFamily, Go
<1>5. ~Signing(call)
  BY <1>3 DEF Signing
<1> HIDE DEF call
<1> QED
  BY <1>1, <1>2, <1>3, <1>4, <1>5, CallGiven, GoStep

LEMMA BumpVersionStep ==
  ASSUME TokenIInv, NEW c \in TokenCalls, BumpVersion(c)
  PROVE  TokenIInv'
<1>1. TokenTypeOK /\ account \in Account /\ account.version \in Versions /\ account.version \in Int
  BY TypedInts DEF TokenIInv
<1>2. account'.version = account.version + 1 /\ account'.deleted = account.deleted /\ account' \in Account
  BY <1>1, Bounds DEF BumpVersion, Outdated, Account
<1>3. Forward /\ account'.version > account.version
  BY <1>1, <1>2 DEF Forward
<1>4. RowsKept
  BY <1>1, SameRows DEF BumpVersion
<1>5. burnt' = burnt \cup {calls[c].family} /\ burnt' \subseteq TokenIds \cup {0}
  BY <1>1, CallGiven DEF BumpVersion, TokenTypeOK
<1>6. End(c) /\ UNCHANGED <<rows, issued, raced, straddled>>
  BY DEF BumpVersion
<1> QED
  BY <1>2, <1>3, <1>4, <1>5, <1>6, EndStep

LEMMA BeginStep ==
  ASSUME TokenIInv, UNCHANGED <<account, rows, issued, burnt, raced, straddled>>,
         NEW c \in TokenCalls, NEW at \in {"write", "purge", "mark"},
         NEW goal \in {"change", "reset", "deactivate", "delete", "activate"},
         at = "purge" => goal # "change",
         Begin(c, [IdleCall EXCEPT !.at = at, !.goal = goal])
  PROVE  TokenIInv'
<1> DEFINE call == [IdleCall EXCEPT !.at = at, !.goal = goal]
<1>1. TokenTypeOK /\ RowsKept /\ raced' \subseteq TokenIds \cup {0}
  BY SameRows DEF TokenIInv, TokenTypeOK
<1>2. call \in CallType
  BY Bounds DEF CallType, Points, Goals
<1>3. call.at = at /\ call.goal = goal /\ call.family = 0 /\ call.version = 0 /\ call.password = 0
  BY DEF IdleCall
<1>4. calls' = [calls EXCEPT ![c] = call]
  BY DEF Begin
<1>5. Known(call.version, call.password)
  BY <1>3 DEF TokenIInv, KnownAll
<1>6. ~Signing(call) /\ \A t \in TokenIds : call.family # t
  BY <1>3, Bounds DEF Signing
<1> HIDE DEF call
<1> QED
  BY <1>1, <1>2, <1>3, <1>4, <1>5, <1>6, GoStep

LEMMA WritePasswordStep ==
  ASSUME TokenIInv, NEW c \in TokenCalls, WritePassword(c)
  PROVE  TokenIInv'
<1> DEFINE call == [calls[c] EXCEPT !.at = "purge", !.version = account'.version,
                      !.password = account'.password]
<1>1. TokenTypeOK /\ account \in Account /\ account.version \in Versions /\ account.version \in Int
  BY TypedInts DEF TokenIInv
<1>2. /\ account'.version = account.version + 1 /\ account'.password = account.version + 1
      /\ account'.deleted = account.deleted /\ account' \in Account
  BY <1>1, Bounds DEF WritePassword, NewPassword, Account
<1>3. Forward /\ account'.version > account.version /\ account'.version \in Versions /\ account'.password \in Versions
  BY <1>1, <1>2 DEF Forward, Account
<1>4. /\ RowsKept /\ issued' = issued /\ burnt' = burnt /\ raced' \subseteq TokenIds \cup {0}
      /\ burnt' \subseteq TokenIds \cup {0}
  BY <1>1, SameRows DEF WritePassword, TokenTypeOK
<1>5. /\ call \in CallType /\ call.at = "purge" /\ call.goal = calls[c].goal
      /\ call.family = calls[c].family
      /\ call.version = account'.version /\ call.password = account'.password
  BY <1>3, CallGiven DEF CallType, Points
<1>6. calls' = [calls EXCEPT ![c] = call]
  BY DEF WritePassword, Go
<1>7. straddled' = (straddled \/ (account.deleted /\ calls[c].goal = "change"))
  BY DEF WritePassword
<1>8. straddled' \in BOOLEAN /\ (Gone' => Gone) /\ (Gone' => ~Signing(call))
  BY <1>1, <1>2, <1>5, <1>7 DEF TokenTypeOK, Gone, Signing
<1>9. call.version <= account'.version
  BY <1>1, <1>2, <1>5
<1> HIDE DEF call
<1> QED
  BY <1>3, <1>4, <1>5, <1>6, <1>8, <1>9, CallGiven, QuietStep

LEMMA PurgeStep ==
  ASSUME TokenIInv, NEW c \in TokenCalls, Purge(c)
  PROVE  TokenIInv'
<1>1. /\ TokenTypeOK /\ UNCHANGED <<account, issued, burnt, raced, straddled>>
      /\ raced' \subseteq TokenIds \cup {0} /\ calls[c].at = "purge"
  BY DEF TokenIInv, Purge, TokenTypeOK
<1>2. RowsKept
  BY <1>1, Revoking DEF Purge, RowsKept
<1>3. CASE calls[c].goal = "change"
  <2> DEFINE call == [calls[c] EXCEPT !.at = "issue"]
  <2>1. /\ call \in CallType /\ call.at = "issue" /\ call.goal = "change"
        /\ call.family = calls[c].family
        /\ call.version = calls[c].version /\ call.password = calls[c].password
    BY <1>3, CallGiven DEF CallType, Points
  <2>2. calls' = [calls EXCEPT ![c] = call]
    BY <1>3 DEF Purge, Go
  <2>3. Signing(calls[c])
    BY <1>1, <1>3 DEF Signing
  <2> HIDE DEF call
  <2> QED
    BY <1>1, <1>2, <2>1, <2>2, <2>3, CallGiven, GoStep
<1>4. CASE calls[c].goal = "reset"
  <2>1. End(c)
    BY <1>4 DEF Purge
  <2>2. Forward /\ burnt' \subseteq TokenIds \cup {0} /\ (Gone' => Gone)
    BY <1>1, SameAccount DEF TokenTypeOK, Gone
  <2>3. \A f \in burnt' : f \in burnt \/ (f = calls[c].family /\ account'.version > account.version)
    BY <1>1
  <2> QED
    BY <1>1, <1>2, <2>1, <2>2, <2>3, EndStep
<1>5. CASE calls[c].goal \notin {"change", "reset"}
  <2> DEFINE call == [calls[c] EXCEPT !.at = "mark"]
  <2>1. /\ call \in CallType /\ call.at = "mark" /\ call.family = calls[c].family
        /\ call.version = calls[c].version /\ call.password = calls[c].password
    BY CallGiven DEF CallType, Points
  <2>2. calls' = [calls EXCEPT ![c] = call]
    BY <1>5 DEF Purge, Go
  <2>3. ~Signing(call)
    BY <2>1 DEF Signing
  <2> HIDE DEF call
  <2> QED
    BY <1>1, <1>2, <2>1, <2>2, <2>3, CallGiven, GoStep
<1> QED
  BY <1>3, <1>4, <1>5

LEMMA MarkStep ==
  ASSUME TokenIInv, NEW c \in TokenCalls, Mark(c)
  PROVE  TokenIInv'
<1>1. TokenTypeOK /\ account \in Account /\ account.version \in Versions /\ account.version \in Int
  BY TypedInts DEF TokenIInv
<1>2. End(c) /\ UNCHANGED <<rows, issued, burnt, raced, straddled>>
  BY DEF Mark
<1>3. RowsKept /\ burnt' \subseteq TokenIds \cup {0}
  BY <1>1, <1>2, SameRows DEF TokenTypeOK
<1>4. Forward /\ (Gone' => Gone \/ account'.version > account.version)
  <2>1. CASE account' = [account EXCEPT !.active = TRUE]
    BY <1>1, <1>2, <2>1 DEF Forward, Gone, Account
  <2>2. CASE account' = [account EXCEPT !.active = FALSE]
    BY <1>1, <1>2, <2>2 DEF Forward, Gone, Account
  <2>3. CASE account.version < MaxVersion /\ account' = Deleted(account)
    <3>1. account.version + 1 \in Versions
      BY <1>1, <2>3, Bounds
    <3>2. /\ account'.version = account.version + 1 /\ account' \in Account
      BY <1>1, <2>3, <3>1 DEF Deleted, Account
    <3> QED
      BY <1>1, <3>2 DEF Forward
  <2> QED
    BY <2>1, <2>2, <2>3 DEF Mark
<1>5. \A f \in burnt' : f \in burnt \/ (f = calls[c].family /\ account'.version > account.version)
  BY <1>2
<1> QED
  BY <1>2, <1>3, <1>4, <1>5, EndStep

LEMMA FailCallStep ==
  ASSUME TokenIInv, NEW c \in TokenCalls, FailCall(c)
  PROVE  TokenIInv'
<1>1. TokenTypeOK /\ End(c) /\ UNCHANGED <<account, rows, issued, burnt, raced, straddled>>
  BY DEF TokenIInv, FailCall
<1>2. Forward /\ RowsKept /\ burnt' \subseteq TokenIds \cup {0} /\ (Gone' => Gone)
  BY <1>1, SameAccount, SameRows DEF TokenTypeOK, Gone
<1>3. \A f \in burnt' : f \in burnt \/ (f = calls[c].family /\ account'.version > account.version)
  BY <1>1
<1> QED
  BY <1>1, <1>2, <1>3, EndStep

-----------------------------------------------------------------------------
(* The invariant is inductive. *)

LEMMA TokenStart == TokenInit => TokenIInv
<1> SUFFICES ASSUME TokenInit PROVE TokenIInv
  OBVIOUS
<1>1. TokenTypeOK
  <2>1. account \in Account /\ issued \subseteq [version : Versions, password : Versions]
    BY Bounds DEF TokenInit, Account
  <2>2. rows \in [TokenIds -> Row]
    <3>1. \A t \in TokenIds : [state |-> IF t = 1 THEN "live" ELSE "unused",
             family |-> IF t = 1 THEN 1 ELSE 0, version |-> 0, password |-> 0] \in Row
      BY Bounds DEF Row, RowStates
    <3> QED
      BY <3>1 DEF TokenInit
  <2>3. calls \in [TokenCalls -> CallType]
    BY Bounds DEF TokenInit
  <2> QED
    BY <2>1, <2>2, <2>3 DEF TokenInit, TokenTypeOK, Account, CallType
<1>2. TokenGiven /\ RefreshesBurnt /\ BurntFamilyUnusable /\ DeletedSigns
  BY DEF TokenInit, TokenGiven, RefreshesBurnt, BurntFamilyUnusable, DeletedSigns, Gone, IdleCall
<1>3. KnownAll
  BY DEF TokenInit, KnownAll, Known, IdleCall
<1>4. FamilyFresh
  <2> SUFFICES ASSUME NEW t \in TokenIds, rows[t].state = "unused"
               PROVE  /\ t \notin burnt
                      /\ \A u \in TokenIds : rows[u].family # t
                      /\ \A c \in TokenCalls : calls[c].family # t
    BY DEF FamilyFresh
  <2>1. t # 1 /\ t # 0
    BY Bounds DEF TokenInit
  <2>2. \A u \in TokenIds : rows[u].family \in {0, 1}
    BY DEF TokenInit
  <2>3. \A c \in TokenCalls : calls[c].family = 0
    BY DEF TokenInit, IdleCall
  <2> QED
    BY <2>1, <2>2, <2>3 DEF TokenInit
<1> QED
  BY <1>1, <1>2, <1>3, <1>4 DEF TokenIInv

LEMMA CallStepKeeps ==
  ASSUME TokenIInv, NEW c \in TokenCalls, CallStep(c)
  PROVE  TokenIInv'
<1>1. CASE \E goal \in {"deactivate", "delete", "activate"} : Administer(c, goal)
  <2> PICK goal \in {"deactivate", "delete", "activate"} : Administer(c, goal)
    BY <1>1
  <2> DEFINE at == IF goal = "activate" THEN "mark" ELSE "purge"
  <2>1. at \in {"write", "purge", "mark"}
    OBVIOUS
  <2>2. Begin(c, [IdleCall EXCEPT !.at = at, !.goal = goal])
    BY DEF Administer
  <2>3. UNCHANGED <<account, rows, issued, burnt, raced, straddled>>
    BY DEF Administer
  <2> HIDE DEF at
  <2> QED
    BY <2>1, <2>2, <2>3, BeginStep
<1>2. CASE ChangePassword(c)
  BY <1>2, BeginStep DEF ChangePassword
<1>3. CASE ResetPassword(c)
  BY <1>3, BeginStep DEF ResetPassword
<1>4. CASE \E t \in TokenIds : Present(c, t) \/ Issue(c, t)
  BY <1>4, PresentStep, IssueStep
<1> QED
  BY <1>1, <1>2, <1>3, <1>4, LoginStep, CheckUserStep, RotateStep, BurnFamilyStep,
     BumpVersionStep, WritePasswordStep, PurgeStep, MarkStep, FailCallStep DEF CallStep

LEMMA TokenKeeps == TokenIInv /\ [TokenNext]_tokenVars => TokenIInv'
<1> SUFFICES ASSUME TokenIInv, [TokenNext]_tokenVars PROVE TokenIInv'
  OBVIOUS
<1>0. TokenTypeOK
  BY DEF TokenIInv
<1>1. CASE \E c \in TokenCalls : CallStep(c)
  BY <1>1, CallStepKeeps
<1>2. ASSUME NEW t \in TokenIds, RevokeOne(t) \/ Lapse(t) PROVE TokenIInv'
  <2>1. RowsKept
    BY <1>0, <1>2, Revoking DEF RevokeOne, Lapse, RowsKept
  <2> QED
    BY <1>2, <2>1, RowStep DEF RevokeOne, Lapse
<1>3. CASE LogoutAll
  <2>1. RowsKept
    BY <1>0, <1>3, Revoking DEF LogoutAll, RowsKept
  <2> QED
    BY <1>3, <2>1, RowStep DEF LogoutAll
<1>4. CASE UNCHANGED tokenVars
  <2>1. RowsKept
    BY <1>0, <1>4, SameRows DEF tokenVars
  <2> QED
    BY <1>4, <2>1, RowStep DEF tokenVars
<1> QED
  BY <1>1, <1>2, <1>3, <1>4 DEF TokenNext

LEMMA TokensInductive == TokenSpec => []TokenIInv
BY TokenStart, TokenKeeps, PTL DEF TokenSpec

-----------------------------------------------------------------------------
\* Every row, request and version stays within its type, and no version runs past
\* its bound.
THEOREM TokenTypeCorrect == TokenSpec => []TokenTypeOK
<1>1. TokenIInv => TokenTypeOK
  BY DEF TokenIInv
<1> QED
  BY <1>1, TokensInductive, PTL

\* No token of the current version was given to somebody who did not know the
\* current password, however many logins, refreshes and changes of password
\* overlap (issueTokens signs the version its caller read).
THEOREM PasswordKnown == TokenSpec => []UsableKnowsPassword
<1>1. TokenIInv => UsableKnowsPassword
  BY DEF TokenIInv, KnownAll, Known, UsableKnowsPassword
<1> QED
  BY <1>1, TokensInductive, PTL

\* After the answer to a reuse, no token of the family is of the current version,
\* whatever refreshes were between their statements.
THEOREM BurntForGood == TokenSpec => []BurntFamilyUnusable
<1>1. TokenIInv => BurntFamilyUnusable
  BY DEF TokenIInv
<1> QED
  BY <1>1, TokensInductive, PTL

\* Deletion ends every token of the account for good, unless a change of password
\* that had begun before it wrote after it.
THEOREM DeletedForGood == TokenSpec => []DeletedStaysOut
<1>1. TokenIInv => DeletedStaysOut
  BY DEF TokenIInv, DeletedSigns, Gone, DeletedStaysOut
<1> QED
  BY <1>1, TokensInductive, PTL
-----------------------------------------------------------------------------
(* Rotation. *)

\* A token that is presented exists, and its family is the one to be renewed.
Presented ==
  \A c \in TokenCalls :
    /\ calls[c].at \in {"stored", "rotate"} => rows[calls[c].token].state # "unused"
    /\ calls[c].at = "rotate" =>
         calls[c].goal = "refresh" /\ calls[c].family = rows[calls[c].token].family

Renews(call, f) == call.at = "issue" /\ call.goal = "refresh" /\ call.family = f

\* Who is about to store the next token of a family is alone with it.
NextAlone ==
  \A c \in TokenCalls, f \in TokenIds \cup {0} :
    Renews(calls[c], f) /\ f \notin raced =>
      /\ \A t \in TokenIds : rows[t].family = f => rows[t].state # "live"
      /\ \A d \in TokenCalls : Renews(calls[d], f) => d = c

RotationInv == Presented /\ NextAlone /\ OneLivePerFamily

\* Rows that lose life only, and a request that neither presents nor renews more
\* than before.
LEMMA RotationKept ==
  ASSUME TokenIInv, RotationInv, RowsKept, raced \subseteq raced',
         \A t \in TokenIds : rows'[t].state = "live" => rows[t].state = "live",
         \A c \in TokenCalls : calls'[c] = calls[c] \/
           /\ calls'[c].at \notin {"stored", "rotate"}
           /\ ~(calls'[c].at = "issue" /\ calls'[c].goal = "refresh")
  PROVE  RotationInv'
<1>1. Presented'
  <2> SUFFICES ASSUME NEW c \in TokenCalls, calls'[c].at \in {"stored", "rotate"}
               PROVE  /\ rows'[calls'[c].token].state # "unused"
                      /\ calls'[c].at = "rotate" =>
                           /\ calls'[c].goal = "refresh"
                           /\ calls'[c].family = rows'[calls'[c].token].family
    BY DEF Presented
  <2>1. calls'[c] = calls[c] /\ calls[c].token \in TokenIds
    BY DEF TokenIInv, TokenGiven
  <2> QED BY <2>1 DEF RotationInv, Presented, RowsKept
<1>2. NextAlone'
  <2>1. \A c \in TokenCalls, f \in TokenIds \cup {0} : Renews(calls'[c], f) => Renews(calls[c], f)
    BY DEF Renews
  <2> QED BY <2>1 DEF RotationInv, NextAlone, RowsKept
<1>3. OneLivePerFamily'
  BY DEF RotationInv, OneLivePerFamily, RowsKept
<1> QED BY <1>1, <1>2, <1>3 DEF RotationInv

LEMMA RotationStep ==
  ASSUME TokenIInv, RotationInv, [TokenNext]_tokenVars
  PROVE  RotationInv'
<1>0. /\ TokenTypeOK /\ rows \in [TokenIds -> Row]
      /\ DOMAIN calls = TokenCalls /\ calls = [c \in TokenCalls |-> calls[c]]
      /\ \A t \in TokenIds : rows[t].family \in TokenIds \cup {0} /\ rows[t].state \in RowStates
      /\ \A c \in TokenCalls : calls[c].family \in TokenIds \cup {0}
  BY DEF TokenIInv, TokenTypeOK, Row
<1>1. IdleCall.at = "idle"
  BY DEF IdleCall
<1>2. ASSUME NEW S, rows' = RevokedAll(S) \/ rows' = rows \/ \E t \in TokenIds : rows' = Revoked(t)
      PROVE  RowsKept /\ \A t \in TokenIds : rows'[t].state = "live" => rows[t].state = "live"
  <2>1. RowsKept
    BY <1>0, <1>2, Revoking DEF RowsKept
  <2>2. CASE rows' = RevokedAll(S)
    BY <1>0, <2>1, <2>2 DEF RevokedAll, Row
  <2>3. CASE \E t \in TokenIds : rows' = Revoked(t)
    BY <1>0, <2>1, <2>3 DEF Revoked, Row
  <2> QED BY <1>2, <2>1, <2>2, <2>3
<1>3. ASSUME NEW c \in TokenCalls, NEW call, calls' = [calls EXCEPT ![c] = call],
             call.at \notin {"stored", "rotate"}, ~(call.at = "issue" /\ call.goal = "refresh"),
             RowsKept, \A t \in TokenIds : rows'[t].state = "live" => rows[t].state = "live",
             raced \subseteq raced'
      PROVE  RotationInv'
  <2>1. \A d \in TokenCalls : calls'[d] = calls[d] \/ calls'[d] = call
    BY <1>0, <1>3
  <2> QED BY <1>3, <2>1, RotationKept
<1>4. ASSUME NEW c \in TokenCalls, NEW t \in TokenIds, Present(c, t) PROVE RotationInv'
  <2> DEFINE call == [IdleCall EXCEPT !.at = "stored", !.goal = "refresh", !.token = t,
                                      !.seen = rows[t].state]
  <2>1. /\ call.at = "stored" /\ call.token = t /\ rows[t].state # "unused"
        /\ calls' = [calls EXCEPT ![c] = call] /\ UNCHANGED <<rows, raced>>
    BY <1>4 DEF Present, Verified, Begin, IdleCall
  <2> HIDE DEF call
  <2>2. calls'[c] = call /\ \A d \in TokenCalls : d # c => calls'[d] = calls[d]
    BY <1>0, <2>1
  <2>3. Presented'
    BY <2>1, <2>2 DEF RotationInv, Presented
  <2>4. \A d \in TokenCalls, f \in TokenIds \cup {0} : Renews(calls'[d], f) => Renews(calls[d], f)
    BY <2>1, <2>2 DEF Renews
  <2>5. NextAlone' /\ OneLivePerFamily'
    BY <2>1, <2>4 DEF RotationInv, NextAlone, OneLivePerFamily
  <2> QED BY <2>3, <2>5 DEF RotationInv
<1>5. ASSUME NEW c \in TokenCalls, CheckUser(c) PROVE RotationInv'
  <2> DEFINE t == calls[c].token
             burn == [IdleCall EXCEPT !.at = "burn", !.family = rows[t].family]
             turn == [IdleCall EXCEPT !.at = "rotate", !.goal = "refresh", !.token = t,
                        !.family = rows[t].family, !.version = account.version,
                        !.password = rows[t].password]
  <2>1. /\ calls[c].at = "stored" /\ UNCHANGED <<rows, raced>>
        /\ calls' = [calls EXCEPT ![c] = burn] \/ calls' = [calls EXCEPT ![c] = turn]
    BY <1>5 DEF CheckUser, Go
  <2>2. /\ burn.at = "burn" /\ turn.at = "rotate" /\ turn.goal = "refresh" /\ turn.token = t
        /\ turn.family = rows[t].family /\ rows[t].state # "unused"
    BY <2>1 DEF IdleCall, RotationInv, Presented
  <2> HIDE DEF burn, turn, t
  <2>3. (calls'[c] = burn \/ calls'[c] = turn) /\ \A d \in TokenCalls : d # c => calls'[d] = calls[d]
    BY <1>0, <2>1
  <2>4. Presented'
    BY <2>1, <2>2, <2>3 DEF RotationInv, Presented
  <2>5. \A d \in TokenCalls, f \in TokenIds \cup {0} : Renews(calls'[d], f) => Renews(calls[d], f)
    BY <2>2, <2>3 DEF Renews
  <2>6. NextAlone' /\ OneLivePerFamily'
    BY <2>1, <2>5 DEF RotationInv, NextAlone, OneLivePerFamily
  <2> QED BY <2>4, <2>6 DEF RotationInv
<1>6. ASSUME NEW c \in TokenCalls, Rotate(c) PROVE RotationInv'
  <2> DEFINE t == calls[c].token
             f == calls[c].family
             call == [calls[c] EXCEPT !.at = "issue", !.token = 0]
  <2>1. /\ calls[c].at = "rotate" /\ calls[c].goal = "refresh" /\ t \in TokenIds
        /\ f = rows[t].family /\ f \in TokenIds \cup {0}
        /\ rows' = Revoked(t) /\ calls' = [calls EXCEPT ![c] = call]
        /\ raced' = IF rows[t].state = "live" THEN raced ELSE raced \cup {f}
    BY <1>0, <1>6 DEF Rotate, Go, RotationInv, Presented, TokenIInv, TokenGiven
  <2>2. call.at = "issue" /\ call.goal = "refresh" /\ call.family = f
    BY <1>0, <2>1 DEF TokenTypeOK
  <2>3. /\ RowsKept /\ \A u \in TokenIds : rows'[u].state = "live" => rows[u].state = "live"
        /\ rows'[t].state # "live"
    BY <1>0, <1>2, <2>1 DEF Revoked, Row
  <2> HIDE DEF call, t, f
  <2>4. calls'[c] = call /\ \A d \in TokenCalls : d # c => calls'[d] = calls[d]
    BY <1>0, <2>1
  <2>5. Presented'
    BY <2>2, <2>3, <2>4 DEF RotationInv, Presented, TokenIInv, TokenGiven, RowsKept
  <2>6. OneLivePerFamily'
    BY <2>1, <2>3 DEF RotationInv, OneLivePerFamily, RowsKept
  <2>7. ASSUME f \notin raced'
        PROVE  /\ \A u \in TokenIds : rows[u].family = f /\ rows[u].state = "live" => u = t
               /\ \A d \in TokenCalls : ~Renews(calls[d], f)
    <3>1. rows[t].state = "live" /\ f \notin raced
      BY <2>1, <2>7
    <3> QED BY <2>1, <3>1 DEF RotationInv, OneLivePerFamily, NextAlone
  <2>8. NextAlone'
    <3> SUFFICES ASSUME NEW e \in TokenCalls, NEW g \in TokenIds \cup {0},
                        Renews(calls'[e], g), g \notin raced'
                 PROVE  /\ \A u \in TokenIds : rows'[u].family = g => rows'[u].state # "live"
                        /\ \A d \in TokenCalls : Renews(calls'[d], g) => d = e
      BY DEF NextAlone
    <3>1. CASE g = f
      <4>1. \A d \in TokenCalls : d # c => ~Renews(calls'[d], g)
        BY <2>4, <2>7, <3>1
      <4> QED BY <2>3, <2>7, <3>1, <4>1 DEF RowsKept
    <3>2. CASE g # f
      <4>1. \A d \in TokenCalls : Renews(calls'[d], g) => d # c /\ Renews(calls[d], g)
        BY <2>2, <2>4, <3>2 DEF Renews
      <4>2. g \notin raced
        BY <2>1
      <4> QED BY <2>3, <4>1, <4>2 DEF RotationInv, NextAlone, RowsKept
    <3> QED BY <3>1, <3>2
  <2> QED BY <2>5, <2>6, <2>8 DEF RotationInv
<1>7. ASSUME NEW c \in TokenCalls, NEW t \in TokenIds, Issue(c, t) PROVE RotationInv'
  <2> DEFINE f == IF calls[c].goal = "refresh" THEN calls[c].family ELSE t
             row == [state |-> "live", family |-> f, version |-> calls[c].version,
                     password |-> calls[c].password]
  <2>1. /\ calls[c].at = "issue" /\ rows[t].state = "unused" /\ raced' = raced
        /\ rows' = [rows EXCEPT ![t] = row] /\ calls' = [calls EXCEPT ![c] = IdleCall]
    BY <1>7 DEF Issue, End
  <2>2. row.state = "live" /\ row.family = f
    OBVIOUS
  <2>3. /\ \A u \in TokenIds : rows[u].family # t
        /\ \A d \in TokenCalls : calls[d].family # t
    BY <2>1 DEF TokenIInv, FamilyFresh
  <2>4. \/ calls[c].goal = "refresh" /\ f = calls[c].family /\ Renews(calls[c], f) /\ f \in TokenIds \cup {0}
        \/ calls[c].goal # "refresh" /\ f = t
    BY <1>0, <2>1 DEF Renews
  <2> HIDE DEF f, row
  <2>5. /\ rows'[t] = row /\ \A u \in TokenIds : u # t => rows'[u] = rows[u]
        /\ calls'[c] = IdleCall /\ \A d \in TokenCalls : d # c => calls'[d] = calls[d]
    BY <1>0, <2>1
  <2>6. f \notin raced => \A u \in TokenIds : rows[u].family = f => rows[u].state # "live"
    BY <2>3, <2>4 DEF RotationInv, NextAlone
  <2>7. f \notin raced => \A d \in TokenCalls : d # c => ~Renews(calls[d], f)
    BY <2>3, <2>4 DEF RotationInv, NextAlone, Renews
  <2>8. Presented'
    BY <1>1, <2>1, <2>2, <2>5 DEF RotationInv, Presented, TokenIInv, TokenGiven
  <2>9. OneLivePerFamily'
    BY <2>1, <2>2, <2>5, <2>6 DEF RotationInv, OneLivePerFamily
  <2>10. NextAlone'
    <3> SUFFICES ASSUME NEW e \in TokenCalls, NEW g \in TokenIds \cup {0},
                        Renews(calls'[e], g), g \notin raced
                 PROVE  /\ \A u \in TokenIds : rows'[u].family = g => rows'[u].state # "live"
                        /\ \A d \in TokenCalls : Renews(calls'[d], g) => d = e
      BY <2>1 DEF NextAlone
    <3>1. \A d \in TokenCalls : Renews(calls'[d], g) => d # c /\ Renews(calls[d], g)
      BY <1>1, <2>5 DEF Renews
    <3>2. g # f
      BY <2>7, <3>1
    <3> QED BY <2>2, <2>5, <3>1, <3>2 DEF RotationInv, NextAlone
  <2> QED BY <2>8, <2>9, <2>10 DEF RotationInv
<1>8. ASSUME NEW c \in TokenCalls, NEW call, calls' = [calls EXCEPT ![c] = call], UNCHANGED raced,
             call.at \in {"idle", "issue", "write", "purge", "mark", "bump"},
             call.at = "issue" => call.goal # "refresh",
             rows' = rows \/ \E S : rows' = RevokedAll(S)
      PROVE  RotationInv'
  <2>1. RowsKept /\ \A t \in TokenIds : rows'[t].state = "live" => rows[t].state = "live"
    BY <1>2, <1>8
  <2> QED BY <1>3, <1>8, <2>1
<1>9. ASSUME NEW c \in TokenCalls, \/ Login(c) \/ ChangePassword(c) \/ ResetPassword(c)
                                   \/ \E goal \in {"deactivate", "delete", "activate"} : Administer(c, goal)
      PROVE  RotationInv'
  <2> DEFINE open == [IdleCall EXCEPT !.at = "issue", !.goal = "login",
                        !.version = account.version, !.password = account.password]
             change == [IdleCall EXCEPT !.at = "write", !.goal = "change"]
             reset == [IdleCall EXCEPT !.at = "write", !.goal = "reset"]
             admin(goal) == [IdleCall EXCEPT !.at = IF goal = "activate" THEN "mark" ELSE "purge",
                                             !.goal = goal]
  <2>1. UNCHANGED <<rows, raced>>
    BY <1>9 DEF Login, ChangePassword, ResetPassword, Administer
  <2>2. /\ open.at = "issue" /\ open.goal = "login" /\ change.at = "write" /\ reset.at = "write"
        /\ \A goal : admin(goal).at \in {"mark", "purge"}
    BY DEF IdleCall
  <2>3. \/ calls' = [calls EXCEPT ![c] = open] \/ calls' = [calls EXCEPT ![c] = change]
        \/ calls' = [calls EXCEPT ![c] = reset]
        \/ \E goal \in {"deactivate", "delete", "activate"} : calls' = [calls EXCEPT ![c] = admin(goal)]
    BY <1>9 DEF Login, ChangePassword, ResetPassword, Administer, Begin
  <2> HIDE DEF open, change, reset, admin
  <2> QED BY <1>8, <2>1, <2>2, <2>3
<1>10. ASSUME NEW c \in TokenCalls, \/ BurnFamily(c) \/ BumpVersion(c) \/ WritePassword(c)
                                    \/ Purge(c) \/ Mark(c) \/ FailCall(c)
       PROVE  RotationInv'
  <2>0. calls[c] \in CallType
    BY <1>0, TypedInts
  <2>1. CASE BurnFamily(c)
    <3> DEFINE call == [calls[c] EXCEPT !.at = "bump"]
    <3>1. /\ calls' = [calls EXCEPT ![c] = call] /\ raced' = raced
          /\ rows' = RevokedAll({t \in TokenIds : rows[t].family = calls[c].family})
      BY <2>1 DEF BurnFamily, Go
    <3>2. call.at = "bump"
      BY <2>0 DEF CallType
    <3> HIDE DEF call
    <3> QED BY <1>8, <3>1, <3>2
  <2>2. CASE BumpVersion(c) \/ Mark(c) \/ FailCall(c)
    <3>1. calls' = [calls EXCEPT ![c] = IdleCall] /\ UNCHANGED <<rows, raced>>
      BY <2>2 DEF BumpVersion, Mark, FailCall, End
    <3> QED BY <1>1, <1>8, <3>1
  <2>3. CASE WritePassword(c)
    <3> DEFINE call == [calls[c] EXCEPT !.at = "purge", !.version = account'.version,
                                        !.password = account'.password]
    <3>1. calls' = [calls EXCEPT ![c] = call] /\ UNCHANGED <<rows, raced>>
      BY <2>3 DEF WritePassword, Go
    <3>2. call.at = "purge"
      BY <2>0 DEF CallType
    <3> HIDE DEF call
    <3> QED BY <1>8, <3>1, <3>2
  <2>4. CASE Purge(c)
    <3> DEFINE issue == [calls[c] EXCEPT !.at = "issue"]
               mark  == [calls[c] EXCEPT !.at = "mark"]
    <3>1. rows' = RevokedAll(TokenIds) /\ raced' = raced
      BY <2>4 DEF Purge
    <3>2. \/ calls[c].goal = "change" /\ calls' = [calls EXCEPT ![c] = issue]
          \/ calls' = [calls EXCEPT ![c] = IdleCall]
          \/ calls' = [calls EXCEPT ![c] = mark]
      BY <2>4 DEF Purge, Go, End
    <3>3. issue.at = "issue" /\ issue.goal = calls[c].goal /\ mark.at = "mark"
      BY <2>0 DEF CallType
    <3> HIDE DEF issue, mark
    <3> QED BY <1>1, <1>8, <3>1, <3>2, <3>3
  <2> QED BY <1>10, <2>1, <2>2, <2>3, <2>4
<1>11. ASSUME \/ \E t \in TokenIds : RevokeOne(t) \/ Lapse(t)
              \/ LogoutAll \/ UNCHANGED tokenVars
       PROVE  RotationInv'
  <2>1. UNCHANGED <<calls, raced>>
    BY <1>11 DEF RevokeOne, Lapse, LogoutAll, tokenVars
  <2>2. CASE \E t \in TokenIds : Lapse(t)
    <3>1. PICK t \in TokenIds : rows[t].state \in {"live", "revoked"} /\ rows' = [rows EXCEPT ![t].state = "gone"]
      BY <2>2 DEF Lapse
    <3>2. RowsKept
      BY <1>0, <3>1, Revoking DEF RowsKept
    <3>3. \A u \in TokenIds : rows'[u].state = "live" => rows[u].state = "live"
      BY <1>0, <3>1 DEF Row
    <3> QED BY <2>1, <3>2, <3>3, RotationKept
  <2>3. CASE \E S : rows' = RevokedAll(S) \/ rows' = rows \/ \E t \in TokenIds : rows' = Revoked(t)
    BY <1>2, <2>1, <2>3, RotationKept
  <2> QED BY <1>11, <2>2, <2>3 DEF RevokeOne, LogoutAll, tokenVars
<1> QED BY <1>4, <1>5, <1>6, <1>7, <1>8, <1>9, <1>10, <1>11 DEF TokenNext, CallStep

\* A family has one live token at most, however many refreshes of it overlap,
\* unless one rotates what another had revoked since (auth.service.ts:260).
THEOREM OneLive == TokenSpec => []OneLivePerFamily
<1>1. TokenInit => RotationInv
  <2> SUFFICES ASSUME TokenInit PROVE RotationInv
    OBVIOUS
  <2>1. Presented /\ NextAlone
    BY DEF TokenInit, Presented, NextAlone, Renews, IdleCall
  <2>2. OneLivePerFamily
    BY DEF TokenInit, OneLivePerFamily
  <2> QED BY <2>1, <2>2 DEF RotationInv
<1>2. TokenIInv /\ RotationInv /\ [TokenNext]_tokenVars => RotationInv'
  BY RotationStep
<1>3. RotationInv => OneLivePerFamily
  BY DEF RotationInv
<1> QED
  BY <1>1, <1>2, <1>3, TokensInductive, PTL DEF TokenSpec

=============================================================================

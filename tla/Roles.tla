------------------------------- MODULE Roles -------------------------------
(***************************************************************************)
(* The role of one user and the mentor application (user.service.ts,       *)
(* mentor.service.ts), and the routes the role opens (middleware/auth.ts). *)
(* Routes trust the role signed into an access token, which outlives a     *)
(* change of the role by the token's lifetime; refreshing reads the row.   *)
(***************************************************************************)
EXTENDS Naturals, TLC

CONSTANTS
  RoleCalls, \* requests in flight at once
  MaxSent    \* BOUND: applications ever sent

ASSUME RoleConstants == MaxSent \in Nat

VARIABLES
  person,      \* User.role and User.mentorStatus
  access,      \* roles signed into access tokens that have not expired
  refreshable, \* roles signed into refresh tokens that can be presented
  asked,       \* asked[c]: what the request c is about to write, and the
               \* mentorStatus it read
  tally,       \* ghost: applications sent, decided and approved
  outdated     \* ghost: a status was written that had changed since it was read

roleVars == <<person, access, refreshable, asked, tally, outdated>>

Role         == {"ADMIN", "MENTOR", "LEARNER"}
MentorStatus == {"NONE", "PENDING", "APPROVED", "REJECTED"}
Unasked      == [op |-> "none", role |-> "LEARNER", seen |-> "NONE"]

RoleInit ==
  /\ person = [role |-> "LEARNER", status |-> "NONE"]
  /\ access = {}
  /\ refreshable = {}
  /\ asked = [c \in RoleCalls |-> Unasked]
  /\ tally = [sent |-> 0, decided |-> 0, approved |-> 0]
  /\ outdated = FALSE

-----------------------------------------------------------------------------
\* Slips a change to this code could make; none is part of the specification.
PayloadRole(r)    == r                                            \* row not read
NotPending(p)     == p.role # "ADMIN" /\ p.status # "PENDING"     \* check forgotten

Ask(c, request)   == asked[c] = Unasked /\ asked' = [asked EXCEPT ![c] = request]
Answered(c)       == asked' = [asked EXCEPT ![c] = Unasked]

\* register and login sign the role of the row they read ...
SignIn(c) ==
  /\ Ask(c, [Unasked EXCEPT !.op = "issue", !.role = person.role])
  /\ UNCHANGED <<person, access, refreshable, tally, outdated>>

\* ... and so does refresh, whatever role the presented token claims.
RoleRead(r) == person.role

Refresh(c, r) ==
  /\ r \in refreshable
  /\ Ask(c, [Unasked EXCEPT !.op = "issue", !.role = RoleRead(r)])
  /\ UNCHANGED <<person, access, refreshable, tally, outdated>>

IssueTokens(c) ==
  /\ asked[c].op = "issue"
  /\ access' = access \cup {asked[c].role}
  /\ refreshable' = refreshable \cup {asked[c].role}
  /\ Answered(c)
  /\ UNCHANGED <<person, tally, outdated>>

AccessExpires(r) ==
  /\ r \in access
  /\ access' = access \ {r}
  /\ UNCHANGED <<person, refreshable, asked, tally, outdated>>

RefreshExpires(r) ==
  /\ r \in refreshable
  /\ refreshable' = refreshable \ {r}
  /\ UNCHANGED <<person, access, asked, tally, outdated>>

\* updateUserRole, by an administrator.
UpdateUserRole(r) ==
  /\ person' = [person EXCEPT !.role = r]
  /\ UNCHANGED <<access, refreshable, asked, tally, outdated>>

-----------------------------------------------------------------------------
MayApply(p) == p.role # "ADMIN" /\ p.status \notin {"PENDING", "APPROVED"}

WriteStatus(c, p) ==
  /\ person' = p
  /\ outdated' = (outdated \/ asked[c].seen # person.status)
  /\ Answered(c)
  /\ UNCHANGED <<access, refreshable>>

ApplyAsMentor(c) ==
  /\ MayApply(person)
  /\ Ask(c, [Unasked EXCEPT !.op = "apply", !.seen = person.status])
  /\ UNCHANGED <<person, access, refreshable, tally, outdated>>

WriteApplication(c) ==
  /\ asked[c].op = "apply"
  /\ tally.sent < MaxSent
  /\ tally' = [tally EXCEPT !.sent = @ + 1]
  /\ WriteStatus(c, [person EXCEPT !.status = "PENDING"])

ReviewMentorApplication(c) ==
  /\ person.status = "PENDING"
  /\ Ask(c, [Unasked EXCEPT !.op = "review", !.seen = person.status])
  /\ UNCHANGED <<person, access, refreshable, tally, outdated>>

WriteApproval(c) ==
  /\ asked[c].op = "review"
  /\ tally.decided < MaxSent
  /\ tally' = [tally EXCEPT !.decided = @ + 1, !.approved = @ + 1]
  /\ WriteStatus(c, [role |-> "MENTOR", status |-> "APPROVED"])

WriteRejection(c) ==
  /\ asked[c].op = "review"
  /\ tally.decided < MaxSent
  /\ tally' = [tally EXCEPT !.decided = @ + 1]
  /\ WriteStatus(c, [person EXCEPT !.status = "REJECTED"])

RequestDies(c) ==
  /\ asked[c] # Unasked
  /\ Answered(c)
  /\ UNCHANGED <<person, access, refreshable, tally, outdated>>

RoleNext ==
  \/ \E c \in RoleCalls :
       \/ SignIn(c) \/ IssueTokens(c) \/ RequestDies(c)
       \/ ApplyAsMentor(c) \/ WriteApplication(c)
       \/ ReviewMentorApplication(c) \/ WriteApproval(c) \/ WriteRejection(c)
       \/ \E r \in Role : Refresh(c, r)
  \/ \E r \in Role : AccessExpires(r) \/ RefreshExpires(r) \/ UpdateUserRole(r)

\* A request that would issue tokens ends, one way or the other, and tokens expire.
RoleFairness ==
  /\ \A c \in RoleCalls :
       WF_roleVars(asked[c].op = "issue" /\ (IssueTokens(c) \/ RequestDies(c)))
  /\ \A r \in Role : WF_roleVars(AccessExpires(r))

-----------------------------------------------------------------------------
(* Who may call which route: authorize and requireApprovedMentor. *)

Mentors    == {"MENTOR", "ADMIN"}
SkillRoutes        == [createSkill |-> Mentors, updateSkill |-> Mentors, deleteSkill |-> Mentors]
SessionRoutes      == [createSession |-> Mentors, mentorStats |-> Mentors,
                       bookSession |-> {"LEARNER"}, addFeedback |-> {"LEARNER"}]
BookingRoutes      == [createRequest |-> {"LEARNER"}, acceptRequest |-> {"MENTOR"},
                       rejectRequest |-> {"MENTOR"}, cancelRequest |-> {"LEARNER"}]
AvailabilityRoutes == [createAvailability |-> {"MENTOR"}, updateAvailability |-> {"MENTOR"},
                       deleteAvailability |-> {"MENTOR"}, myAvailability |-> {"MENTOR"}]
ReportRoutes       == [getReports |-> {"ADMIN"}, getReportById |-> {"ADMIN"}, resolveReport |-> {"ADMIN"}]
UserRoutes         == [getAllUsers |-> {"ADMIN"}, getUserById |-> {"ADMIN"}, updateUserRole |-> {"ADMIN"},
                       deactivateUser |-> {"ADMIN"}, activateUser |-> {"ADMIN"}, deleteUser |-> {"ADMIN"}]
AdminRoutes        == [dashboard |-> {"ADMIN"}, activity |-> {"ADMIN"}, adjustCredits |-> {"ADMIN"},
                       auditLogs |-> {"ADMIN"}, mentorApplications |-> {"ADMIN"},
                       reviewMentorApplication |-> {"ADMIN"}]

Guards == SkillRoutes @@ SessionRoutes @@ BookingRoutes @@ AvailabilityRoutes
            @@ ReportRoutes @@ UserRoutes @@ AdminRoutes
Gated  == {"createSkill", "createSession"}

\* The signed role decides; for a gated route the row's mentorStatus as well.
ApprovedMentor(r) == r = "ADMIN" \/ person.status = "APPROVED"
Authorized(route, r) == r \in Guards[route] /\ (route \in Gated => ApprovedMentor(r))
Served(route) == \E r \in access : Authorized(route, r)

-----------------------------------------------------------------------------
RoleTypeOK ==
  /\ person \in [role : Role, status : MentorStatus]
  /\ access \subseteq Role /\ refreshable \subseteq Role
  /\ asked \in [RoleCalls -> [op : {"none", "issue", "apply", "review"},
                              role : Role, seen : MentorStatus]]
  /\ tally \in [sent : 0 .. MaxSent, decided : 0 .. MaxSent, approved : 0 .. MaxSent]
  /\ outdated \in BOOLEAN

\* Every application is decided once and an approval stays, unless two calls
\* wrote the status from the same reading (mentor.service.ts:220, 172).
DecidedOnce ==
  ~outdated => /\ tally.sent = tally.decided + IF person.status = "PENDING" THEN 1 ELSE 0
               /\ tally.approved = IF person.status = "APPROVED" THEN 1 ELSE 0

\* A change of role that lasts takes hold: in the end no route answers this user
\* that is not open to the role in the database, although access tokens are
\* never checked against it and are refreshed for ever (middleware/auth.ts:79).
RoleTakesHold ==
  \A r \in Role :
    <>[](person.role = r) => <>[](\A route \in DOMAIN Guards : Served(route) => r \in Guards[route])
=============================================================================

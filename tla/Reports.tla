------------------------------ MODULE Reports ------------------------------
(***************************************************************************)
(* Reports and the audit trail of the administrators who handle them       *)
(* (report.service.ts, middleware/auditLog.ts).  A resolution reads the    *)
(* report, writes it back without a transaction, answers, and only then    *)
(* is an audit row written, by nobody who waits for it.                    *)
(***************************************************************************)
EXTENDS Naturals

CONSTANTS
  ReportIds, \* BOUND: reports ever filed
  Moderators,\* administrators, each with one request at once
  Notes,     \* notes an administrator may add
  MaxWrites  \* BOUND: resolutions of each report by each administrator

ASSUME ReportConstants == MaxWrites \in Nat

VARIABLES
  report,    \* report[r]: the row, "absent" before it is filed
  handling,  \* handling[m]: what the request of m has done so far
  written,   \* written[m][r]: ghost, resolutions of r that m has written
  auditLog,  \* auditLog[m][r]: rows report.resolve by m on r
  lastNote,  \* lastNote[r]: ghost, the note given last
  overlapped \* ghost: reports written by one request between another's read and write

reportVars == <<report, handling, written, auditLog, lastNote, overlapped>>

ReportStatus == {"OPEN", "UNDER_REVIEW", "RESOLVED", "DISMISSED"}
Resolutions  == ReportStatus \ {"OPEN"}
NoNote       == "none"
Idle         == [at |-> "idle"]
Counts       == [Moderators -> [ReportIds -> 0 .. MaxWrites]]

ReportInit ==
  /\ report = [r \in ReportIds |-> [status |-> "absent", note |-> NoNote, resolved |-> FALSE]]
  /\ handling = [m \in Moderators |-> Idle]
  /\ written = [m \in Moderators |-> [r \in ReportIds |-> 0]]
  /\ auditLog = written
  /\ lastNote = [r \in ReportIds |-> NoNote]
  /\ overlapped = {}

Phase(m, p) == handling' = [handling EXCEPT ![m] = p]

CreateReport(r) ==
  /\ report[r].status = "absent"
  /\ report' = [report EXCEPT ![r].status = "OPEN"]
  /\ UNCHANGED <<handling, written, auditLog, lastNote, overlapped>>

\* resolveReport reads the row; a status of any kind may follow any other.
ReadReport(m, r, status, note) ==
  /\ handling[m] = Idle
  /\ report[r].status # "absent"
  /\ written[m][r] < MaxWrites
  /\ Phase(m, [at |-> "read", id |-> r, status |-> status, note |-> note, old |-> report[r].note])
  /\ UNCHANGED <<report, written, auditLog, lastNote, overlapped>>

\* A slip a change to this code could make.
GivenNote(h) == h.note    \* a missing note clears the column

\* The note given or, without one, the note that was read.
NewNote(h) == IF h.note # NoNote THEN h.note ELSE h.old

WriteReport(m) ==
  LET h == handling[m]
      others == {n \in Moderators \ {m} : handling[n].at = "read" /\ handling[n].id = h.id}
  IN
  /\ h.at = "read"
  /\ report' = [report EXCEPT ![h.id] =
       [status |-> h.status, note |-> NewNote(h), resolved |-> h.status \in {"RESOLVED", "DISMISSED"}]]
  /\ written' = [written EXCEPT ![m][h.id] = @ + 1]
  /\ lastNote' = [lastNote EXCEPT ![h.id] = IF h.note # NoNote THEN h.note ELSE @]
  /\ overlapped' = IF others # {} THEN overlapped \cup {h.id} ELSE overlapped
  /\ Phase(m, [at |-> "ok", id |-> h.id])
  /\ UNCHANGED auditLog

\* The statement throws and the answer is an error.
FailReport(m) ==
  /\ handling[m].at = "read"
  /\ Phase(m, [at |-> "failed", id |-> handling[m].id])
  /\ UNCHANGED <<report, written, auditLog, lastNote, overlapped>>

Succeeded(h) == h.at = "ok"

\* The answer is out: the middleware writes its row if the status is 2xx.
Audit(m) ==
  /\ Succeeded(handling[m])
  /\ auditLog' = [auditLog EXCEPT ![m][handling[m].id] = @ + 1]
  /\ Phase(m, Idle)
  /\ UNCHANGED <<report, written, lastNote, overlapped>>

\* The answer was an error, its row could not be written, or the process died.
NoAudit(m) ==
  /\ handling[m] # Idle
  /\ Phase(m, Idle)
  /\ UNCHANGED <<report, written, auditLog, lastNote, overlapped>>

ReportNext ==
  \/ \E r \in ReportIds : CreateReport(r)
  \/ \E m \in Moderators :
       \/ WriteReport(m) \/ FailReport(m) \/ Audit(m) \/ NoAudit(m)
       \/ \E r \in ReportIds, status \in Resolutions, note \in Notes \cup {NoNote} :
            ReadReport(m, r, status, note)

ReportTypeOK ==
  /\ report \in [ReportIds -> [status : ReportStatus \cup {"absent"},
                               note : Notes \cup {NoNote}, resolved : BOOLEAN]]
  /\ written \in Counts /\ auditLog \in Counts
  /\ overlapped \subseteq ReportIds

\* The trail never shows a resolution that did not happen, though one that did
\* may be missing (auditLog.ts:28).
AuditNeverAhead == \A m \in Moderators, r \in ReportIds : auditLog[m][r] <= written[m][r]

\* A resolution without a note keeps the last note given, unless two resolutions
\* of the report overlapped (report.service.ts:65).
NoteKept == \A r \in ReportIds \ overlapped : report[r].note = lastNote[r]
=============================================================================

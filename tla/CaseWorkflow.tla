---------------------------- MODULE CaseWorkflow ----------------------------
(***************************************************************************)
(* The case queue of one tenant: app/services/case_service.py,             *)
(* report_service.py and their routes, run by concurrent requests.         *)
(*                                                                         *)
(* A request loads the case row as committed at that moment, with no lock, *)
(* and decides on what it loaded.  Its flush waits for the tenant's audit  *)
(* chain head (module AuditLog), which is then held until COMMIT, so       *)
(* flushed transactions run one at a time: writer.  An UPDATE names the    *)
(* columns whose value differs from the loaded row, and no others.         *)
(* resolution_notes is handled like assigned_to and left out.              *)
(***************************************************************************)
EXTENDS Naturals, Sequences, FiniteSets

CONSTANTS Cases, NoCase,     \* primary keys of cases; the absent row
          Customers, Sources, \* customers; alerts and screenings
          SourceCustomer,    \* the customer an alert or screening belongs to
          InitialCases,      \* cases opened automatically beforehand
          InitialSource,     \* their triggers
          Assignees, None,
          Requests, NoRequest,
          MaxReports,        \* bound: reports attempted
          MaxNotes           \* bound: notes per case

ASSUME NoRequestAssumption == NoRequest \notin Requests
ASSUME SourceAssumption == /\ SourceCustomer \in [Sources -> Customers]
                           /\ InitialCases \subseteq Cases
                           /\ InitialSource \in [InitialCases -> Sources]

VARIABLES
  cases,        \* the committed row of each case
  confirmed,    \* per case: the resolved and confirmed rows it has had
  reports,      \* committed report rows, oldest first
  notes,        \* number of committed notes per case
  submissions,  \* payloads the regulator has accepted
  writer,       \* the request that holds the tenant's chain head
  phase,        \* per request: "idle", "submitting", "flushing", "written"
  job           \* per request: the operation it has decided on

vars == <<cases, confirmed, reports, notes, submissions, writer, phase, job>>
store == <<cases, confirmed, reports, notes>>

Statuses == {"open", "in_review", "resolved"}
Resolutions == {"confirmed", "false_positive", "escalated"}

CaseRows == [customer : Customers, source : Sources, status : Statuses,
             resolution : Resolutions \cup {None}, resolved_at : {None, "set"},
             assigned_to : Assignees \cup {None}]

ASSUME AbsentAssumption == /\ None \notin Statuses \cup Resolutions \cup {"set"} \cup Assignees
                           /\ NoCase \notin CaseRows

\* schemas/case.py CaseUpdate
Updates == [status : Statuses \cup {None}, resolution : Resolutions \cup {None},
            assigned_to : Assignees \cup {None}]

L == INSTANCE CaseLifecycle

NoJob == [op |-> "none"]

\* case_service.open_case
OpenedCase(customer, source) ==
  [customer |-> customer, source |-> source, status |-> "open", resolution |-> None,
   resolved_at |-> None, assigned_to |-> None]

Init ==
  /\ cases = [c \in Cases |-> IF c \in InitialCases
                              THEN OpenedCase(SourceCustomer[InitialSource[c]], InitialSource[c])
                              ELSE NoCase]
  /\ confirmed = [c \in Cases |-> {}]
  /\ reports = <<>>
  /\ notes = [c \in Cases |-> 0]
  /\ submissions = <<>>
  /\ writer = NoRequest
  /\ phase = [r \in Requests |-> "idle"]
  /\ job = [r \in Requests |-> NoJob]

Decide(r, j, p) ==
  /\ phase[r] = "idle"
  /\ job' = [job EXCEPT ![r] = j]
  /\ phase' = [phase EXCEPT ![r] = p]
  /\ UNCHANGED <<store, submissions, writer>>

-----------------------------------------------------------------------------
\* PATCH /cases/{id}

Given(value, old) == IF value # None THEN value ELSE old

\* Mutated form: the resolution check is left out.
UpdateUnchecked(row, p) == TRUE

\* update_case_status raises ValueError (400) otherwise.
UpdateAllowed(row, p) ==
  Given(p.status, row.status) = "resolved" => Given(p.resolution, row.resolution) # None

\* Mutated form: status is assigned without looking whether it was sent.
UpdatedAlways(row, p) ==
  [row EXCEPT !.status = p.status, !.resolution = Given(p.resolution, @)]

\* The attributes of the loaded case after the assignments of the service.
Updated(row, p) ==
  [row EXCEPT !.status = Given(p.status, @),
              !.resolved_at = IF p.status = "resolved" THEN "set" ELSE @,
              !.resolution = Given(p.resolution, @),
              !.assigned_to = Given(p.assigned_to, @)]

\* Mutated form: the UPDATE writes the whole loaded row back.
WholeRow(row, p) == [col \in DOMAIN row |-> Updated(row, p)[col]]

\* The SET clause of the UPDATE: columns that differ from the loaded row.  A
\* new resolved_at always differs, it is a later time.
SetClause(row, p) ==
  [col \in {col \in DOMAIN row : Updated(row, p)[col] # row[col]}
             \cup (IF p.status = "resolved" THEN {"resolved_at"} ELSE {})
     |-> Updated(row, p)[col]]

\* Without a changed column nothing is flushed and no lock is taken.
UpdateCase(r, c, p) ==
  /\ cases[c] # NoCase
  /\ UpdateAllowed(cases[c], p)
  /\ LET set == SetClause(cases[c], p)
     IN Decide(r, [op |-> "update", case |-> c, set |-> set],
               IF DOMAIN set = {} THEN "written" ELSE "flushing")

\* POST /cases: the customer and the source are looked up, each for itself.
CreateCase(r, c, customer, source) ==
  /\ cases[c] = NoCase
  /\ \A q \in Requests : job[q].op = "create" => job[q].case # c   \* a fresh uuid4
  /\ Decide(r, [op |-> "create", case |-> c, row |-> OpenedCase(customer, source)], "flushing")

\* POST /cases/{id}/notes
AddNote(r, c) ==
  /\ cases[c] # NoCase
  /\ notes[c] < MaxNotes
  /\ Decide(r, [op |-> "note", case |-> c], "flushing")

-----------------------------------------------------------------------------
\* POST /cases/{id}/reports

\* generate_report raises ValueError (400) otherwise.
MayReport(row) == ~(row.status # "resolved" \/ row.resolution # "confirmed")

\* The payload is built from the loaded case.
GenerateReport(r, c) ==
  /\ cases[c] # NoCase
  /\ MayReport(cases[c])
  /\ Len(submissions) < MaxReports /\ Len(reports) < MaxReports
  /\ Decide(r, [op |-> "report", case |-> c, payload |-> cases[c]], "submitting")

\* get_regulator_provider().submit(payload), before anything is flushed.
Submit(r) ==
  /\ phase[r] = "submitting"
  /\ \E status \in {"submitted", "error"} :
       /\ job' = [job EXCEPT ![r] = [op |-> "report", case |-> job[r].case,
                                     payload |-> job[r].payload, status |-> status]]
       /\ submissions' = IF status = "submitted"
                         THEN Append(submissions, [case |-> job[r].case, payload |-> job[r].payload])
                         ELSE submissions
  /\ phase' = [phase EXCEPT ![r] = "flushing"]
  /\ UNCHANGED <<store, writer>>

-----------------------------------------------------------------------------
\* db.flush: the chain head is locked, then the row is inserted or updated.
Flush(r) ==
  /\ phase[r] = "flushing"
  /\ writer = NoRequest
  /\ writer' = r
  /\ phase' = [phase EXCEPT ![r] = "written"]
  /\ UNCHANGED <<store, submissions, job>>

\* The request ends and its locks are released.
End(r) ==
  /\ phase' = [phase EXCEPT ![r] = "idle"]
  /\ job' = [job EXCEPT ![r] = NoJob]
  /\ writer' = IF writer = r THEN NoRequest ELSE writer
  /\ UNCHANGED submissions

PutCase(c, row) == /\ cases' = [cases EXCEPT ![c] = row]
                   /\ confirmed' = IF L!Reportable(row)
                                   THEN [confirmed EXCEPT ![c] = @ \cup {row}] ELSE confirmed

\* The row an UPDATE leaves behind.
UpdatedRow(j) == [col \in DOMAIN cases[j.case] |-> IF col \in DOMAIN j.set THEN j.set[col]
                                                   ELSE cases[j.case][col]]

\* Mutated form: the outcome of the submission is not looked at.
ReportRowBlind(j) == [case |-> j.case, payload |-> j.payload, status |-> "submitted"]

ReportRow(j) == [case |-> j.case, payload |-> j.payload, status |-> j.status]

\* COMMIT of what the request wrote.
Commit(r) ==
  /\ phase[r] = "written"
  /\ \/ /\ job[r].op = "update"
        /\ PutCase(job[r].case, UpdatedRow(job[r]))
        /\ UNCHANGED <<reports, notes>>
     \/ /\ job[r].op = "create"
        /\ PutCase(job[r].case, job[r].row)
        /\ UNCHANGED <<reports, notes>>
     \/ /\ job[r].op = "note"
        /\ notes' = [notes EXCEPT ![job[r].case] = @ + 1]
        /\ UNCHANGED <<cases, confirmed, reports>>
     \/ /\ job[r].op = "report"
        /\ reports' = Append(reports, ReportRow(job[r]))
        /\ UNCHANGED <<cases, confirmed, notes>>
  /\ End(r)

\* An exception, a lost connection or a crash ends the transaction.
Rollback(r) ==
  /\ phase[r] # "idle"
  /\ End(r)
  /\ UNCHANGED store

Next ==
  \E r \in Requests :
    \/ \E c \in Cases, p \in Updates : UpdateCase(r, c, p)
    \/ \E c \in Cases, customer \in Customers, source \in Sources :
         CreateCase(r, c, customer, source)
    \/ \E c \in Cases : AddNote(r, c)
    \/ \E c \in Cases : GenerateReport(r, c)
    \/ Submit(r)
    \/ Flush(r)
    \/ Commit(r)
    \/ Rollback(r)

Spec == Init /\ [][Next]_vars

-----------------------------------------------------------------------------
ReportPayloads == [case : Cases, payload : CaseRows]

Jobs == {NoJob}
  \cup [op : {"update"}, case : Cases,
        set : UNION {[S -> Statuses \cup Resolutions \cup {"set"} \cup Assignees]
                       : S \in SUBSET {"status", "resolution", "resolved_at", "assigned_to"}}]
  \cup [op : {"create"}, case : Cases, row : CaseRows]
  \cup [op : {"note"}, case : Cases]
  \cup [op : {"report"}, case : Cases, payload : CaseRows]
  \cup [op : {"report"}, case : Cases, payload : CaseRows, status : {"submitted", "error"}]

\* Types of the variables.
TypeOK ==
  /\ cases \in [Cases -> CaseRows \cup {NoCase}]
  /\ confirmed \in [Cases -> SUBSET CaseRows]
  /\ reports \in Seq([case : Cases, payload : CaseRows, status : {"submitted", "error"}])
  /\ notes \in [Cases -> Nat]
  /\ submissions \in Seq(ReportPayloads)
  /\ writer \in Requests \cup {NoRequest}
  /\ phase \in [Requests -> {"idle", "submitting", "flushing", "written"}]
  /\ job \in [Requests -> Jobs]

\* A committed case is resolved only with a resolution and a resolution time,
\* although the check looks at a row that may be stale when the UPDATE runs and
\* two updates of different columns are merged by the database.
ResolvedHasResolution ==
  \A c \in Cases : cases[c] # NoCase => L!Consistent(cases[c])

\* Committed changes of cases and reports are those of CaseLifecycle: trigger
\* and customer stay, resolutions are not lost to a stale write, and a report
\* carries a version of its case that was committed as resolved and confirmed.
ImplementsLifecycle == L!LSpec

FiledWith(payload) == {i \in DOMAIN reports : /\ reports[i].status = "submitted"
                                             /\ [case |-> reports[i].case,
                                                 payload |-> reports[i].payload] = payload}

\* Every report row that says "submitted" has a submission of its own with the
\* same payload at the regulator, however attempts interleave and fail.
FiledReportsWereSubmitted ==
  \A i \in DOMAIN reports : reports[i].status = "submitted" =>
    LET payload == [case |-> reports[i].case, payload |-> reports[i].payload]
    IN Cardinality(FiledWith(payload))
         <= Cardinality({k \in DOMAIN submissions : submissions[k] = payload})

-----------------------------------------------------------------------------
\* What a comment of the repository says, and the code does not do.

\* models/report.py:13 "One row per report generation attempt": every accepted
\* submission has its row, or a request that is still going to commit it.
SubmissionsRecorded ==
  Len(submissions) <=
    Cardinality({i \in DOMAIN reports : reports[i].status = "submitted"})
    + Cardinality({r \in Requests : phase[r] \in {"flushing", "written"} /\ job[r].op = "report"})
=============================================================================

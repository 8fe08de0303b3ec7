------------------------- MODULE CaseWorkflowProofs -------------------------
(***************************************************************************)
(* Theorems about CaseWorkflow, for any cases, requests and bounds: its    *)
(* types, ResolvedHasResolution, and that it implements CaseLifecycle.     *)
(*                                                                         *)
(* An update was checked against the row its request loaded.  That the row *)
(* it leaves behind is consistent although other updates were committed    *)
(* meanwhile rests on two facts: no SET clause takes a resolution or a     *)
(* resolution time away, and one that sets the status to resolved brings   *)
(* the time along and the resolution unless the loaded row had one.        *)
(***************************************************************************)
EXTENDS CaseWorkflow, FiniteSetTheorems, TLAPS

Columns == {"customer", "source", "status", "resolution", "resolved_at", "assigned_to"}

\* A SET clause never names the customer or the source and clears no column.
ClearsNothing(set) ==
  /\ DOMAIN set \subseteq {"status", "resolution", "resolved_at", "assigned_to"}
  /\ "status" \in DOMAIN set => set["status"] \in Statuses
  /\ "resolution" \in DOMAIN set => set["resolution"] \in Resolutions
  /\ "resolved_at" \in DOMAIN set => set["resolved_at"] = "set"
  /\ "assigned_to" \in DOMAIN set => set["assigned_to"] \in Assignees

\* What a SET clause that resolves a case finds or brings along.
ResolvesFully(row, set) ==
  "status" \in DOMAIN set /\ set["status"] = "resolved" =>
    /\ "resolved_at" \in DOMAIN set
    /\ "resolution" \in DOMAIN set \/ row.resolution # None

UpdatesSound ==
  \A r \in Requests : job[r].op = "update" =>
    /\ job[r].case \in Cases /\ cases[job[r].case] # NoCase
    /\ ClearsNothing(job[r].set)
    /\ ResolvesFully(cases[job[r].case], job[r].set)

\* The id of a case that is being opened is nobody else's.
CreationsFresh ==
  \A r \in Requests : job[r].op = "create" =>
    /\ job[r].case \in Cases /\ cases[job[r].case] = NoCase
    /\ job[r].row \in CaseRows /\ L!Fresh(job[r].row)
    /\ \A q \in Requests \ {r} : job[q].op = "create" => job[q].case # job[r].case

\* A report in the making carries a version that was committed as confirmed.
PayloadsConfirmed ==
  \A r \in Requests : job[r].op = "report" =>
    job[r].case \in Cases /\ job[r].payload \in confirmed[job[r].case]

ConfirmedKnown ==
  \A c \in Cases : cases[c] # NoCase /\ L!Reportable(cases[c]) => cases[c] \in confirmed[c]

\* Reports are submitted, and no other job; past that they have an outcome.
OnlyReportsSubmit ==
  \A r \in Requests :
    /\ phase[r] = "submitting" => job[r].op = "report"
    /\ job[r].op = "report" /\ phase[r] # "submitting" => job[r].status \in {"submitted", "error"}

CaseInv ==
  /\ TypeOK
  /\ ResolvedHasResolution
  /\ UpdatesSound
  /\ CreationsFresh
  /\ PayloadsConfirmed
  /\ ConfirmedKnown
  /\ OnlyReportsSubmit

-----------------------------------------------------------------------------
\* A row by its columns.
LEMMA RowColumns ==
  ASSUME NEW row,
         DOMAIN row = Columns, row = [col \in Columns |-> row[col]],
         row["customer"] \in Customers, row["source"] \in Sources,
         row["status"] \in Statuses, row["resolution"] \in Resolutions \cup {None},
         row["resolved_at"] \in {None, "set"}, row["assigned_to"] \in Assignees \cup {None}
  PROVE  row \in CaseRows
BY DEF Columns, CaseRows

LEMMA RowTypes ==
  ASSUME NEW row \in CaseRows
  PROVE  /\ DOMAIN row = Columns
         /\ row.customer \in Customers /\ row.source \in Sources
         /\ row.status \in Statuses /\ row.resolution \in Resolutions \cup {None}
         /\ row.resolved_at \in {None, "set"} /\ row.assigned_to \in Assignees \cup {None}
BY DEF Columns, CaseRows

LEMMA OpenedFresh ==
  ASSUME NEW customer \in Customers, NEW source \in Sources
  PROVE  /\ OpenedCase(customer, source) \in CaseRows
         /\ L!Fresh(OpenedCase(customer, source)) /\ L!Consistent(OpenedCase(customer, source))
BY DEF OpenedCase, CaseRows, Statuses, L!Fresh, L!Consistent

\* The attributes after the assignments of the service.
LEMMA UpdatedTypes ==
  ASSUME NEW row \in CaseRows, NEW p \in Updates
  PROVE  /\ Updated(row, p) \in CaseRows
         /\ Updated(row, p).customer = row.customer /\ Updated(row, p).source = row.source
         /\ Updated(row, p).status = Given(p.status, row.status)
         /\ Updated(row, p).resolution = Given(p.resolution, row.resolution)
         /\ Updated(row, p).resolved_at = IF p.status = "resolved" THEN "set" ELSE row.resolved_at
         /\ Updated(row, p).assigned_to = Given(p.assigned_to, row.assigned_to)
BY DEF Updated, CaseRows, Updates, Given

\* The SET clause of an update that the service has allowed.
LEMMA SetClauseSound ==
  ASSUME NEW row \in CaseRows, NEW p \in Updates, UpdateAllowed(row, p)
  PROVE  ClearsNothing(SetClause(row, p)) /\ ResolvesFully(row, SetClause(row, p))
<1> DEFINE new == Updated(row, p)
           set == SetClause(row, p)
<1>1. /\ new["customer"] = row["customer"] /\ new["source"] = row["source"]
      /\ new["status"] = Given(p.status, row["status"])
      /\ new["resolution"] = Given(p.resolution, row["resolution"])
      /\ new["resolved_at"] = IF p.status = "resolved" THEN "set" ELSE row["resolved_at"]
      /\ new["assigned_to"] = Given(p.assigned_to, row["assigned_to"])
  BY UpdatedTypes
<1>2. /\ p.status \in Statuses \cup {None} /\ p.resolution \in Resolutions \cup {None}
      /\ p.assigned_to \in Assignees \cup {None}
  BY DEF Updates
<1>3. /\ DOMAIN set = {col \in Columns : new[col] # row[col]}
                        \cup (IF p.status = "resolved" THEN {"resolved_at"} ELSE {})
      /\ \A col \in DOMAIN set : set[col] = new[col]
  BY RowTypes DEF SetClause
<1> HIDE DEF new, set
<1>4. ClearsNothing(set)
  BY <1>1, <1>2, <1>3, AbsentAssumption DEF ClearsNothing, Columns, Given
<1>5. ResolvesFully(row, set)
  BY <1>1, <1>2, <1>3, AbsentAssumption
  DEF ResolvesFully, Columns, Given, UpdateAllowed, Statuses, Resolutions
<1> QED
  BY <1>4, <1>5 DEF set

\* The row that an UPDATE leaves behind, whatever was committed meanwhile.
LEMMA UpdatedRowSucceeds ==
  ASSUME NEW old \in CaseRows, L!Consistent(old), NEW set, ClearsNothing(set),
         ResolvesFully(old, set),
         NEW new, new = [col \in DOMAIN old |-> IF col \in DOMAIN set THEN set[col] ELSE old[col]]
  PROVE  new \in CaseRows /\ L!Succeeds(new, old) /\ L!Consistent(new)
<1>1. /\ DOMAIN new = Columns
      /\ \A col \in Columns : new[col] = IF col \in DOMAIN set THEN set[col] ELSE old[col]
  BY RowTypes
<1>2. /\ old["customer"] \in Customers /\ old["source"] \in Sources
      /\ old["status"] \in Statuses /\ old["resolution"] \in Resolutions \cup {None}
      /\ old["resolved_at"] \in {None, "set"} /\ old["assigned_to"] \in Assignees \cup {None}
  BY RowTypes
<1>3. /\ new["customer"] = old["customer"] /\ new["source"] = old["source"]
      /\ new["status"] \in Statuses /\ new["resolution"] \in Resolutions \cup {None}
      /\ new["resolved_at"] \in {None, "set"} /\ new["assigned_to"] \in Assignees \cup {None}
  BY <1>1, <1>2 DEF ClearsNothing, Columns
<1>4. new \in CaseRows
  <2>1. new = [col \in Columns |-> new[col]]
    BY <1>1, RowTypes
  <2> QED
    BY <1>1, <1>2, <1>3, <2>1, RowColumns
<1>5. /\ old["resolution"] # None => new["resolution"] # None
      /\ old["resolved_at"] # None => new["resolved_at"] # None
  BY <1>1, AbsentAssumption DEF ClearsNothing, Columns
<1>6. new["status"] = "resolved" => new["resolution"] # None /\ new["resolved_at"] # None
  <2> SUFFICES ASSUME new["status"] = "resolved"
               PROVE  new["resolution"] # None /\ new["resolved_at"] # None
    OBVIOUS
  <2>1. CASE "status" \in DOMAIN set
    BY <1>1, <2>1, AbsentAssumption DEF ClearsNothing, ResolvesFully, Columns
  <2>2. CASE "status" \notin DOMAIN set
    BY <1>1, <1>5, <2>2 DEF L!Consistent, Columns
  <2> QED
    BY <2>1, <2>2
<1> QED
  BY <1>3, <1>4, <1>5, <1>6 DEF L!Succeeds, L!Consistent

-----------------------------------------------------------------------------
LEMMA InitKeeps == Init => CaseInv
<1> SUFFICES ASSUME Init PROVE CaseInv
  OBVIOUS
<1>1. \A c \in Cases : cases[c] # NoCase =>
        cases[c] \in CaseRows /\ L!Fresh(cases[c]) /\ L!Consistent(cases[c])
  <2> SUFFICES ASSUME NEW c \in Cases, cases[c] # NoCase
               PROVE  cases[c] \in CaseRows /\ L!Fresh(cases[c]) /\ L!Consistent(cases[c])
    OBVIOUS
  <2>1. /\ c \in InitialCases
        /\ cases[c] = OpenedCase(SourceCustomer[InitialSource[c]], InitialSource[c])
    BY DEF Init
  <2>2. InitialSource[c] \in Sources /\ SourceCustomer[InitialSource[c]] \in Customers
    BY <2>1, SourceAssumption
  <2> QED
    BY <2>1, <2>2, OpenedFresh
<1>2. \A r \in Requests : job[r] = NoJob /\ phase[r] = "idle"
  BY DEF Init
<1>3. cases = [c \in Cases |-> cases[c]] /\ job = [r \in Requests |-> job[r]]
  BY DEF Init
<1>4. TypeOK
  BY <1>1, <1>2, <1>3 DEF Init, TypeOK, Jobs
<1>5. ResolvedHasResolution /\ ConfirmedKnown
  BY <1>1 DEF ResolvedHasResolution, ConfirmedKnown, L!Fresh, L!Reportable
<1>6. UpdatesSound /\ CreationsFresh /\ PayloadsConfirmed /\ OnlyReportsSubmit
  BY <1>2 DEF NoJob, UpdatesSound, CreationsFresh, PayloadsConfirmed, OnlyReportsSubmit
<1> QED
  BY <1>4, <1>5, <1>6 DEF CaseInv

\* What must hold of the job a request decides on.
JobSound(r, j) ==
  /\ j.op = "update" => /\ j.case \in Cases /\ cases[j.case] # NoCase
                        /\ ClearsNothing(j.set) /\ ResolvesFully(cases[j.case], j.set)
  /\ j.op = "create" => /\ j.case \in Cases /\ cases[j.case] = NoCase
                        /\ j.row \in CaseRows /\ L!Fresh(j.row)
                        /\ \A q \in Requests : job[q].op = "create" => job[q].case # j.case
  /\ j.op = "report" => j.case \in Cases /\ j.payload \in confirmed[j.case]

LEMMA DecideKeeps ==
  ASSUME CaseInv, NEW r \in Requests, NEW j \in Jobs, JobSound(r, j),
         NEW p \in {"submitting", "flushing", "written"}, Decide(r, j, p),
         p = "submitting" <=> j.op = "report"
  PROVE  CaseInv'
<1>1. /\ job' = [job EXCEPT ![r] = j] /\ phase' = [phase EXCEPT ![r] = p]
      /\ UNCHANGED <<cases, confirmed, reports, notes, submissions, writer>>
  BY DEF Decide, store
<1>2. job \in [Requests -> Jobs]
  BY DEF CaseInv, TypeOK
<1>3. \A q \in Requests : job'[q] = IF q = r THEN j ELSE job[q]
  BY <1>1, <1>2
<1>4. TypeOK'
  BY <1>1, <1>2 DEF CaseInv, TypeOK
<1>5. ResolvedHasResolution' /\ ConfirmedKnown'
  BY <1>1 DEF CaseInv, ResolvedHasResolution, ConfirmedKnown
<1>6. UpdatesSound' /\ PayloadsConfirmed'
  BY <1>1, <1>3 DEF CaseInv, UpdatesSound, PayloadsConfirmed, JobSound
<1>7. CreationsFresh'
  BY <1>1, <1>3 DEF CaseInv, CreationsFresh, JobSound
<1>8. OnlyReportsSubmit'
  BY <1>1, <1>3 DEF CaseInv, TypeOK, OnlyReportsSubmit
<1> QED
  BY <1>4, <1>5, <1>6, <1>7, <1>8 DEF CaseInv

LEMMA UpdateCaseKeeps ==
  ASSUME CaseInv, NEW r \in Requests, NEW c \in Cases, NEW p \in Updates, UpdateCase(r, c, p)
  PROVE  CaseInv'
<1> DEFINE set == SetClause(cases[c], p)
           j == [op |-> "update", case |-> c, set |-> set]
<1>1. cases[c] \in CaseRows /\ cases[c] # NoCase
  BY DEF UpdateCase, CaseInv, TypeOK
<1>2. ClearsNothing(set) /\ ResolvesFully(cases[c], set)
  BY <1>1, SetClauseSound DEF UpdateCase
<1>3. PICK ph \in {"written", "flushing"} : Decide(r, j, ph)
  BY DEF UpdateCase
<1> HIDE DEF set
<1>4. set \in UNION {[S -> Statuses \cup Resolutions \cup {"set"} \cup Assignees]
                       : S \in SUBSET {"status", "resolution", "resolved_at", "assigned_to"}}
  <2>1. \A col \in DOMAIN set : set[col] \in Statuses \cup Resolutions \cup {"set"} \cup Assignees
    BY <1>2 DEF ClearsNothing
  <2>2. set = [col \in DOMAIN set |-> set[col]]
    BY DEF set, SetClause
  <2>3. set \in [DOMAIN set -> Statuses \cup Resolutions \cup {"set"} \cup Assignees]
    BY <2>1, <2>2
  <2> QED
    BY <1>2, <2>3 DEF ClearsNothing
<1>5. j \in Jobs
  BY <1>4 DEF Jobs
<1>6. JobSound(r, j)
  BY <1>1, <1>2 DEF JobSound
<1> QED
  BY <1>3, <1>5, <1>6, DecideKeeps

LEMMA CreateCaseKeeps ==
  ASSUME CaseInv, NEW r \in Requests, NEW c \in Cases, NEW customer \in Customers,
         NEW source \in Sources, CreateCase(r, c, customer, source)
  PROVE  CaseInv'
<1> DEFINE j == [op |-> "create", case |-> c, row |-> OpenedCase(customer, source)]
<1>1. j.row \in CaseRows /\ L!Fresh(j.row)
  BY OpenedFresh
<1>2. Decide(r, j, "flushing") /\ cases[c] = NoCase
      /\ \A q \in Requests : job[q].op = "create" => job[q].case # c
  BY DEF CreateCase
<1>3. j \in Jobs
  BY <1>1 DEF Jobs
<1>4. JobSound(r, j)
  BY <1>1, <1>2 DEF JobSound
<1> QED
  BY <1>2, <1>3, <1>4, DecideKeeps

LEMMA AddNoteKeeps ==
  ASSUME CaseInv, NEW r \in Requests, NEW c \in Cases, AddNote(r, c)
  PROVE  CaseInv'
<1> DEFINE j == [op |-> "note", case |-> c]
<1>1. Decide(r, j, "flushing") /\ j \in Jobs /\ JobSound(r, j)
  BY DEF AddNote, Jobs, JobSound
<1> QED
  BY <1>1, DecideKeeps

LEMMA GenerateReportKeeps ==
  ASSUME CaseInv, NEW r \in Requests, NEW c \in Cases, GenerateReport(r, c)
  PROVE  CaseInv'
<1> DEFINE j == [op |-> "report", case |-> c, payload |-> cases[c]]
<1>1. Decide(r, j, "submitting") /\ cases[c] # NoCase /\ MayReport(cases[c])
  BY DEF GenerateReport
<1>2. cases[c] \in CaseRows
  BY <1>1 DEF CaseInv, TypeOK
<1>3. cases[c] \in confirmed[c]
  BY <1>1 DEF CaseInv, ConfirmedKnown, MayReport, L!Reportable
<1>4. j \in Jobs /\ JobSound(r, j)
  BY <1>2, <1>3 DEF Jobs, JobSound
<1> QED
  BY <1>1, <1>4, DecideKeeps

\* The outcome of the submission is added to the job.
LEMMA SubmitKeeps ==
  ASSUME CaseInv, NEW r \in Requests, Submit(r)
  PROVE  CaseInv'
<1>1. job[r].op = "report"
  BY DEF Submit, CaseInv, OnlyReportsSubmit
<1>2. PICK status \in {"submitted", "error"} :
        /\ job' = [job EXCEPT ![r] = [op |-> "report", case |-> job[r].case,
                                      payload |-> job[r].payload, status |-> status]]
        /\ submissions' = IF status = "submitted"
                          THEN Append(submissions, [case |-> job[r].case, payload |-> job[r].payload])
                          ELSE submissions
  BY DEF Submit
<1>3. /\ phase' = [phase EXCEPT ![r] = "flushing"]
      /\ UNCHANGED <<cases, confirmed, reports, notes, writer>>
  BY DEF Submit, store
<1> DEFINE j == [op |-> "report", case |-> job[r].case, payload |-> job[r].payload,
                 status |-> status]
<1>4. /\ job[r].case \in Cases /\ job[r].payload \in confirmed[job[r].case]
      /\ job[r].payload \in CaseRows
  BY <1>1 DEF CaseInv, PayloadsConfirmed, TypeOK
<1>5. /\ j \in Jobs /\ j.op = "report" /\ j.case = job[r].case
      /\ j.payload = job[r].payload /\ j.status \in {"submitted", "error"}
  BY <1>4 DEF Jobs
<1>6. \A q \in Requests : job'[q] = IF q = r THEN j ELSE job[q]
  BY <1>2 DEF j, CaseInv, TypeOK
<1>7. TypeOK'
  <2>1. submissions' \in Seq(ReportPayloads)
    <3>1. [case |-> job[r].case, payload |-> job[r].payload] \in ReportPayloads
      BY <1>4 DEF ReportPayloads
    <3> QED
      BY <1>2, <3>1 DEF CaseInv, TypeOK
  <2>2. job' \in [Requests -> Jobs]
    BY <1>2, <1>5 DEF CaseInv, TypeOK, j
  <2> QED
    BY <1>3, <2>1, <2>2 DEF CaseInv, TypeOK
<1> HIDE DEF j
<1>8. ResolvedHasResolution' /\ ConfirmedKnown'
  BY <1>3 DEF CaseInv, ResolvedHasResolution, ConfirmedKnown
<1>9. UpdatesSound' /\ CreationsFresh' /\ PayloadsConfirmed'
  BY <1>1, <1>3, <1>4, <1>5, <1>6 DEF CaseInv, UpdatesSound, CreationsFresh, PayloadsConfirmed
<1>10. OnlyReportsSubmit'
  BY <1>1, <1>3, <1>5, <1>6 DEF CaseInv, TypeOK, OnlyReportsSubmit
<1> QED
  BY <1>7, <1>8, <1>9, <1>10 DEF CaseInv

LEMMA FlushKeeps ==
  ASSUME CaseInv, NEW r \in Requests, Flush(r)
  PROVE  CaseInv'
<1>1. /\ writer' = r /\ phase' = [phase EXCEPT ![r] = "written"]
      /\ UNCHANGED <<cases, confirmed, reports, notes, submissions, job>>
  BY DEF Flush, store
<1>2. TypeOK'
  BY <1>1 DEF CaseInv, TypeOK
<1>3. ResolvedHasResolution' /\ UpdatesSound' /\ CreationsFresh'
  BY <1>1 DEF CaseInv, ResolvedHasResolution, UpdatesSound, CreationsFresh
<1>4. PayloadsConfirmed' /\ ConfirmedKnown'
  BY <1>1 DEF CaseInv, PayloadsConfirmed, ConfirmedKnown
<1>5. \A q \in Requests : phase'[q] = IF q = r THEN "written" ELSE phase[q]
  BY <1>1 DEF CaseInv, TypeOK
<1>6. OnlyReportsSubmit'
  BY <1>1, <1>5 DEF Flush, CaseInv, OnlyReportsSubmit
<1> QED
  BY <1>2, <1>3, <1>4, <1>6 DEF CaseInv

\* A request that ends leaves no job behind; the others keep theirs.
LEMMA EndFacts ==
  ASSUME CaseInv, NEW r \in Requests, End(r)
  PROVE  /\ \A q \in Requests : job'[q] = IF q = r THEN NoJob ELSE job[q]
         /\ NoJob.op = "none"
         /\ job' \in [Requests -> Jobs]
         /\ phase' \in [Requests -> {"idle", "submitting", "flushing", "written"}]
         /\ writer' \in Requests \cup {NoRequest}
         /\ submissions' = submissions
         /\ OnlyReportsSubmit'
<1>1. /\ phase' = [phase EXCEPT ![r] = "idle"] /\ job' = [job EXCEPT ![r] = NoJob]
      /\ writer' = IF writer = r THEN NoRequest ELSE writer
      /\ submissions' = submissions
  BY DEF End
<1>2. /\ phase' \in [Requests -> {"idle", "submitting", "flushing", "written"}]
      /\ \A q \in Requests : phase'[q] = IF q = r THEN "idle" ELSE phase[q]
  BY <1>1 DEF CaseInv, TypeOK
<1>3. writer' \in Requests \cup {NoRequest}
  BY <1>1 DEF CaseInv, TypeOK
<1>4. NoJob \in Jobs /\ NoJob.op = "none"
  BY DEF Jobs, NoJob
<1>5. /\ job' \in [Requests -> Jobs]
      /\ \A q \in Requests : job'[q] = IF q = r THEN NoJob ELSE job[q]
  BY <1>1, <1>4 DEF CaseInv, TypeOK
<1>6. OnlyReportsSubmit'
  BY <1>2, <1>4, <1>5 DEF CaseInv, OnlyReportsSubmit
<1> QED
  BY <1>1, <1>2, <1>3, <1>4, <1>5, <1>6

LEMMA RollbackKeeps ==
  ASSUME CaseInv, NEW r \in Requests, Rollback(r)
  PROVE  CaseInv'
<1>1. End(r) /\ UNCHANGED <<cases, confirmed, reports, notes>>
  BY DEF Rollback, store
<1>2. TypeOK'
  BY <1>1, EndFacts DEF CaseInv, TypeOK
<1>3. ResolvedHasResolution' /\ ConfirmedKnown'
  BY <1>1 DEF CaseInv, ResolvedHasResolution, ConfirmedKnown
<1>4. UpdatesSound' /\ CreationsFresh' /\ PayloadsConfirmed'
  BY <1>1, EndFacts DEF CaseInv, UpdatesSound, CreationsFresh, PayloadsConfirmed
<1> QED
  BY <1>1, <1>2, <1>3, <1>4, EndFacts DEF CaseInv

\* A request commits a row of a case: another one than before, or the first.
LEMMA PutCaseKeeps ==
  ASSUME CaseInv, NEW r \in Requests, End(r), UNCHANGED <<reports, notes>>,
         NEW c \in Cases, NEW row \in CaseRows, L!Consistent(row), PutCase(c, row),
         \/ cases[c] # NoCase /\ L!Succeeds(row, cases[c])
         \/ cases[c] = NoCase /\ job[r].op = "create" /\ job[r].case = c
  PROVE  CaseInv'
<1>1. row # NoCase
  BY AbsentAssumption
<1>2. cases' = [cases EXCEPT ![c] = row] /\ cases \in [Cases -> CaseRows \cup {NoCase}]
  BY DEF PutCase, CaseInv, TypeOK
<1>3. \A d \in Cases : cases'[d] = IF d = c THEN row ELSE cases[d]
  BY <1>2
<1>4. /\ confirmed' \in [Cases -> SUBSET CaseRows]
      /\ \A d \in Cases : confirmed[d] \subseteq confirmed'[d]
      /\ L!Reportable(row) => row \in confirmed'[c]
  BY DEF PutCase, CaseInv, TypeOK
<1>5. TypeOK'
  BY <1>2, <1>4, EndFacts DEF CaseInv, TypeOK
<1>6. ResolvedHasResolution'
  BY <1>3 DEF CaseInv, ResolvedHasResolution
<1>7. ConfirmedKnown'
  BY <1>3, <1>4 DEF CaseInv, ConfirmedKnown
<1>8. PayloadsConfirmed'
  BY <1>4, EndFacts DEF CaseInv, PayloadsConfirmed
<1>9. CreationsFresh'
  BY <1>3, EndFacts DEF CaseInv, CreationsFresh
<1>10. UpdatesSound'
  <2> SUFFICES ASSUME NEW q \in Requests, q # r, job[q].op = "update"
               PROVE  /\ job[q].case \in Cases /\ cases'[job[q].case] # NoCase
                      /\ ClearsNothing(job[q].set)
                      /\ ResolvesFully(cases'[job[q].case], job[q].set)
    BY EndFacts DEF UpdatesSound
  <2>1. /\ job[q].case \in Cases /\ cases[job[q].case] # NoCase
        /\ ClearsNothing(job[q].set) /\ ResolvesFully(cases[job[q].case], job[q].set)
    BY DEF CaseInv, UpdatesSound
  <2>2. job[q].case = c => (cases[c].resolution # None => row.resolution # None)
    BY <2>1 DEF L!Succeeds
  <2> QED
    BY <1>1, <1>3, <2>1, <2>2 DEF ResolvesFully
<1> QED
  BY <1>5, <1>6, <1>7, <1>8, <1>9, <1>10, EndFacts DEF CaseInv

\* What COMMIT does, by what the request has done.
LEMMA CommitUpdate ==
  ASSUME CaseInv, NEW r \in Requests, job[r].op = "update"
  PROVE  /\ job[r].case \in Cases /\ cases[job[r].case] # NoCase
         /\ UpdatedRow(job[r]) \in CaseRows /\ L!Consistent(UpdatedRow(job[r]))
         /\ L!Succeeds(UpdatedRow(job[r]), cases[job[r].case])
<1> DEFINE c == job[r].case
<1>1. /\ c \in Cases /\ cases[c] # NoCase
      /\ ClearsNothing(job[r].set) /\ ResolvesFully(cases[c], job[r].set)
  BY DEF CaseInv, UpdatesSound
<1>2. cases[c] \in CaseRows /\ L!Consistent(cases[c])
  BY <1>1 DEF CaseInv, TypeOK, ResolvedHasResolution
<1>3. UpdatedRow(job[r]) = [col \in DOMAIN cases[c] |-> IF col \in DOMAIN job[r].set
                                                        THEN job[r].set[col] ELSE cases[c][col]]
  BY DEF UpdatedRow
<1> QED
  BY <1>1, <1>2, <1>3, UpdatedRowSucceeds

LEMMA CommitCreate ==
  ASSUME CaseInv, NEW r \in Requests, job[r].op = "create"
  PROVE  /\ job[r].case \in Cases /\ cases[job[r].case] = NoCase
         /\ job[r].row \in CaseRows /\ L!Fresh(job[r].row) /\ L!Consistent(job[r].row)
BY DEF CaseInv, CreationsFresh, L!Fresh, L!Consistent

LEMMA CommitReport ==
  ASSUME CaseInv, NEW r \in Requests, job[r].op = "report", phase[r] = "written"
  PROVE  /\ job[r].case \in Cases
         /\ ReportRow(job[r]) \in [case : Cases, payload : CaseRows, status : {"submitted", "error"}]
         /\ ReportRow(job[r]).case = job[r].case
         /\ ReportRow(job[r]).payload \in confirmed[job[r].case]
<1>1. job[r].case \in Cases /\ job[r].payload \in confirmed[job[r].case]
  BY DEF CaseInv, PayloadsConfirmed
<1>2. job[r].payload \in CaseRows
  BY <1>1 DEF CaseInv, TypeOK
<1>3. job[r].status \in {"submitted", "error"}
  BY DEF CaseInv, OnlyReportsSubmit
<1> QED
  BY <1>1, <1>2, <1>3 DEF ReportRow

LEMMA CommitKeeps ==
  ASSUME CaseInv, NEW r \in Requests, Commit(r)
  PROVE  CaseInv'
<1>1. phase[r] = "written" /\ End(r)
  BY DEF Commit
<1>2. CASE job[r].op = "update"
  <2>1. PutCase(job[r].case, UpdatedRow(job[r])) /\ UNCHANGED <<reports, notes>>
    BY <1>2 DEF Commit
  <2> QED
    BY <1>1, <1>2, <2>1, CommitUpdate, PutCaseKeeps
<1>3. CASE job[r].op = "create"
  <2>1. PutCase(job[r].case, job[r].row) /\ UNCHANGED <<reports, notes>>
    BY <1>3 DEF Commit
  <2> QED
    BY <1>1, <1>3, <2>1, CommitCreate, PutCaseKeeps
<1>4. ASSUME job[r].op \in {"note", "report"} PROVE CaseInv'
  <2>1. UNCHANGED <<cases, confirmed>>
    BY <1>4 DEF Commit
  <2>2. notes' \in [Cases -> Nat]
    BY <1>4 DEF Commit, CaseInv, TypeOK
  <2>3. reports' \in Seq([case : Cases, payload : CaseRows, status : {"submitted", "error"}])
    <3>1. CASE job[r].op = "note"
      BY <3>1 DEF Commit, CaseInv, TypeOK
    <3>2. CASE job[r].op = "report"
      <4> DEFINE R == [case : Cases, payload : CaseRows, status : {"submitted", "error"}]
      <4>1. reports \in Seq(R) /\ reports' = Append(reports, ReportRow(job[r]))
        BY <3>2 DEF Commit, CaseInv, TypeOK
      <4>2. ReportRow(job[r]) \in R
        BY <1>1, <3>2, CommitReport
      <4> HIDE DEF R
      <4>3. reports' \in Seq(R)
        BY <4>1, <4>2
      <4> QED
        BY <4>3 DEF R
    <3> QED
      BY <1>4, <3>1, <3>2
  <2>4. TypeOK'
    BY <1>1, <2>1, <2>2, <2>3, EndFacts DEF CaseInv, TypeOK
  <2>5. ResolvedHasResolution' /\ ConfirmedKnown'
    BY <2>1 DEF CaseInv, ResolvedHasResolution, ConfirmedKnown
  <2>6. UpdatesSound' /\ CreationsFresh' /\ PayloadsConfirmed'
    BY <1>1, <2>1, EndFacts DEF CaseInv, UpdatesSound, CreationsFresh, PayloadsConfirmed
  <2> QED
    BY <1>1, <2>4, <2>5, <2>6, EndFacts DEF CaseInv
<1> QED
  BY <1>2, <1>3, <1>4 DEF Commit

-----------------------------------------------------------------------------
LEMMA NextKeeps == CaseInv /\ [Next]_vars => CaseInv'
<1> SUFFICES ASSUME CaseInv, [Next]_vars PROVE CaseInv'
  OBVIOUS
<1>1. CASE UNCHANGED vars
  <2>1. UNCHANGED <<cases, confirmed, reports, notes, submissions, writer, phase, job>>
    BY <1>1 DEF vars
  <2>2. TypeOK' /\ OnlyReportsSubmit'
    BY <2>1 DEF CaseInv, TypeOK, OnlyReportsSubmit
  <2>3. ResolvedHasResolution' /\ UpdatesSound' /\ CreationsFresh'
    BY <2>1 DEF CaseInv, ResolvedHasResolution, UpdatesSound, CreationsFresh
  <2>4. PayloadsConfirmed' /\ ConfirmedKnown'
    BY <2>1 DEF CaseInv, PayloadsConfirmed, ConfirmedKnown
  <2> QED
    BY <2>2, <2>3, <2>4 DEF CaseInv
<1>2. ASSUME NEW r \in Requests, NEW c \in Cases, NEW p \in Updates, UpdateCase(r, c, p)
      PROVE  CaseInv'
  BY <1>2, UpdateCaseKeeps
<1>3. ASSUME NEW r \in Requests, NEW c \in Cases, NEW customer \in Customers,
             NEW source \in Sources, CreateCase(r, c, customer, source)
      PROVE  CaseInv'
  BY <1>3, CreateCaseKeeps
<1>4. ASSUME NEW r \in Requests, NEW c \in Cases, AddNote(r, c) PROVE CaseInv'
  BY <1>4, AddNoteKeeps
<1>5. ASSUME NEW r \in Requests, NEW c \in Cases, GenerateReport(r, c) PROVE CaseInv'
  BY <1>5, GenerateReportKeeps
<1>6. ASSUME NEW r \in Requests, Submit(r) PROVE CaseInv'
  BY <1>6, SubmitKeeps
<1>7. ASSUME NEW r \in Requests, Flush(r) PROVE CaseInv'
  BY <1>7, FlushKeeps
<1>8. ASSUME NEW r \in Requests, Commit(r) PROVE CaseInv'
  BY <1>8, CommitKeeps
<1>9. ASSUME NEW r \in Requests, Rollback(r) PROVE CaseInv'
  BY <1>9, RollbackKeeps
<1> QED
  BY <1>1, <1>2, <1>3, <1>4, <1>5, <1>6, <1>7, <1>8, <1>9 DEF Next

\* The inductive invariant: the row a request will leave behind is consistent
\* whatever is committed before it.
THEOREM CaseInvariant == Spec => []CaseInv
<1> QED
  BY InitKeeps, NextKeeps, PTL DEF Spec

\* A case is committed as resolved only with a resolution and a time, although
\* update_case_status checks a row that may be stale by then.
THEOREM ResolvedAlwaysHasResolution == Spec => []ResolvedHasResolution
<1>1. CaseInv => ResolvedHasResolution
  BY DEF CaseInv
<1> QED
  BY <1>1, CaseInvariant, PTL

-----------------------------------------------------------------------------
\* Refinement of CaseLifecycle.

LEMMA InitImplements == Init => L!LInit
<1> SUFFICES ASSUME Init PROVE L!LInit
  OBVIOUS
<1>1. ASSUME NEW c \in Cases, cases[c] # NoCase PROVE L!Fresh(cases[c])
  BY <1>1 DEF Init, OpenedCase, L!Fresh
<1> QED
  BY <1>1 DEF Init, L!LInit

LEMMA PutCaseImplements ==
  ASSUME CaseInv, NEW c \in Cases, NEW row \in CaseRows, PutCase(c, row), UNCHANGED reports,
         IF cases[c] = NoCase THEN L!Fresh(row) ELSE L!Succeeds(row, cases[c])
  PROVE  L!Change(c)
<1>1. cases' = [cases EXCEPT ![c] = row] /\ cases'[c] = row
  BY DEF PutCase, CaseInv, TypeOK
<1>2. row # NoCase
  BY AbsentAssumption
<1> QED
  BY <1>1, <1>2 DEF PutCase, L!Change

LEMMA CommitImplements ==
  ASSUME CaseInv, NEW r \in Requests, Commit(r)
  PROVE  [L!LNext]_(L!lvars)
<1>1. phase[r] = "written"
  BY DEF Commit
<1>2. CASE job[r].op = "update"
  <2>1. PutCase(job[r].case, UpdatedRow(job[r])) /\ UNCHANGED reports
    BY <1>2 DEF Commit
  <2>2. L!Change(job[r].case) /\ job[r].case \in Cases
    BY <1>2, <2>1, CommitUpdate, PutCaseImplements
  <2> QED
    BY <2>2 DEF L!LNext
<1>3. CASE job[r].op = "create"
  <2>1. PutCase(job[r].case, job[r].row) /\ UNCHANGED reports
    BY <1>3 DEF Commit
  <2>2. L!Change(job[r].case) /\ job[r].case \in Cases
    BY <1>3, <2>1, CommitCreate, PutCaseImplements
  <2> QED
    BY <2>2 DEF L!LNext
<1>4. CASE job[r].op = "note"
  BY <1>4 DEF Commit, L!lvars
<1>5. CASE job[r].op = "report"
  <2>1. reports' = Append(reports, ReportRow(job[r])) /\ UNCHANGED <<cases, confirmed>>
    BY <1>5 DEF Commit
  <2>2. /\ Len(reports') = Len(reports) + 1
        /\ reports'[Len(reports')] = ReportRow(job[r])
    BY <1>1, <1>5, <2>1, CommitReport DEF CaseInv, TypeOK
  <2>3. L!File(job[r].case) /\ job[r].case \in Cases
    BY <1>1, <1>5, <2>1, <2>2, CommitReport DEF L!File
  <2> QED
    BY <2>3 DEF L!LNext
<1> QED
  BY <1>2, <1>3, <1>4, <1>5 DEF Commit

LEMMA NextImplements == CaseInv /\ [Next]_vars => [L!LNext]_(L!lvars)
<1> SUFFICES ASSUME CaseInv, [Next]_vars PROVE [L!LNext]_(L!lvars)
  OBVIOUS
<1>1. CASE \E r \in Requests : Commit(r)
  BY <1>1, CommitImplements
<1>2. CASE ~\E r \in Requests : Commit(r)
  <2>1. UNCHANGED <<cases, confirmed, reports>>
    BY <1>2 DEF Next, vars, UpdateCase, CreateCase, AddNote, GenerateReport, Submit, Flush,
                Rollback, Decide, store
  <2> QED
    BY <2>1 DEF L!lvars
<1> QED
  BY <1>1, <1>2

\* The concurrent requests implement the lifecycle: trigger and customer stay,
\* no resolution is lost to a stale write, and a report carries a version of its
\* case that was committed as resolved and confirmed.
THEOREM LifecycleImplemented == Spec => ImplementsLifecycle
<1> QED
  BY InitImplements, CaseInvariant, NextImplements, PTL DEF Spec, ImplementsLifecycle, L!LSpec

-----------------------------------------------------------------------------
\* Reports and submissions are counted per payload x: the rows that say
\* "submitted" and the requests that may still write one are never more than
\* the submissions the regulator has accepted.

Payload(j) == [case |-> j.case, payload |-> j.payload]

Accepted(x) == {r \in Requests : /\ phase[r] # "submitting"
                                 /\ job[r].op = "report" /\ job[r].status = "submitted"
                                 /\ Payload(job[r]) = x}

SubmissionsOf(x) == {k \in DOMAIN submissions : submissions[k] = x}

Covered(x) ==
  /\ IsFiniteSet(Accepted(x))
  /\ Cardinality(FiledWith(x)) + Cardinality(Accepted(x)) <= Cardinality(SubmissionsOf(x))

SubmissionsCover == \A x \in ReportPayloads : Covered(x)

\* The positions of a sequence are finitely many, also those of one value.
LEMMA PositionsFinite ==
  ASSUME CaseInv, NEW x
  PROVE  IsFiniteSet(FiledWith(x)) /\ IsFiniteSet(SubmissionsOf(x))
<1>1. /\ Len(reports) \in Nat /\ DOMAIN reports = 1..Len(reports)
      /\ Len(submissions) \in Nat /\ DOMAIN submissions = 1..Len(submissions)
  BY DEF CaseInv, TypeOK
<1>2. IsFiniteSet(DOMAIN reports) /\ IsFiniteSet(DOMAIN submissions)
  BY <1>1, FS_Interval
<1> QED
  BY <1>2, FS_Subset DEF FiledWith, SubmissionsOf

LEMMA CardinalitiesNatural ==
  ASSUME CaseInv, NEW x, IsFiniteSet(Accepted(x))
  PROVE  /\ Cardinality(FiledWith(x)) \in Nat /\ Cardinality(Accepted(x)) \in Nat
         /\ Cardinality(SubmissionsOf(x)) \in Nat
BY PositionsFinite, FS_CardinalityType

\* Nothing but Submit and Commit of a report adds to a count.
LEMMA OthersCover ==
  ASSUME CaseInv, SubmissionsCover, UNCHANGED <<reports, submissions>>,
         \A x : Accepted(x)' \subseteq Accepted(x)
  PROVE  SubmissionsCover'
<1> SUFFICES ASSUME NEW x \in ReportPayloads PROVE Covered(x)'
  BY DEF SubmissionsCover, ReportPayloads
<1>1. Covered(x)
  BY DEF SubmissionsCover
<1>2. FiledWith(x)' = FiledWith(x) /\ SubmissionsOf(x)' = SubmissionsOf(x)
  BY DEF FiledWith, SubmissionsOf
<1>3. /\ IsFiniteSet(Accepted(x)')
      /\ Cardinality(Accepted(x)') <= Cardinality(Accepted(x))
      /\ Cardinality(Accepted(x)') \in Nat
  BY <1>1, FS_Subset, FS_CardinalityType DEF Covered
<1>4. /\ Cardinality(FiledWith(x)) \in Nat /\ Cardinality(Accepted(x)) \in Nat
      /\ Cardinality(SubmissionsOf(x)) \in Nat
  BY <1>1, CardinalitiesNatural DEF Covered
<1> QED
  BY <1>1, <1>2, <1>3, <1>4 DEF Covered

LEMMA DecideCovers ==
  ASSUME CaseInv, SubmissionsCover, NEW r \in Requests, NEW j, NEW p, Decide(r, j, p),
         j.op = "report" => p = "submitting"
  PROVE  SubmissionsCover'
<1>1. /\ UNCHANGED <<reports, submissions>>
      /\ \A q \in Requests : /\ job'[q] = IF q = r THEN j ELSE job[q]
                             /\ phase'[q] = IF q = r THEN p ELSE phase[q]
  BY DEF Decide, store, CaseInv, TypeOK
<1>2. \A x : Accepted(x)' \subseteq Accepted(x)
  BY <1>1 DEF Accepted
<1> QED
  BY <1>1, <1>2, OthersCover

LEMMA EndCovers ==
  ASSUME CaseInv, SubmissionsCover, NEW r \in Requests, End(r), UNCHANGED reports
  PROVE  SubmissionsCover'
<1>1. \A q \in Requests \ {r} : phase'[q] = phase[q]
  BY DEF End, CaseInv, TypeOK
<1>2. \A x : Accepted(x)' \subseteq Accepted(x)
  BY <1>1, EndFacts DEF Accepted
<1> QED
  BY <1>2, EndFacts, OthersCover

\* An accepted payload adds one submission and one request that may file it.
LEMMA SubmitCovers ==
  ASSUME CaseInv, SubmissionsCover, NEW r \in Requests, Submit(r)
  PROVE  SubmissionsCover'
<1>1. phase[r] = "submitting" /\ job[r].op = "report"
  BY DEF Submit, CaseInv, OnlyReportsSubmit
<1>2. PICK status \in {"submitted", "error"} :
        /\ job' = [job EXCEPT ![r] = [op |-> "report", case |-> job[r].case,
                                      payload |-> job[r].payload, status |-> status]]
        /\ submissions' = IF status = "submitted"
                          THEN Append(submissions, [case |-> job[r].case, payload |-> job[r].payload])
                          ELSE submissions
  BY DEF Submit
<1> DEFINE j == [op |-> "report", case |-> job[r].case, payload |-> job[r].payload,
                 status |-> status]
<1>3. /\ \A q \in Requests : /\ job'[q] = IF q = r THEN j ELSE job[q]
                             /\ phase'[q] = IF q = r THEN "flushing" ELSE phase[q]
      /\ reports' = reports
  BY <1>2 DEF Submit, store, CaseInv, TypeOK
<1>4. /\ j.op = "report" /\ j.status = status
      /\ Payload(j) = [case |-> job[r].case, payload |-> job[r].payload]
  BY DEF Payload
<1> HIDE DEF j
<1>5. CASE status = "error"
  <2>1. \A x : Accepted(x)' \subseteq Accepted(x)
    BY <1>3, <1>4, <1>5 DEF Accepted
  <2> QED
    BY <1>2, <1>3, <1>5, <2>1, OthersCover
<1>6. CASE status = "submitted"
  <2> SUFFICES ASSUME NEW x \in ReportPayloads PROVE Covered(x)'
    BY DEF SubmissionsCover, ReportPayloads
  <2>1. Covered(x)
    BY DEF SubmissionsCover
  <2>2. /\ Cardinality(FiledWith(x)) \in Nat /\ Cardinality(Accepted(x)) \in Nat
        /\ Cardinality(SubmissionsOf(x)) \in Nat
    BY <2>1, CardinalitiesNatural DEF Covered
  <2>3. FiledWith(x)' = FiledWith(x)
    BY <1>3 DEF FiledWith
  <2>4. submissions' = Append(submissions, Payload(j)) /\ submissions \in Seq(ReportPayloads)
    BY <1>2, <1>4, <1>6 DEF CaseInv, TypeOK
  <2>5. /\ Len(submissions) \in Nat /\ DOMAIN submissions = 1..Len(submissions)
        /\ DOMAIN submissions' = 1..(Len(submissions) + 1)
        /\ \A k \in 1..Len(submissions) : submissions'[k] = submissions[k]
        /\ submissions'[Len(submissions) + 1] = Payload(j)
    BY <2>4
  <2>6. CASE Payload(j) = x
    <3>1. Accepted(x)' = Accepted(x) \cup {r} /\ r \notin Accepted(x)
      BY <1>1, <1>3, <1>4, <1>6, <2>6 DEF Accepted
    <3>2. /\ SubmissionsOf(x)' = SubmissionsOf(x) \cup {Len(submissions) + 1}
          /\ Len(submissions) + 1 \notin SubmissionsOf(x)
      BY <2>5, <2>6 DEF SubmissionsOf
    <3>3. /\ IsFiniteSet(Accepted(x)')
          /\ Cardinality(Accepted(x)') = Cardinality(Accepted(x)) + 1
      BY <2>1, <3>1, FS_AddElement DEF Covered
    <3>4. Cardinality(SubmissionsOf(x)') = Cardinality(SubmissionsOf(x)) + 1
      BY <3>2, PositionsFinite, FS_AddElement
    <3> QED
      BY <2>1, <2>2, <2>3, <3>3, <3>4 DEF Covered
  <2>7. CASE Payload(j) # x
    <3>1. Accepted(x)' = Accepted(x)
      BY <1>1, <1>3, <1>4, <2>7 DEF Accepted
    <3>2. SubmissionsOf(x)' = SubmissionsOf(x)
      BY <2>5, <2>7 DEF SubmissionsOf
    <3> QED
      BY <2>1, <2>3, <3>1, <3>2 DEF Covered
  <2> QED
    BY <2>6, <2>7
<1> QED
  BY <1>5, <1>6

\* The request that files a report stops being one that may.
LEMMA CommitReportCovers ==
  ASSUME CaseInv, SubmissionsCover, NEW r \in Requests, Commit(r), job[r].op = "report"
  PROVE  SubmissionsCover'
<1>1. /\ phase[r] = "written" /\ End(r) /\ reports' = Append(reports, ReportRow(job[r]))
      /\ submissions' = submissions
  BY DEF Commit, End
<1>2. /\ ReportRow(job[r]).status = job[r].status
      /\ Payload(ReportRow(job[r])) = Payload(job[r])
  BY DEF ReportRow, Payload
<1>3. \A q \in Requests \ {r} : phase'[q] = phase[q] /\ job'[q] = job[q]
  BY <1>1, EndFacts DEF End, CaseInv, TypeOK
<1>4. job'[r].op = "none"
  BY <1>1, EndFacts
<1> SUFFICES ASSUME NEW x \in ReportPayloads PROVE Covered(x)'
  BY DEF SubmissionsCover, ReportPayloads
<1>5. Covered(x)
  BY DEF SubmissionsCover
<1>6. /\ Cardinality(FiledWith(x)) \in Nat /\ Cardinality(Accepted(x)) \in Nat
      /\ Cardinality(SubmissionsOf(x)) \in Nat
  BY <1>5, CardinalitiesNatural DEF Covered
<1>7. Accepted(x)' = Accepted(x) \ {r}
  BY <1>3, <1>4 DEF Accepted
<1>8. SubmissionsOf(x)' = SubmissionsOf(x)
  BY <1>1 DEF SubmissionsOf
<1>9. /\ Len(reports) \in Nat /\ DOMAIN reports = 1..Len(reports)
      /\ DOMAIN reports' = 1..(Len(reports) + 1)
      /\ \A i \in 1..Len(reports) : reports'[i] = reports[i]
      /\ reports'[Len(reports) + 1] = ReportRow(job[r])
  BY <1>1 DEF CaseInv, TypeOK
<1>10. FiledWith(x) = {i \in DOMAIN reports : reports[i].status = "submitted"
                                               /\ Payload(reports[i]) = x}
  BY DEF FiledWith, Payload
<1>11. FiledWith(x)' = {i \in DOMAIN reports' : reports'[i].status = "submitted"
                                                 /\ Payload(reports'[i]) = x}
  BY DEF FiledWith, Payload
<1>12. CASE job[r].status = "submitted" /\ Payload(job[r]) = x
  <2>1. /\ FiledWith(x)' = FiledWith(x) \cup {Len(reports) + 1}
        /\ Len(reports) + 1 \notin FiledWith(x)
    BY <1>2, <1>9, <1>10, <1>11, <1>12
  <2>2. Cardinality(FiledWith(x)') = Cardinality(FiledWith(x)) + 1
    BY <2>1, PositionsFinite, FS_AddElement
  <2>3. r \in Accepted(x)
    BY <1>1, <1>12 DEF Accepted
  <2>4. /\ IsFiniteSet(Accepted(x)')
        /\ Cardinality(Accepted(x)') = Cardinality(Accepted(x)) - 1
    BY <1>5, <1>7, <2>3, FS_RemoveElement DEF Covered
  <2> QED
    BY <1>5, <1>6, <1>8, <2>2, <2>4 DEF Covered
<1>13. CASE ~(job[r].status = "submitted" /\ Payload(job[r]) = x)
  <2>1. FiledWith(x)' = FiledWith(x)
    BY <1>2, <1>9, <1>10, <1>11, <1>13
  <2>2. r \notin Accepted(x)
    BY <1>13 DEF Accepted
  <2>3. Accepted(x)' = Accepted(x)
    BY <1>7, <2>2
  <2> QED
    BY <1>5, <1>8, <2>1, <2>3 DEF Covered
<1> QED
  BY <1>12, <1>13

LEMMA InitCovers == Init => SubmissionsCover
<1> SUFFICES ASSUME Init, NEW x \in ReportPayloads PROVE Covered(x)
  BY DEF SubmissionsCover
<1>1. Accepted(x) = {} /\ FiledWith(x) = {} /\ SubmissionsOf(x) = {}
  BY DEF Init, Accepted, FiledWith, SubmissionsOf, NoJob
<1> QED
  BY <1>1, FS_EmptySet DEF Covered

LEMMA NextCovers == CaseInv /\ SubmissionsCover /\ [Next]_vars => SubmissionsCover'
<1> SUFFICES ASSUME CaseInv, SubmissionsCover, [Next]_vars PROVE SubmissionsCover'
  OBVIOUS
<1>1. CASE UNCHANGED vars
  <2>1. UNCHANGED <<reports, submissions, phase, job>>
    BY <1>1 DEF vars
  <2>2. \A x : Accepted(x)' \subseteq Accepted(x)
    BY <2>1 DEF Accepted
  <2> QED
    BY <2>1, <2>2, OthersCover
<1>2. ASSUME NEW r \in Requests, NEW c \in Cases, NEW p \in Updates, UpdateCase(r, c, p)
      PROVE  SubmissionsCover'
  <2>1. PICK j, ph : Decide(r, j, ph) /\ j.op = "update"
    BY <1>2 DEF UpdateCase
  <2> QED
    BY <2>1, DecideCovers
<1>3. ASSUME NEW r \in Requests, NEW c \in Cases, NEW customer \in Customers,
             NEW source \in Sources, CreateCase(r, c, customer, source)
      PROVE  SubmissionsCover'
  <2>1. PICK j : Decide(r, j, "flushing") /\ j.op = "create"
    BY <1>3 DEF CreateCase
  <2> QED
    BY <2>1, DecideCovers
<1>4. ASSUME NEW r \in Requests, NEW c \in Cases, AddNote(r, c) PROVE SubmissionsCover'
  <2>1. PICK j : Decide(r, j, "flushing") /\ j.op = "note"
    BY <1>4 DEF AddNote
  <2> QED
    BY <2>1, DecideCovers
<1>5. ASSUME NEW r \in Requests, NEW c \in Cases, GenerateReport(r, c) PROVE SubmissionsCover'
  <2>1. PICK j : Decide(r, j, "submitting")
    BY <1>5 DEF GenerateReport
  <2> QED
    BY <2>1, DecideCovers
<1>6. ASSUME NEW r \in Requests, Submit(r) PROVE SubmissionsCover'
  BY <1>6, SubmitCovers
<1>7. ASSUME NEW r \in Requests, Flush(r) PROVE SubmissionsCover'
  <2>1. /\ UNCHANGED <<reports, submissions, job>>
        /\ phase[r] = "flushing"
        /\ \A q \in Requests : phase'[q] = IF q = r THEN "written" ELSE phase[q]
    BY <1>7 DEF Flush, store, CaseInv, TypeOK
  <2>2. \A x : Accepted(x)' \subseteq Accepted(x)
    BY <2>1 DEF Accepted
  <2> QED
    BY <2>1, <2>2, OthersCover
<1>8. ASSUME NEW r \in Requests, Commit(r) PROVE SubmissionsCover'
  <2>1. CASE job[r].op = "report"
    BY <1>8, <2>1, CommitReportCovers
  <2>2. CASE job[r].op # "report"
    <3>1. End(r) /\ UNCHANGED reports
      BY <1>8, <2>2 DEF Commit
    <3> QED
      BY <3>1, EndCovers
  <2> QED
    BY <2>1, <2>2
<1>9. ASSUME NEW r \in Requests, Rollback(r) PROVE SubmissionsCover'
  <2>1. End(r) /\ UNCHANGED reports
    BY <1>9 DEF Rollback, store
  <2> QED
    BY <2>1, EndCovers
<1> QED
  BY <1>1, <1>2, <1>3, <1>4, <1>5, <1>6, <1>7, <1>8, <1>9 DEF Next

\* Every report row that says "submitted" has a submission of its own with the
\* same payload, however attempts interleave and fail after the provider's call.
THEOREM FiledAlwaysSubmitted == Spec => []FiledReportsWereSubmitted
<1>1. CaseInv /\ SubmissionsCover => FiledReportsWereSubmitted
  <2> SUFFICES ASSUME CaseInv, SubmissionsCover, NEW i \in DOMAIN reports,
                      reports[i].status = "submitted"
               PROVE  LET payload == [case |-> reports[i].case, payload |-> reports[i].payload]
                      IN Cardinality(FiledWith(payload))
                           <= Cardinality({k \in DOMAIN submissions : submissions[k] = payload})
    BY DEF FiledReportsWereSubmitted
  <2> DEFINE x == [case |-> reports[i].case, payload |-> reports[i].payload]
  <2>1. x \in ReportPayloads
    <3> DEFINE R == [case : Cases, payload : CaseRows, status : {"submitted", "error"}]
    <3>1. reports \in Seq(R)
      BY DEF CaseInv, TypeOK
    <3>2. reports[i] \in R
      <4> HIDE DEF R
      <4> QED
        BY <3>1
    <3> QED
      BY <3>2 DEF ReportPayloads
  <2> HIDE DEF x
  <2>2. Covered(x)
    BY <2>1 DEF SubmissionsCover
  <2>3. /\ Cardinality(FiledWith(x)) \in Nat /\ Cardinality(Accepted(x)) \in Nat
        /\ Cardinality(SubmissionsOf(x)) \in Nat
    BY <2>2, CardinalitiesNatural DEF Covered
  <2>4. Cardinality(FiledWith(x)) <= Cardinality(SubmissionsOf(x))
    BY <2>2, <2>3 DEF Covered
  <2> QED
    BY <2>4 DEF x, SubmissionsOf
<1>2. Spec => [](CaseInv /\ SubmissionsCover)
  BY InitKeeps, InitCovers, NextKeeps, NextCovers, PTL DEF Spec
<1> QED
  BY <1>1, <1>2, PTL

\* Every variable keeps its type.
THEOREM TypeCorrect == Spec => []TypeOK
<1>1. CaseInv => TypeOK
  BY DEF CaseInv
<1> QED
  BY <1>1, CaseInvariant, PTL
=============================================================================

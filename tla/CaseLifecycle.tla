--------------------------- MODULE CaseLifecycle ---------------------------
(***************************************************************************)
(* What the case queue promises, one committed change at a time: a case    *)
(* keeps the customer and the trigger it was opened for; once it has a     *)
(* resolution or a resolution time it never loses it; it is resolved only  *)
(* with both; and a report only ever describes a version of its case that  *)
(* was committed as resolved and confirmed.                                *)
(***************************************************************************)
EXTENDS Naturals, Sequences

CONSTANTS Cases, NoCase, None

VARIABLES cases,     \* the committed row of each case
          confirmed, \* per case: the resolved and confirmed rows it has had
          reports    \* the committed reports, oldest first

lvars == <<cases, confirmed, reports>>

Consistent(row) ==
  row.status = "resolved" => row.resolution # None /\ row.resolved_at # None

Reportable(row) == row.status = "resolved" /\ row.resolution = "confirmed"

\* A later row of the same case.
Succeeds(new, old) ==
  /\ new.customer = old.customer /\ new.source = old.source
  /\ old.resolution # None => new.resolution # None
  /\ old.resolved_at # None => new.resolved_at # None
  /\ Consistent(new)

\* The row of a case that has just been opened.
Fresh(row) == row.status = "open" /\ row.resolution = None /\ row.resolved_at = None

LInit == /\ \A c \in Cases : cases[c] # NoCase => Fresh(cases[c])
         /\ confirmed = [c \in Cases |-> {}]
         /\ reports = <<>>

\* One case is opened or revised.
Change(c) ==
  /\ cases'[c] # NoCase
  /\ IF cases[c] = NoCase THEN Fresh(cases'[c]) ELSE Succeeds(cases'[c], cases[c])
  /\ cases' = [cases EXCEPT ![c] = cases'[c]]
  /\ confirmed' = IF Reportable(cases'[c])
                   THEN [confirmed EXCEPT ![c] = @ \cup {cases'[c]}] ELSE confirmed
  /\ UNCHANGED reports

\* One report is filed.
File(c) ==
  /\ Len(reports') = Len(reports) + 1
  /\ LET new == reports'[Len(reports')]
     IN /\ reports' = Append(reports, new)
        /\ new.case = c /\ new.payload \in confirmed[c]
  /\ UNCHANGED <<cases, confirmed>>

LNext == \E c \in Cases : Change(c) \/ File(c)

LSpec == LInit /\ [][LNext]_lvars
=============================================================================

--------------------------- MODULE ChainVerifier ---------------------------
(***************************************************************************)
(* verify_chain (app/db/audit.py), as app/cli.py verify-chain runs it in a *)
(* session of its own, next to requests that append to the log.            *)
(*                                                                         *)
(* It reads twice: first all rows of the tenant, in the order of seq, and  *)
(* after the walk the head row.  Under READ COMMITTED each read sees what  *)
(* is committed at that moment, and no lock is taken.                      *)
(*                                                                         *)
(* Rows may be altered in the database behind the application's back, as   *)
(* step 7 of scripts/smoke_test.py does by disabling the triggers of       *)
(* migration 0003: the content of a row is rewritten, or the last row is   *)
(* deleted.  "recorded" remembers what was committed, for the properties.  *)
(***************************************************************************)
EXTENDS AuditLog, SequencesExt

CONSTANTS Verifiers,
          MaxAlterations    \* bound: alterations of rows in the database

VARIABLES recorded,   \* per tenant: the rows as the application committed them
          alterations,
          phase,      \* per verifier: "idle", "walked" (rows read), "done"
          subject,    \* per verifier: the tenant it verifies
          seen,       \* per verifier: the rows its first read returned
          seenAs,     \* per verifier: recorded[subject] at its first read
          verdict     \* per verifier: the ChainVerificationResult

verifierVars == <<phase, subject, seen, seenAs, verdict>>
cvars == <<vars, recorded, alterations, verifierVars>>

NoVerdict == [valid |-> TRUE, length |-> 0, failed_at_seq |-> NoSeq]

CInit ==
  /\ Init
  /\ recorded = [t \in Tenants |-> <<>>]
  /\ alterations = 0
  /\ phase = [v \in Verifiers |-> "idle"]
  /\ subject = [v \in Verifiers |-> NoTenant]
  /\ seen = [v \in Verifiers |-> <<>>]
  /\ seenAs = [v \in Verifiers |-> <<>>]
  /\ verdict = [v \in Verifiers |-> NoVerdict]

\* The application's own steps; what COMMIT adds to a log is recorded.
Application ==
  /\ Next
  /\ recorded' = [t \in Tenants |->
       recorded[t] \o SubSeq(log'[t], Len(log[t]) + 1, Len(log'[t]))]
  /\ UNCHANGED <<alterations, verifierVars>>

\* UPDATE audit_log SET new_values = ... on one row, triggers disabled.
Alter(t, i, p) ==
  /\ alterations < MaxAlterations
  /\ p # log[t][i].payload
  /\ log' = [log EXCEPT ![t][i].payload = p]
  /\ alterations' = alterations + 1
  /\ UNCHANGED <<rows, head, lock, sessionVars, recorded, verifierVars>>

\* DELETE of the last row, triggers disabled.
DropTail(t) ==
  /\ alterations < MaxAlterations
  /\ log[t] # <<>>
  /\ log' = [log EXCEPT ![t] = Front(@)]
  /\ alterations' = alterations + 1
  /\ UNCHANGED <<rows, head, lock, sessionVars, recorded, verifierVars>>

\* SELECT ... FROM audit_log ORDER BY seq, and the loop over its rows.
ReadRows(v, t) ==
  /\ phase[v] = "idle"
  /\ subject' = [subject EXCEPT ![v] = t]
  /\ seen' = [seen EXCEPT ![v] = log[t]]
  /\ seenAs' = [seenAs EXCEPT ![v] = recorded[t]]
  /\ IF BadRows(t, log[t]) # {}
     THEN /\ verdict' = [verdict EXCEPT ![v] = WalkVerdict(t, log[t])]
          /\ phase' = [phase EXCEPT ![v] = "done"]
     ELSE /\ phase' = [phase EXCEPT ![v] = "walked"]
          /\ UNCHANGED verdict
  /\ UNCHANGED <<vars, recorded, alterations>>

\* SELECT ... FROM audit_chain_head, compared with the recomputed tip.
ReadHead(v) ==
  /\ phase[v] = "walked"
  /\ verdict' = [verdict EXCEPT ![v] = TipVerdict(subject[v], seen[v], head[subject[v]])]
  /\ phase' = [phase EXCEPT ![v] = "done"]
  /\ UNCHANGED <<vars, recorded, alterations, subject, seen, seenAs>>

\* The command has printed its result and exits.
Exit(v) ==
  /\ phase[v] = "done"
  /\ phase' = [phase EXCEPT ![v] = "idle"]
  /\ subject' = [subject EXCEPT ![v] = NoTenant]
  /\ seen' = [seen EXCEPT ![v] = <<>>]
  /\ seenAs' = [seenAs EXCEPT ![v] = <<>>]
  /\ verdict' = [verdict EXCEPT ![v] = NoVerdict]
  /\ UNCHANGED <<vars, recorded, alterations>>

\* Contents an alteration may write over a row's: those of other rows' kinds.
AlteredContents(p) == {[p EXCEPT !.new = row] : row \in [Columns -> Values]}

CNext ==
  \/ Application
  \/ \E t \in Tenants : \E i \in DOMAIN log[t] :
       \E p \in AlteredContents(log[t][i].payload) : Alter(t, i, p)
  \/ \E t \in Tenants : DropTail(t)
  \/ \E v \in Verifiers, t \in Tenants : ReadRows(v, t)
  \/ \E v \in Verifiers : ReadHead(v)
  \/ \E v \in Verifiers : Exit(v)

CSpec == CInit /\ [][CNext]_cvars

-----------------------------------------------------------------------------
Done(v) == phase[v] = "done"

\* The rows v read are not those the application committed up to then.
ReadAltered(v) == seen[v] # seenAs[v]

\* The walk names a row (failed_at_seq) only when the rows it read had been
\* altered: no interleaving with appends makes a sound row look tampered with.
RowBlamedOnlyIfAltered ==
  \A v \in Verifiers :
    Done(v) /\ verdict[v].failed_at_seq # NoSeq => ReadAltered(v)

\* Rows that differ from what was committed never verify as valid, wherever
\* the difference is, whatever was appended after it, and although the head is
\* read at a later moment than the rows.
AlterationNeverValid ==
  \A v \in Verifiers : Done(v) /\ ReadAltered(v) => ~verdict[v].valid

\* When rows were rewritten and none deleted, the walk names the first of them.
FirstAlteredRowNamed ==
  \A v \in Verifiers :
    LET altered == {i \in DOMAIN seen[v] : seen[v][i] # seenAs[v][i]}
    IN Done(v) /\ Len(seen[v]) = Len(seenAs[v]) /\ altered # {} =>
         verdict[v].failed_at_seq = seenAs[v][CHOOSE i \in altered : \A j \in altered : i <= j].seq

\* app/cli.py:65 prints "FAIL: tampering detected" for every result that is
\* not valid: a log nobody altered is never reported so.
NoFalseAlarm ==
  \A v \in Verifiers : Done(v) /\ ~verdict[v].valid => alterations > 0
=============================================================================

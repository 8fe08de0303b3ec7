----------------------------- MODULE HashChain -----------------------------
(***************************************************************************)
(* The hash chain of app/db/audit.py as pure operators: the genesis        *)
(* digest, the digest of a recorded entry, and the walk of verify_chain    *)
(* over the rows of one tenant.                                            *)
(*                                                                         *)
(* SHA-256 is taken to be collision free on the values that occur, so a    *)
(* digest is represented by what was hashed: the tenant id that seeds the  *)
(* chain and the payloads folded into it since.  The genesis input (a bare *)
(* UUID) and the input of a later link (64 hex digits and a JSON object)   *)
(* can never be equal strings, hence neither can two unequal digests here. *)
(***************************************************************************)
EXTENDS Integers, Sequences, FiniteSetsExt

CONSTANT Tenants

Digests(P) == [tenant : Tenants, content : Seq(P)]

\* sha256(str(tenant_id))
genesis_hash(t) == [tenant |-> t, content |-> <<>>]

\* sha256(last_hash + canonical): the digest d extended by one payload.
chain_hash(d, p) == [d EXCEPT !.content = Append(@, p)]

\* The columns of an audit_log row that verify_chain reads.  actor_id,
\* actor_type and occurred_at enter neither the digest nor the walk.
Entries(P) == [seq : Nat, payload : P, prev_hash : Digests(P), record_hash : Digests(P)]

\* The entry built from the chain head h for payload p.
NewEntry(h, p) ==
  [seq |-> h.last_seq + 1, payload |-> p,
   prev_hash |-> h.last_hash, record_hash |-> chain_hash(h.last_hash, p)]

\* The head that follows an entry: head.last_seq += 1, head.last_hash = record_hash.
HeadAfter(h, e) == [last_seq |-> h.last_seq + 1, last_hash |-> e.record_hash]

\* Mutated form: running_hash is not advanced.
RunningHashStuck(t, rows, i) == genesis_hash(t)

\* running_hash when the walk of verify_chain reaches row i of rows.
RunningHash(t, rows, i) == IF i = 1 THEN genesis_hash(t) ELSE rows[i - 1].record_hash

\* Both comparisons of the loop body succeed on row i.
RowChecks(t, rows, i) ==
  /\ rows[i].prev_hash = RunningHash(t, rows, i)
  /\ rows[i].record_hash = chain_hash(RunningHash(t, rows, i), rows[i].payload)

BadRows(t, rows) == {i \in 1..Len(rows) : ~RowChecks(t, rows, i)}

\* running_hash once the loop is through.
Tip(t, rows) == RunningHash(t, rows, Len(rows) + 1)

NoSeq == 0   \* failed_at_seq is None

Verdicts == [valid : BOOLEAN, length : Nat, failed_at_seq : Nat]

\* Mutated form: the loop goes on and reports the last row that fails.
WalkVerdictLast(t, rows) ==
  [valid |-> FALSE, length |-> Len(rows),
   failed_at_seq |-> rows[Max(BadRows(t, rows))].seq]

\* The verdict the loop returns: it stops at the first row that fails.
WalkVerdict(t, rows) ==
  [valid |-> FALSE, length |-> Len(rows),
   failed_at_seq |-> rows[Min(BadRows(t, rows))].seq]

\* Mutated form: the head is not compared.
TipVerdictUnchecked(t, rows, head) ==
  [valid |-> TRUE, length |-> Len(rows), failed_at_seq |-> NoSeq]

\* The verdict after the loop, from the chain head read last.
TipVerdict(t, rows, head) ==
  [valid |-> Tip(t, rows) = head.last_hash, length |-> Len(rows), failed_at_seq |-> NoSeq]

-----------------------------------------------------------------------------
\* What the chain of tenant t is meant to be.

\* Numbered 1..n, every row linked to its predecessor.
Chained(t, rows) == \A i \in DOMAIN rows : rows[i].seq = i /\ RowChecks(t, rows, i)

\* The head describes the last row.
HeadMatches(t, rows, head) == head = [last_seq |-> Len(rows), last_hash |-> Tip(t, rows)]

PayloadsOf(rows) == [i \in 1..Len(rows) |-> rows[i].payload]
=============================================================================

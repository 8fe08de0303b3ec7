---------------------------- MODULE AuditJournal ----------------------------
(***************************************************************************)
(* What the audit trail promises, with no lock, session or hash in sight:  *)
(* every tenant has a journal that only grows, it grows by whole batches,  *)
(* and the business tables change in the same instant and by what the      *)
(* batch says, as the columns store it.  The journal keeps the values the  *)
(* session held, the tables what their columns make of them: an amount of  *)
(* 4999999.999 is journalled as such and is 5000000.00 in its row.         *)
(* AuditLog implements it.                                                 *)
(***************************************************************************)
EXTENDS Integers, Sequences

CONSTANTS Tenants, Records, Columns, Values,
          StoredAs   \* per column: what it holds of a value that is written to it

VARIABLES journal,   \* per tenant: the payloads recorded, oldest first
          table      \* per tenant: the audited rows

jvars == <<journal, table>>

\* A row is a function on the columns it has; a row that does not exist has none.
NoRow == [c \in {} |-> c]
Rows == UNION {[S -> Values] : S \in SUBSET Columns}

\* What _append_to_chain hashes, old_values and new_values being NoRow for None.
Payloads == [tenant : Tenants, action : {"INSERT", "UPDATE"}, record : Records,
             old : Rows, new : Rows]

\* The positions of the batch that set column c of a record.
Settings(batch, rec, c) ==
  {i \in 1..Len(batch) : batch[i].record = rec /\ c \in DOMAIN batch[i].new}

LastOf(S) == CHOOSE i \in S : \A j \in S : j <= i

\* What a row's columns hold of the values that are written to it.
AsStored(row) == [c \in DOMAIN row |-> StoredAs[c][row[c]]]

\* The rows a batch leaves behind when it is replayed over tbl.
Replay(tbl, batch) ==
  [rec \in Records |->
     [c \in {d \in Columns : d \in DOMAIN tbl[rec] \/ Settings(batch, rec, d) # {}} |->
        IF Settings(batch, rec, c) = {} THEN tbl[rec][c]
        ELSE AsStored(batch[LastOf(Settings(batch, rec, c))].new)[c]]]

EmptyTable == [rec \in Records |-> NoRow]

JInit == /\ journal = [t \in Tenants |-> <<>>]
         /\ table = [t \in Tenants |-> EmptyTable]

\* One request of tenant t takes effect.
Record(t) ==
  LET batch == SubSeq(journal'[t], Len(journal[t]) + 1, Len(journal'[t]))
  IN /\ batch # <<>>
     /\ \A i \in DOMAIN batch : batch[i].tenant = t
     /\ journal' = [journal EXCEPT ![t] = journal[t] \o batch]
     /\ table' = [table EXCEPT ![t] = Replay(table[t], batch)]

JNext == \E t \in Tenants : Record(t)

JSpec == JInit /\ [][JNext]_jvars
=============================================================================

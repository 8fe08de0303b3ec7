------------------------------ MODULE AuditLog ------------------------------
(***************************************************************************)
(* The audited unit of work: app/db/session.py (one transaction per        *)
(* request, pinned to a tenant) and the before_flush listener of           *)
(* app/db/audit.py that appends to the tenant's hash chain under a row     *)
(* lock on audit_chain_head.                                               *)
(*                                                                         *)
(* Requests run concurrently.  A session loads rows as they were committed *)
(* at that moment, changes them in memory, and flushes.  The first entry   *)
(* a flush appends takes SELECT ... FOR UPDATE on the tenant's head row;   *)
(* the lock is held until the transaction ends.  Entries, head and rows    *)
(* become visible together at COMMIT (READ COMMITTED), or not at all.      *)
(* A request may be rolled back at any point: an exception of the handler, *)
(* an HTTPException, a lost connection and a crash of the process all end  *)
(* the transaction the same way.                                           *)
(***************************************************************************)
EXTENDS HashChain, FiniteSets

CONSTANTS Records,    \* primary keys of the audited tables
          Columns,    \* the columns a session sets itself (no server defaults)
          Values,
          StoredAs,   \* per column: what it holds of a value that is written to it
          Requests, NoRequest, NoTenant,
          MaxLog,     \* bound: no session changes rows once the chain has this length
          MaxWrites   \* bound: entries one request appends

ASSUME NoRequestAssumption == NoRequest \notin Requests
ASSUME NoTenantAssumption  == NoTenant \notin Tenants
ASSUME StoredAssumption   == StoredAs \in [Columns -> [Values -> Values]]
ASSUME BoundsAssumption    == MaxLog \in Nat /\ MaxWrites \in Nat

VARIABLES
  rows,     \* committed rows of the audited tables, per tenant
  log,      \* committed audit_log rows, per tenant, in the order of seq
  head,     \* committed audit_chain_head row, per tenant
  lock,     \* holder of the row lock on that head row
  tenant,   \* per request: the tenant its transaction is pinned to, if any
  base,     \* per request: the rows in its identity map as last read or written
  cur,      \* the same rows with the changes made in memory
  flushing, \* per request: a flush has begun and its entries are not all appended
  view,     \* per request: the head row as its own transaction has changed it
  entries,  \* per request: audit_log rows inserted and not committed
  writes    \* per request: columns written and not committed

vars == <<rows, log, head, lock, tenant, base, cur, flushing, view, entries, writes>>

sessionVars == <<tenant, base, cur, flushing, view, entries, writes>>
storeVars == <<rows, log, head>>

J == INSTANCE AuditJournal WITH journal <- [t \in Tenants |-> PayloadsOf(log[t])],
                                table   <- rows

NoRow == J!NoRow
Rows == J!Rows
Payloads == J!Payloads
EmptyTable == J!EmptyTable

\* NUMERIC(18, 2) rounds Transaction.amount to cents; every other audited
\* column holds what it is given.
AsStored(row) == J!AsStored(row)

\* A row with some of its columns set: what an UPDATE does to it.
Overlay(set, row) ==
  [c \in DOMAIN set \cup DOMAIN row |-> IF c \in DOMAIN set THEN set[c] ELSE row[c]]

\* Every column has a value: what a session adds, and what it loads.
FullRow == [Columns -> Values]

Heads == [last_seq : Nat, last_hash : Digests(Payloads)]
NoHead == [last_seq |-> 0, last_hash |-> <<>>]

Init ==
  /\ rows = [t \in Tenants |-> EmptyTable]
  /\ log = [t \in Tenants |-> <<>>]
  /\ head = [t \in Tenants |-> [last_seq |-> 0, last_hash |-> genesis_hash(t)]]
  /\ lock = [t \in Tenants |-> NoRequest]
  /\ tenant = [r \in Requests |-> NoTenant]
  /\ base = [r \in Requests |-> EmptyTable]
  /\ cur = [r \in Requests |-> EmptyTable]
  /\ flushing = [r \in Requests |-> FALSE]
  /\ view = [r \in Requests |-> NoHead]
  /\ entries = [r \in Requests |-> <<>>]
  /\ writes = [r \in Requests |-> EmptyTable]

-----------------------------------------------------------------------------
Open(r) == tenant[r] # NoTenant
Working(r) == Open(r) /\ ~flushing[r]

\* session.new and session.dirty
Added(r) == {rec \in Records : base[r][rec] = NoRow /\ cur[r][rec] # NoRow}
Dirty(r) == {rec \in Records : base[r][rec] # NoRow /\ cur[r][rec] # base[r][rec]}
Pending(r) == Added(r) \cup Dirty(r)

\* tenant_session: the transaction begins and is pinned before any query runs.
Begin(r, t) ==
  /\ ~Open(r)
  /\ tenant' = [tenant EXCEPT ![r] = t]
  /\ UNCHANGED <<rows, log, head, lock, base, cur, flushing, view, entries, writes>>

\* Mutated form: the policy of app/db/rls.py is missing on a table.
VisibleWithoutPolicy(r) ==
  [rec \in Records |->
     LET owners == {t \in Tenants : rows[t][rec] # NoRow}
     IN IF owners = {} THEN NoRow ELSE rows[CHOOSE t \in owners : TRUE][rec]]

\* The committed rows the tenant_isolation policy lets the session read.
Visible(r) == rows[tenant[r]]

\* db.get: row level security shows the pinned tenant's rows only, and a row
\* already in the identity map is not read again.
Get(r, rec) ==
  /\ Working(r)
  /\ cur[r][rec] = NoRow
  /\ Visible(r)[rec] # NoRow
  /\ base' = [base EXCEPT ![r][rec] = Visible(r)[rec]]
  /\ cur' = [cur EXCEPT ![r][rec] = Visible(r)[rec]]
  /\ UNCHANGED <<rows, log, head, lock, tenant, flushing, view, entries, writes>>

\* The bounds of the model: sessions make no more changes beyond them.
WithinBounds(r) == /\ Len(entries[r]) + Cardinality(Pending(r)) < MaxWrites
                   /\ head[tenant[r]].last_seq < MaxLog

\* A primary key is a uuid4: no row and no session has it.
Fresh(rec) == /\ \A t \in Tenants : rows[t][rec] = NoRow
              /\ \A q \in Requests : cur[q][rec] = NoRow

\* db.add of a new object.
Add(r, rec, row) ==
  /\ Working(r)
  /\ WithinBounds(r)
  /\ Fresh(rec)
  /\ cur' = [cur EXCEPT ![r][rec] = row]
  /\ UNCHANGED <<rows, log, head, lock, tenant, base, flushing, view, entries, writes>>

\* The service assigns attributes of an object it has loaded.
Assign(r, rec, row) ==
  /\ Working(r)
  /\ WithinBounds(r)
  /\ base[r][rec] # NoRow /\ cur[r][rec] = base[r][rec] /\ row # base[r][rec]
  /\ cur' = [cur EXCEPT ![r][rec] = row]
  /\ UNCHANGED <<rows, log, head, lock, tenant, base, flushing, view, entries, writes>>

\* db.flush, an autoflush before a query, or the flush of COMMIT.
Flush(r) ==
  /\ Working(r)
  /\ Pending(r) # {}
  /\ flushing' = [flushing EXCEPT ![r] = TRUE]
  /\ UNCHANGED <<rows, log, head, lock, tenant, base, cur, view, entries, writes>>

\* The head row as _append_to_chain reads it: the committed one when the row
\* lock is taken, the transaction's own version once it holds the lock.
HeadRead(r) == IF lock[tenant[r]] = r THEN view[r] ELSE head[tenant[r]]

\* Mutated forms: the select loses its with_for_update(); a second select of
\* the same transaction waits for its own lock.
HeadReadable(r) == TRUE
HeadLockableOnce(r) == lock[tenant[r]] = NoRequest

\* SELECT ... FOR UPDATE returns.
HeadLockable(r) == lock[tenant[r]] \in {NoRequest, r}

\* _diff: the columns whose value differs from the one this session loaded.
ChangedColumns(r, rec) == {c \in DOMAIN cur[r][rec] : cur[r][rec][c] # base[r][rec][c]}

\* What is hashed for one object, before its row is written: the values the
\* session holds, which the columns have not rounded yet.  None is NoRow.
PayloadFor(r, rec) ==
  IF rec \in Added(r)
  THEN [tenant |-> tenant[r], action |-> "INSERT", record |-> rec,
        old |-> NoRow, new |-> cur[r][rec]]
  ELSE [tenant |-> tenant[r], action |-> "UPDATE", record |-> rec,
        old |-> [c \in ChangedColumns(r, rec) |-> base[r][rec][c]],
        new |-> [c \in ChangedColumns(r, rec) |-> cur[r][rec][c]]]

\* The order of the loops of capture_audit_entries: new objects, then dirty ones.
NextInFlush(r, rec) == rec \in Added(r) \/ (rec \in Dirty(r) /\ Added(r) = {})

\* Mutated form: the UPDATE writes every column of the loaded object.
WrittenWhole(r, rec) == AsStored(cur[r][rec])

\* The INSERT or UPDATE of the row names the changed columns only, which store
\* the values in their own precision; the refresh that follows reads the row
\* back as this transaction sees it, rounded amounts included.
Written(r, rec) == Overlay(AsStored(PayloadFor(r, rec).new), writes[r][rec])
Refreshed(r, rec) == Overlay(Written(r, rec), rows[tenant[r]][rec])

\* One call of _append_to_chain with the row it stands for; after the last
\* object of the flush the session goes back to the handler.
AppendToChain(r, rec) ==
  /\ flushing[r]
  /\ NextInFlush(r, rec)
  /\ HeadLockable(r)
  /\ LET e == NewEntry(HeadRead(r), PayloadFor(r, rec))
     IN /\ entries' = [entries EXCEPT ![r] = Append(@, e)]
        /\ view' = [view EXCEPT ![r] = HeadAfter(HeadRead(r), e)]
  /\ lock' = [lock EXCEPT ![tenant[r]] = r]
  /\ writes' = [writes EXCEPT ![r][rec] = Written(r, rec)]
  /\ base' = [base EXCEPT ![r][rec] = Refreshed(r, rec)]
  /\ cur' = [cur EXCEPT ![r][rec] = Refreshed(r, rec)]
  /\ flushing' = [flushing EXCEPT ![r] = Pending(r) # {rec}]
  /\ UNCHANGED <<rows, log, head, tenant>>

\* The session is closed and its connection goes back to the pool.
Close(r) ==
  /\ tenant' = [tenant EXCEPT ![r] = NoTenant]
  /\ base' = [base EXCEPT ![r] = EmptyTable]
  /\ cur' = [cur EXCEPT ![r] = EmptyTable]
  /\ flushing' = [flushing EXCEPT ![r] = FALSE]
  /\ view' = [view EXCEPT ![r] = NoHead]
  /\ entries' = [entries EXCEPT ![r] = <<>>]
  /\ writes' = [writes EXCEPT ![r] = EmptyTable]

\* The end of the transaction releases the row locks it holds.
Released(r) == [t \in Tenants |-> IF lock[t] = r THEN NoRequest ELSE lock[t]]

\* Mutated forms: the log is committed and the rows are not; the head row is
\* not advanced.
RowsNotCommitted(r) == rows[tenant[r]]
HeadRowKept(r) == head[tenant[r]]

RowsAfter(r) == [rec \in Records |-> Overlay(writes[r][rec], rows[tenant[r]][rec])]
HeadRowAfter(r) == IF entries[r] = <<>> THEN head[tenant[r]] ELSE view[r]

\* db.begin() exits normally: COMMIT.
Commit(r) ==
  /\ Working(r)
  /\ Pending(r) = {}
  /\ log' = [log EXCEPT ![tenant[r]] = @ \o entries[r]]
  /\ head' = [head EXCEPT ![tenant[r]] = HeadRowAfter(r)]
  /\ rows' = [rows EXCEPT ![tenant[r]] = RowsAfter(r)]
  /\ lock' = Released(r)
  /\ Close(r)

\* db.begin() exits with an exception, or the connection is gone.
Rollback(r) ==
  /\ Open(r)
  /\ lock' = Released(r)
  /\ Close(r)
  /\ UNCHANGED storeVars

Step(r) ==
  \/ \E t \in Tenants : Begin(r, t)
  \/ \E rec \in Records : Get(r, rec)
  \/ \E rec \in Records, row \in FullRow : Add(r, rec, row)
  \/ \E rec \in Records, row \in FullRow : Assign(r, rec, row)
  \/ Flush(r)
  \/ \E rec \in Records : AppendToChain(r, rec)
  \/ Commit(r)
  \/ Rollback(r)

Next == \E r \in Requests : Step(r)

Spec == Init /\ [][Next]_vars

\* A handler that has begun runs to its end: it flushes what it changed and
\* commits.  It need not load, change or begin anything, and nobody has to
\* fail.  PostgreSQL queues the waiters of a row lock, so one that is able to
\* take the lock again and again does get it: strong fairness.
Fairness ==
  \A r \in Requests :
    /\ WF_vars(Flush(r))
    /\ SF_vars(\E rec \in Records : AppendToChain(r, rec))
    /\ WF_vars(Commit(r))

FairSpec == Spec /\ Fairness

-----------------------------------------------------------------------------
\* Types of the variables.
TypeOK ==
  /\ rows \in [Tenants -> [Records -> Rows]]
  /\ log \in [Tenants -> Seq(Entries(Payloads))]
  /\ head \in [Tenants -> Heads]
  /\ lock \in [Tenants -> Requests \cup {NoRequest}]
  /\ tenant \in [Requests -> Tenants \cup {NoTenant}]
  /\ base \in [Requests -> [Records -> Rows]]
  /\ cur \in [Requests -> [Records -> Rows]]
  /\ flushing \in [Requests -> BOOLEAN]
  /\ view \in [Requests -> Heads \cup {NoHead}]
  /\ entries \in [Requests -> Seq(Entries(Payloads))]
  /\ writes \in [Requests -> [Records -> Rows]]

\* The committed chain of every tenant is numbered without gaps, linked from
\* its genesis digest, and its head row describes its last row: what
\* verify_chain expects to find, whatever sessions interleaved to build it.
ChainIntact ==
  \A t \in Tenants : Chained(t, log[t]) /\ HeadMatches(t, log[t], head[t])

\* Entries that are not committed yet continue the committed chain of their
\* tenant, so no two sessions ever build on the same head row and the unique
\* index on (tenant_id, seq) never refuses an insert.
InFlightChained ==
  \A r \in Requests : entries[r] # <<>> =>
    LET t == tenant[r]
    IN /\ Chained(t, log[t] \o entries[r])
       /\ HeadMatches(t, log[t] \o entries[r], view[r])

\* Who holds a head row: a session with entries, and only on its own tenant.
LockHeldByWriter ==
  \A r \in Requests :
    /\ ~Open(r) => /\ ~flushing[r] /\ entries[r] = <<>>
                   /\ base[r] = EmptyTable /\ cur[r] = EmptyTable /\ writes[r] = EmptyTable
    /\ entries[r] # <<>> => lock[tenant[r]] = r
    /\ \A t \in Tenants : lock[t] = r => tenant[r] = t /\ entries[r] # <<>>

\* Rows are whole or absent, in the tables and in the sessions; a session that
\* writes some columns of a row does so on a row that exists or that it inserts.
RowsWhole ==
  /\ \A t \in Tenants, rec \in Records : rows[t][rec] \in FullRow \cup {NoRow}
  /\ \A r \in Requests, rec \in Records :
       /\ base[r][rec] \in FullRow \cup {NoRow}
       /\ cur[r][rec] \in FullRow \cup {NoRow}
       /\ base[r][rec] # NoRow => cur[r][rec] # NoRow
       /\ Open(r) => \/ base[r][rec] = NoRow /\ writes[r][rec] = NoRow
                     \/ writes[r][rec] \in FullRow
                     \/ rows[tenant[r]][rec] \in FullRow

\* The inductive invariant behind ChainIntact and InFlightChained: the chain
\* continues across sessions because the lock ties an uncommitted chain to the
\* committed one it was built on.
ChainInv == TypeOK /\ LockHeldByWriter /\ RowsWhole /\ ChainIntact /\ InFlightChained

\* Replaying the new_values of a tenant's log, each as its column stores it,
\* yields exactly its audited rows: no committed write is missing from the log,
\* no logged write from the rows, also when sessions wrote from rows that were
\* stale when they flushed.  Row and log differ by the column's rounding of an
\* amount and by nothing else.
LogExplainsRows ==
  \A t \in Tenants : rows[t] = J!Replay(EmptyTable, PayloadsOf(log[t]))

\* The log implements the journal: it grows by whole batches of one tenant
\* while the rows change by what the batch says, as the columns store it, and
\* by nothing else (COMMIT is atomic and a rollback leaves nothing behind).
ImplementsJournal == J!JSpec

\* A session of one tenant never holds a row of another, so no tenant's log
\* ever describes another tenant's record.
TenantIsolation ==
  /\ \A r \in Requests, rec \in Records, t \in Tenants :
       cur[r][rec] # NoRow /\ rows[t][rec] # NoRow => t = tenant[r]
  /\ \A t \in Tenants : \A i \in DOMAIN log[t] :
       \A u \in Tenants \ {t} : rows[u][log[t][i].payload.record] = NoRow

\* Every request ends: a flush that waits for the head row gets it, because
\* whoever holds it commits or rolls back without waiting for anything else.
EveryRequestEnds == \A r \in Requests : Open(r) ~> ~Open(r)
=============================================================================

# RegTech platform: specifications, model checking and proofs

This directory holds TLA+ specifications of the RegTech platform: the
multi-tenant, audited unit of work that every request runs in, the verifier of
the audit chain, the case queue with regulatory reporting, transaction
monitoring, the checks made of customers, the keys that let requests in, the
threads and connections requests share, and the dashboard. TLC checks them on
small instances; for instances of any size TLAPS proves every safety property
that the passing runs check. Liveness is TLC's alone.

## 1. Inventory of the system

The platform is a FastAPI application over PostgreSQL 16 (READ COMMITTED, the
default), with an admin command line (`app/cli.py`) and a React dashboard. All
route handlers are synchronous and run in worker threads, one database
transaction per request.

| part | state | operations | interacts with |
|---|---|---|---|
| unit of work `app/db/session.py`, `api/deps.py` | session: identity map, pinned tenant, open transaction | begin and pin, commit, roll back, close | every service; PostgreSQL; the pool |
| row level security `app/db/rls.py`, migrations | policies on each tenant table | filter reads and writes by `app.current_tenant` | unit of work |
| audit trail `app/db/audit.py` | `audit_log`, one `audit_chain_head` row per tenant | `capture_audit_entries` at every flush, `_append_to_chain` under `FOR UPDATE` | every audited model, through the flush event |
| chain verification `verify_chain`, `cli verify-chain` | none (two reads) | walk the rows, compare the tip | audit tables |
| case workflow `case_service.py`, `routes/cases.py` | `cases`, `case_notes` | open (by hand or automatically), update, add note, list | audit trail, monitoring, screening, reporting |
| regulatory reporting `report_service.py` | `reports`; the regulator's records | build payload, submit, insert | case workflow, regulator provider |
| transaction monitoring `transaction_service.py`, `monitoring/` | `transactions`, `transaction_alerts` | record, evaluate three rules, raise alerts, open cases | case workflow, audit trail |
| sanctions screening `sanctions_service.py`, `watchlist/` | `sanctions_screenings` | screen a name, insert, open a case on a hit | watchlist provider, case workflow |
| identity verification `identity_service.py`, `identity/` | `identity_verifications` | verify, insert | identity provider |
| customers `customer_service.py` | `customers` | create, read | all customer routes |
| API keys `api_key_service.py`, `deps.get_current_tenant` | `api_keys` | create, revoke, authenticate | every request, command line |
| provisioning `cli create-tenant` | `tenants`, genesis head rows | create | audit trail |
| connection pool, thread pool `db/session.py`, `api/deps.py` | connections with their tenant setting, threads | check out, pin, return, time out | every request |
| dashboard `frontend/src` | page state, stored key, requests in flight | connect, load, filter, save, annotate, report | HTTP API |

### What is hard, and what makes each part correct

* **Audit trail.** Requests of one tenant flush concurrently; each flush reads
  the head row under a row lock, appends one entry per object, and the lock is
  held to the end of the transaction. Several entries of one flush, and several
  flushes of one transaction, chain through the head object in memory. Sessions
  load rows *before* they wait for the lock, so what they write may be based on
  stale rows. Correct means: the committed chain is always gapless and linked
  and its head row describes its tip; uncommitted entries always continue it;
  replaying the log, each logged value as its column stores it, gives exactly
  the audited rows; rows, log and head become visible together or not at all; a
  waiter gets the lock in the end; no tenant sees or records another tenant's
  rows.
* **Chain verification.** It reads rows and head at two moments, without a
  lock, while requests commit. Correct means: altered rows never pass, the row
  named is the first altered one, and an unaltered row is never blamed. That an
  unaltered log never fails is *not* true (section 5).
* **Case workflow.** Decisions are taken on a row loaded without a lock; the
  database merges the changed columns of concurrent updates. Correct means: a
  resolved case has a resolution and a resolution time, neither is lost to a
  stale write, the trigger and the customer of a case never change.
* **Regulatory reporting.** The submission happens before the row is inserted,
  in a transaction that may fail. Correct means: every row that says
  "submitted" has its own submission with the same content, and the content is
  a committed, resolved and confirmed version of the case.
* **Transaction monitoring.** `created_at` is the time the database transaction
  began, the rows a rule sees depend on commit order. Correct means: alerts are
  those of an evaluation in commit order, a large payment always has an alert
  and a case, and transactions, alerts and cases appear together.
* **Keys and provisioning.** A request looks its key up in one session and works
  in another; commands create tenants and keys and revoke keys meanwhile, each
  in a transaction that may be killed. Correct means: whoever is let in has a
  chain head to record work in, and records it for the tenant and under the key
  that was presented; a key that was shown is stored; once a key is revoked
  only the requests that were let in before still finish, and no other gets in.
* **Customers and their checks.** The customer is looked up through the tenant
  policy, but the foreign keys of screenings, verifications and cases would
  accept any customer; the record and the case it opens are two flushes of one
  transaction; threshold and pepper change between deployments while the
  records stay. Correct means: checks and cases belong to the owner of the
  customer; a potential match has its one case and nothing else has one; a
  verdict can be reproduced from its own row, at the boundary of the rounding
  too; verifications with the same hash of the same type agree.
* **Pool and threads.** A request uses two sessions and several worker threads
  one after the other; while it waits for a chain head it keeps a thread and a
  connection, and the holder of that head needs a thread to go on. Correct
  means: nothing leaks on any way a request ends, no connection goes back with
  the tenant of its last request, and every request ends.
* **Dashboard.** Requests are answered in any order, also after the filter or
  the case in the URL has changed. Correct means: the queue shows the answer to
  the current filter; a write goes to the case whose answer filled the form; no
  handler of a page runs twice at once as long as the page stays mounted, and a
  button that was disabled is enabled again; a key is stored only after the API
  accepted that very key.

## 2. Modules

| module | models | kind |
|---|---|---|
| `HashChain` | `genesis_hash`, the entry and head computed by `_append_to_chain`, the walk of `verify_chain` | operators |
| `AuditJournal` | what the trail promises: a journal per tenant growing by whole batches, tables changing by what their columns store of the batch | abstract specification |
| `AuditLog` | `tenant_session`, the identity map, `capture_audit_entries`, `_append_to_chain`, commit and rollback | implements `AuditJournal` |
| `AuditLogProofs` | theorems about `AuditLog` and `HashChain` | proofs |
| `ChainVerifier` | `verify_chain` as the command line runs it, next to `AuditLog` and to alterations in the database | composition |
| `ChainVerifierProofs` | theorems about `ChainVerifier` | proofs |
| `CaseLifecycle` | what the case queue promises about one case and its reports | abstract specification |
| `CaseWorkflow` | `case_service`, `report_service` and their routes by concurrent requests | implements `CaseLifecycle` |
| `CaseWorkflowProofs` | theorems about `CaseWorkflow` | proofs |
| `MonitoringRules` | the three rules and the engine | operators |
| `TransactionMonitoring` | `record_transaction` by concurrent requests | state machine |
| `TransactionMonitoringProofs` | theorems about `TransactionMonitoring` | proofs |
| `TenantAccess` | `create-tenant`, `create-api-key`, `revoke-api-key`, `get_current_tenant` | state machine |
| `TenantAccessProofs` | theorems about `TenantAccess` | proofs |
| `CustomerChecks` | `customer_service`, `sanctions_service`, `identity_service`, the mock providers and the automatic case | state machine |
| `CustomerChecksProofs` | theorems about `CustomerChecks` | proofs |
| `RequestPool` | threads, connections and chain heads as requests use them | state machine |
| `RequestPoolProofs` | theorems about `RequestPool` | proofs |
| `Dashboard` | connect screen, case queue and case page of one tab | state machine |
| `DashboardProofs` | theorems about `Dashboard` | proofs |
| `MCAuditLog`, `MCChainVerifier`, `MCCaseWorkflow`, `MCTransactionMonitoring`, `MCTenantAccess`, `MCCustomerChecks`, `MCRequestPool`, `MCDashboard` | model values, symmetry sets and function constants for TLC | instances |

### How state and actions correspond to the code

**AuditLog.** `rows`, `log` and `head` are the committed tables; `lock` is the
holder of the row lock on a head row. Per request, `tenant` is the pinned
setting (`NoTenant`: no transaction is open), `base` the values the identity
map loaded and `cur` the values in memory (a difference is an object in
`session.new` or `session.dirty`), `flushing` says that `before_flush` is
between two objects, `view` is the head object, `entries` and `writes` are what
the transaction has inserted and not committed. `Begin`, `Get`, `Add`,
`Assign`, `Commit` and `Rollback` are the unit of work. `Flush` starts the
listener and each `AppendToChain` is one call of `_append_to_chain` with the
statement that writes the row: it waits for the head row, diffs the object
against what was *loaded*, hashes, and moves the head in memory. What is hashed
and logged is the value the session holds (`PayloadFor`; `audit.py:69-71`, `165`),
*before* the statement that writes the row: `Transaction.amount` is logged as
the client sent it, 4999999.999 say, and NUMERIC(18, 2) (`models/transaction.py:17`)
then stores 5000000.00. `StoredAs` says per column what it holds of a value,
`Written` writes that and `Refreshed` reads it back into the session. So log and
rows agree up to this rounding, which is what `LogExplainsRows` and the journal
say; they do not say that a row can be compared with its entry literally.
`Rollback`
stands for every way a request fails, a crash of the process included, because
PostgreSQL ends the transaction the same way.

A digest is represented by what it hashes (`HashChain`): the tenant and the
payloads folded in so far. That takes SHA-256 to be collision free, and keeps
what the chain is for: two digests are equal only if their histories are.

**ChainVerifier** adds verifiers that read the rows (`ReadRows`) and later the
head (`ReadHead`), and the alterations that `scripts/smoke_test.py` step 7 and
the message of `verify_chain` talk about: a rewritten row (`Alter`) and a
deleted tail (`DropTail`). `recorded` is a history variable, what the
application committed.

**CaseWorkflow** takes the audit trail's effect on scheduling for granted: a
request decides on the row as committed at its load (`UpdateCase`,
`CreateCase`, `AddNote`, `GenerateReport`), its `Flush` waits for the chain
head, held until `Commit` or `Rollback`. `job` is the decision the request
carries; for an update it is the SET clause, i.e. the columns whose value
differs from the loaded row, which is all the UPDATE names. `Submit` is the
call of the regulator; its outcome is a free choice. `confirmed` is a history
variable.

**TransactionMonitoring** has the same scheduling. `created_at` is read at
`Begin`, `Insert` is the first flush (it waits for the chain head), `Evaluate`
the rules with the alerts and automatic cases, then `Commit` or `Rollback`.
Amounts are tenths of a cent; `Stored` is the rounding of the NUMERIC(18, 2)
column, which the rules see.

**TenantAccess.** `tenants`, `heads` and `keys` are committed rows, `printed` the
raw keys an operator has seen. A command flushes (`CreateTenant`,
`CreateApiKey`, `RevokeApiKey`), commits (`CommitCommand`) and, for a new key,
prints it (`PrintKey`); `Abort` ends it anywhere. A request presents a raw key,
is looked up (`Authenticate`, its own session), works in the transaction of
`get_db` and commits. What the transaction does inside is `AuditLog`'s matter;
here it is one entry of the history variable `work`.

**CustomerChecks.** `customers`, `checks` and `cases` are the committed rows;
`job` is what a request is going to commit. `CreateCustomer`, `ScreenCustomer`
and `VerifyIdentity` are the handlers up to their first flush: the lookup
(`Found`, the policy), the provider (`Screened`, `Verified`), the record.
`Insert` is that flush, which waits for the chain head; a potential match goes
on to `OpenCase`, everything else to `Commit`. `Redeploy` restarts the
processes with another threshold or pepper. A similarity is a number of
hundredths of a percent, `Rounded` is Python's `round(..., 1)` away from exact
ties, an HMAC is the pair of its key and its message.

**RequestPool.** `stage` is the next function of a request, `thread` the requests
in a worker thread, `conn` and `setting` the connections with their
`app.current_tenant`, `writer` the holders of the chain heads. `Connect` is the
first statement of a session, `Authenticated` the lookup and the close of its
session, `Entered` the pin, `Handle` and `Flush` the handler, `Respond` the
validation of the response, `Exit` the end of the transaction. `PoolTimeout` is
the `TimeoutError` of the pool. It is the composition of what `TenantAccess` and
`AuditLog` say of one request with what requests compete for.

**Dashboard.** `url`, `connect`, `list` and `page` are the states of router and
components, `calls` the requests in flight with the effect or handler that
awaits each. `Remount` is what unmounting does: the state of the old component
is gone, its busy flags included, but the browser aborts no request. Reads of
the old component are dropped, since their answers change nothing; its writes
stay in flight (`LeftBehind`), reach the API whenever they do and are answered to
nobody (`AnswerLeft`), next to whatever the user sends from the page that is
mounted by then. The case page is *not* unmounted between two cases
(`GoToCase`), which is where answers may arrive out of order. `ChangeFilter` sets
`cancelled` in the closures of earlier effects, as the cleanup does.

## 3. Runs

Every run is exhaustive within its bounds. Numbers are distinct states.

| run | instance | states | question |
|---|---|---|---|
| `audit_log` | 1 tenant, 2 requests, 2 records, 2 columns, 2 values, `MaxLog` 2, `MaxWrites` 2; one column rounds | 63k | Do chain, head, rows and journal agree whatever interleaves? |
| `audit_tenants` | 2 tenants, 2 requests, 2 records, 1 column, `MaxLog` 1, fairness | 7k | Are tenants apart, and does every request end? |
| `chain_verifier` | 1 writer, 1 verifier, 2 alterations | 11k | What do the verdicts of `verify_chain` mean? |
| `chain_false_alarm` | 1 writer, 1 verifier, no alteration | violation | Can an unaltered log be reported? Yes. |
| `case_workflow` | 1 case, 2 requests, 2 report attempts, 1 note | 502k | Does the queue implement the lifecycle? |
| `case_unrecorded` | 1 case, 2 requests, 1 report attempt | violation | Does every accepted submission have a row? No. |
| `monitoring` | 2 customers, 2 currencies, 3 payments, 2 requests | 206k | Are alerts those of commit order, and all-or-nothing? |
| `tenant_access` | 2 tenants, 2 keys, 2 commands, 2 requests, fairness | 191k | Who gets in with which key, and until when? |
| `customer_checks` | 2 tenants, 2 customers, 2 checks, 2 requests, 2 thresholds, 2 peppers | 468k | Whose are the checks, and do verdict, hash and case agree? |
| `request_pool` | 3 requests, 2 threads, 2 connections, 2 tenants, fairness | 22k | Does anything leak, or wait for ever? |
| `dashboard` | 2 keys, 2 filters, 2 cases, 2 requests in flight, fairness | 68k | Do late answers do any harm? |
| `structuring` | 3 payments, 3 requests | violation | Is structuring within the window always flagged? No. |

**Bounds, and why they are enough.** `MaxLog` stops sessions from changing
rows once the chain is that long, `MaxWrites` bounds the entries of one
request; with two of each, one request appends two entries in one flush or in
two flushes while another has loaded the same rows, waits for the same head, or
rolls back. Two columns are what it takes for two stale updates to merge, and one of
them rounds one value to the other, so that entry and row differ; two
records, for two objects in one flush. A third request adds only more waiters.
`MaxAlterations` 2 allows two rewritten rows, a rewritten row with a shortened
tail, and an alteration between the two reads. `MaxReports` 2 makes two report
attempts race, `MaxNotes` 1 lets a note hold the lock. The amounts of
`monitoring` round to, below and above every threshold, the clock (`MaxClock` 2)
runs past the window. In `tenant_access` two commands overlap, two keys suffice
to mix them up, and one request can be let in before a revocation while another
is not. In `customer_checks` one score is rounded up onto a threshold and
another lies just below it, two identifiers share their last four digits, and
both tenants have a customer while the configuration changes between two
checks. In `request_pool` one request can wait for a thread while it holds a
chain head, one for that head and one for a connection; two threads and two
connections are the smallest sizes in the proportion of the real ones (15
connections, 40 threads). Two requests in flight in `dashboard` are an older and
a newer answer, or a report that an earlier visit left behind and the one sent
from the page after the return; the slots are a bound on what people do at once,
nothing waits for one. Symmetry is used for identifiers that are only compared for equality,
and in no run with a liveness property; columns and values, which the rounding
tells apart, are not permuted. Deadlock checking is off in
`monitoring`, `structuring` and `customer_checks` only: clients stop when every
id has been used.

**Fairness.** Four runs need some. In `audit_tenants` a handler that has
begun runs to its end (weak fairness of `Flush` and `Commit`): nothing in the
handlers waits for anything but the database. `AppendToChain` gets strong fairness because the
head row is taken and released again and again while a request waits;
PostgreSQL queues the waiters of a row lock, so each gets its turn. Nothing is
assumed about `Begin`, the handlers' choices or failures. In `tenant_access` a
request that has presented a key is answered and, if it is let in, ends (weak
fairness of `Authenticate` and `Commit`); that commands are ever run, or finish,
is not assumed. In `request_pool` what has begun goes on (weak fairness of the
functions of a request); threads and row locks are queues, so each waiter gets
its turn (strong fairness of `TakeThread` and `Flush`); a waiter for a connection
gets one *or the timeout*, which is all that `QueuePool` guarantees. In
`dashboard` the requests of a handler are answered or fail (weak fairness);
nobody has to click or navigate.

**Properties.** Each passing property has a mutated definition that breaks it
(the operators commented "Mutated form"), each the way a slip in that code
would: the lock left out of the select, the head not advanced, the UPDATE
writing the whole row, a comparison with the wrong sign.

## 4. Proofs

`AuditLogProofs` proves for any number of tenants, requests, records, columns,
values and any bounds:

* `TypeCorrect`: `Spec => []TypeOK`;
* `ChainAlwaysIntact`: the committed chain of every tenant is numbered from 1
  without gaps, linked from its genesis digest, and described by its head row;
* `InFlightAlwaysChained`: uncommitted entries continue the chain *as committed
  at that moment*, so two sessions never build on the same head row and the
  unique index on `(tenant_id, seq)` never refuses an insert;
* `QuietVerificationPasses`: `verify_chain` accepts every reachable chain that
  does not move between its two reads;
* `AlteredRowsFail`: rewriting the content of any rows of a chain makes exactly
  those rows fail the walk.

Neither chain property is inductive alone. `ChainIntact` survives a commit only
if the entries committed continue the chain, which is `InFlightChained`; that in
turn survives *another* request's commit only because a request with entries
holds the lock of its tenant's head row (`LockHeldByWriter`), so nobody else
with entries can commit to that chain; and the diff written by an UPDATE has the
right type only because rows are whole in tables and sessions (`RowsWhole`). The
conjunction of the five, `ChainInv`, is the inductive invariant; TLC checks it
too. The proof has one lemma per action; the sequence lemmas (chaining is
preserved by `Append` and depends on the entries only) are stated first. The
assumptions are the named ones of `AuditLog`: two absent markers are no members
of the sets they are added to, the bounds are naturals, and what a column stores
of a value is a value (`StoredAssumption`; no more is asked of the rounding, it
need not even be idempotent).

Two more invariants stand on `ChainInv`:

* `JournalInv` gives `LogAlwaysExplainsRows` and `JournalImplemented`, the
  refinement of `AuditJournal`. What is committed is explained by the log only if
  what a session has written and not committed is what the columns store of its
  uncommitted entries (`WritesLogged`), since COMMIT overlays the one and appends
  the other; and a batch is one tenant's only because entries name the tenant of their
  session (`EntriesOfTenant`). `Replay` sets each column to its *last* setting, so
  its lemmas (`ReplayAppend`, `ReplayOverlay`, `ReplayConcat`) argue about greatest
  positions and need no induction. `ReplayConcat` (replaying two batches one after
  the other is replaying their concatenation) is the induction step of the log
  against the rows. A COMMIT with entries then is `Record`, every other step
  leaves the journal alone.
* `IsolationInv` gives `TenantsAlwaysIsolated`. `TenantIsolation` is not inductive: a
  session of one tenant might have added, and not yet committed, a record that a
  session of another tenant holds. `RecordsApart` says that all sessions and
  tables together have a record under one tenant only, `LoggedHeld` that whatever
  is logged is about a row that exists, or that the logging session has written.

`ChainVerifierProofs` proves `BlamedRowsAreAltered`, `AlteredNeverValid` and
`FirstAlteredAlwaysNamed` for any number of writers, verifiers and alterations.
No session reads `audit_log`, so the application runs over `recorded` as it does
over `log`: `R == INSTANCE AuditLogProofs WITH log <- recorded`, every step of the
application is a step of that copy (`ApplicationEffect`), and alterations and
verifiers are stutters of it. So `R!ChainInv` says that the recorded chain stays
intact. `VerifierInv` adds what alterations leave of it (`DerivedFrom`: rows keep
their `seq` and hashes, no more are missing than were deleted) and what follows
from the rows a verifier has read (`Sound`). From there:

* rows that pass the walk are the recorded ones, a prefix at least
  (`CheckedRowsRecorded`): a digest says how many payloads it stands for, so a row
  whose digest is the recomputed one is at its recorded position, and what it
  hashes is what was recorded there;
* a shortened log that passes the walk has a tip that stands for fewer rows than
  were recorded when it was read, while the head, although it is read later, never
  stands for fewer: recorded chains only grow. Hence no cut tail is valid;
* with no row missing, the rows that fail the walk are exactly the rewritten
  ones, and the walk stops at the least.

`FalseAlarmsOnlyInTraffic` bounds the first finding of section 5: rows that
nobody had altered are reported only when the recorded chain has grown since
they were read. It is proved of `AlarmInv`, which adds that what was recorded at
the first read begins what is recorded now.

`TenantAccessProofs` proves of `TenantAccess`, likewise for any number of
tenants, keys, commands and requests, its types and `AuthenticatedCanRecord`,
`WorkByOwnKey`, `PrintedKeysStored` and `RevocationEndsAccess`. The inductive
invariant is `AccessInv`. Its pivot is that a stored key is never stored again
(`FreshKeysUnstored`: an uncommitted key is stored nowhere and held by no other
command); otherwise an overlapping `create-api-key` could clear a revocation or
move a key to another tenant. `RevocationEndsAccess` follows step by step: no
`COMMIT` clears a revocation (`RevocationsStay`), and only `Authenticate`, which
wants a row that is not revoked, lets a request in (`RequestSteps`). The only
assumption is that the absent marker is no tenant and no key.

`CaseWorkflowProofs` proves, for any cases, requests and bounds,
`ResolvedHasResolution`, `FiledReportsWereSubmitted` and the refinement
`ImplementsLifecycle`. An update is checked against the row its request loaded;
the invariant `CaseInv` says what survives the commits of others: no SET clause
takes a resolution or a resolution time away, and one that sets the status to
resolved brings the time along, and the resolution unless the row has one
(`ResolvesFully`). A report's payload is among the versions that were committed
as confirmed from the moment it is built. Every `COMMIT` then is a step of
`CaseLifecycle`, every other action a stutter. `FiledReportsWereSubmitted` counts
(`Covered`): per payload, the filed rows and the requests that may still file
one are no more than the accepted submissions. The assumptions are that the
absent markers differ from what they stand in for (`AbsentAssumption`), and
`SourceAssumption`.

`TransactionMonitoringProofs` proves `EvaluatedInCommitOrder`,
`LargeAlwaysEscalated` and `AllOrNothing` for any thresholds, ids and requests,
whatever sum the velocity rule compares. `MonitoringInv` rests on `WriterHolds`: a request
that has inserted holds the chain head, so nothing is committed between its
evaluation and its own `COMMIT`, and what the rules saw (`EvaluationsStand`) is
what is committed then. `StructuringMissedOnlyOutOfOrder` bounds the third finding of
section 5: a payment has the structuring alert exactly if the rows in its window
call for one, unless one of those rows was committed after it. It needs that the
sum of the rule depends on the counted rows only (`VelocityAgrees`), which follows
from the equation `MapThenSumSet` chooses its function by, without induction.
Assumptions: `IdsAssumption`, `FloorAssumption`,
`NoRequestAssumption`, `ClockAssumption`.

`RequestPoolProofs` proves `NothingLeaks`, `PinnedToOwnTenant` and
`ThreadBeyondLocks` for any number of requests, tenants and connections, and any
number of threads at least that of the connections (`SizesAssumption`). The
inductive invariant `PoolInv` adds to types and properties that connections and
threads belong to the stages that use them, and that a chain head is held only by
a request past its flush. `ThreadBeyondLocks` counts: holder and waiters
of a head have connections of their own, so the waiters are fewer than the
connections, hence than the threads. `PoolNeverGridlocked` counts for all tenants
at once: were every thread waiting for some head and no open request able to go
on, the holder of one of those heads would be one transaction more than there
are connections. `MayProceed` states the guards; that they are exactly `ENABLED` of
the request's actions, and that without the pool timeout requests do lock up,
TLC confirms on the instance of `request_pool`.

`DashboardProofs` proves `StoredKeyAccepted`, `ListAnswersFilter`,
`OneAtATimeWhileMounted` and `WritesFollowAnswers` for any keys, filters, cases and
slots. The inductive invariant `DashboardInv` says which requests a screen may be
waiting for, that the requests of earlier filters are cancelled and at most one
is not, that a handler of the mounted page with a request in flight has its
button disabled, and that form and shown case are the same. Writes that an
unmounted page has left behind are tied to none of this (`LeftCall`): any
number of them may be in flight. The step property follows from the last part.

`CustomerChecksProofs` proves `ChecksOfOwnCustomers`, `MatchesEscalated`,
`VerdictReproducible` and `RepeatsAgree` for any names, entries, thresholds and
identifiers. The inductive invariant `ChecksInv` says of uncommitted jobs what
the properties say of rows: their ids are fresh, their customers committed and
of their tenant, their opened case that of their own row. That the best score
of a screening exists is proved from the well-foundedness of the naturals; the
assumptions are the named ones of `CustomerChecks`, of which `NamesAssumption`
bounds similarities by 100 % and `IdentifiersAssumption` keeps the reserved
identifiers apart.

That a set of positions has a least and a greatest member is derived once, from
the well-foundedness of the naturals (`LeastNatural`, `LastOfSettings`): the
provers cannot instantiate the library's induction theorems.

`FalseAlarmsOnlyInTraffic`, `PoolNeverGridlocked` and
`StructuringMissedOnlyOutOfOrder` state predicates that no run lists; TLC agrees with
them on the instances of `chain_verifier`, `request_pool`, `monitoring` and
`structuring`.

Model-checked only: `EveryRequestEnds`, `RevokedOutOfUse`, `RequestsEnd` and
`BusyEnds`. They are liveness properties, and fairness and `ENABLED` are beyond the
prover. The properties of the three runs that expect a violation do not hold.
Nothing is proved about what the operators compute where the models leave data
abstract (hashes, similarities, formatting).

## 5. Where the code does something else than it says

* **Verification next to traffic** (`audit.py:225`, run `chain_false_alarm`). A
  commit between the two reads makes the tip differ from the rows that were
  read, and the command prints "FAIL: tampering detected" for a sound log.
  Nothing but such a commit does this (`FalseAlarmsOnlyInTraffic`).
* **Unrecorded submissions** (`report_service.py:35`, run `case_unrecorded`).
  The submission precedes the row and is not undone by a rollback.
* **Structuring out of order** (`velocity.py:38`, run `structuring`). Payments
  are stamped when their transactions begin and evaluated in the order of the
  chain lock; the last stamped may be evaluated first, too early to see the
  others, which in turn leave it out of their windows.
  Only a payment so overtaken lacks its alert (`StructuringMissedOnlyOutOfOrder`).

Hazards that contradict no document, and so have no run: the old value in a
diff is the one the session loaded, not always the one the log recorded last
(`audit.py:98`); a report may be committed after its case was reopened, because
the guard looks at a row that nobody locks (`report_service.py:31`); a changed
pepper makes repeats of earlier identifiers unrecognisable; the log holds an
amount before its column rounds it (`audit.py:165`); one failed reload hides a
case page until it is left; leaving a case page while its report is in flight
and coming back allows a second report (`CaseDetailPage.tsx:119`); a tab goes on with the key of another
tab (`client.ts:44`).

## 6. Not modelled, and why

* **Database migrations**: run once, before any process; the constraints, the
  triggers and the policies they create are used in the models that depend on
  them.
* **Configuration and provider factories**: constants and wiring without state;
  what is configured is a CONSTANT or, where it changes between deployments, a
  variable of `CustomerChecks`.
* Reads and lists (no state); formatting, JSON and hashing details (represented
  by what they distinguish); name similarity of the mock watchlist and the fake
  profiles of the mock identity provider (data); `actor_id`, `actor_type` and
  `occurred_at` of entries (neither hashed nor verified by the code);
  `resolution_notes` (handled exactly like `assigned_to`); deletion of audited
  objects (no code path deletes one); what the sections of a case page show and
  what is typed in its forms.
* Whether a response leaves before or after its COMMIT depends on the framework
  version and is not in the repository. Whether the trigger of a case opened by
  hand must belong to its customer is stated nowhere; the model looks both up
  independently, as the code does, and claims nothing.

## 7. Plan

Done, in this order: the audit trail with its journal, its verifier, the case
workflow with reporting, monitoring, keys and provisioning; then customers with
their checks, the pool and the dashboard; proofs of each, the verifier's last.
Left are facts that no run needs: the second finding of section 5 has no bound
yet (how many submissions can be without a row, in terms of the requests that
were rolled back), and of the pool it is proved that some request can go on, not
yet which one.

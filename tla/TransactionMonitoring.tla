------------------------ MODULE TransactionMonitoring ------------------------
(***************************************************************************)
(* record_transaction (app/services/transaction_service.py) of one tenant, *)
(* run by concurrent requests: the transaction is inserted, the rules look *)
(* at the rows the session sees, and alerts and cases are inserted in the  *)
(* same database transaction.                                              *)
(*                                                                         *)
(* created_at is now(), the time the database transaction began, when      *)
(* tenant_session pinned the tenant.  The first flush waits for the        *)
(* tenant's chain head (module AuditLog), held until COMMIT; so requests   *)
(* insert and evaluate one at a time, in the order in which they get the   *)
(* lock, which need not be the order of their created_at.                  *)
(***************************************************************************)
EXTENDS MonitoringRules, Sequences

CONSTANTS Ids,                 \* primary keys of transactions
          Customers, Currencies,
          Amounts,             \* amounts sent, in tenths of a cent
          Floor,               \* case_auto_open_min_severity
          Requests, NoRequest,
          MaxClock             \* bound: the last clock reading

ASSUME NoRequestAssumption == NoRequest \notin Requests
ASSUME AmountsAssumption == Amounts \subseteq Nat \ {0}
ASSUME IdsAssumption == "none" \notin Ids
ASSUME FloorAssumption == Floor \in {"low", "medium", "high"}
ASSUME ClockAssumption == MaxClock \in Nat

VARIABLES
  clock,
  committed,  \* ids of committed transactions, in commit order
  txns,       \* the transactions, committed or inserted, by id
  alerts,     \* committed alerts
  cases,      \* committed cases opened for alerts
  writer,     \* the request that holds the chain head
  phase,      \* per request: "idle", "flushing", "inserted", "evaluated"
  job         \* per request: its transaction and the rows it has inserted

vars == <<clock, committed, txns, alerts, cases, writer, phase, job>>

Rank == [low |-> 0, medium |-> 1, high |-> 2]

\* The transactions a session sees: the committed ones and its own.
CommittedIds == {committed[i] : i \in DOMAIN committed}
Seen(r) == [i \in CommittedIds \cup {job[r].id} |-> txns[i]]

NoJob == [id |-> "none", found |-> {}, opened |-> {}]

Init ==
  /\ clock = 0
  /\ committed = <<>>
  /\ txns = [i \in {} |-> i]
  /\ alerts = {}
  /\ cases = {}
  /\ writer = NoRequest
  /\ phase = [r \in Requests |-> "idle"]
  /\ job = [r \in Requests |-> NoJob]

Tick ==
  /\ clock < MaxClock
  /\ clock' = clock + 1
  /\ UNCHANGED <<committed, txns, alerts, cases, writer, phase, job>>

WithTxn(i, txn) == [k \in DOMAIN txns \cup {i} |-> IF k = i THEN txn ELSE txns[k]]
WithoutTxn(i) == [k \in DOMAIN txns \ {i} |-> txns[k]]

\* Mutated form: the time is that of a clock that runs ahead.
CreatedAtAhead == clock + 1

\* What a NUMERIC(18, 2) column keeps of an amount: whole cents, zero for less
\* than half a cent.  The refreshed object, and so the rules, have this amount.
Stored(amount) == (amount + 5) \div 10

\* server_default=now(): when the database transaction began.
CreatedAt == clock

\* POST /customers/{id}/transactions: the database transaction begins, the
\* customer is found, and the new object waits to be flushed.
Begin(r, i, customer, currency, amount) ==
  /\ phase[r] = "idle"
  /\ i \notin DOMAIN txns
  /\ txns' = WithTxn(i, [customer |-> customer, currency |-> currency,
                         amount |-> Stored(amount), created_at |-> CreatedAt])
  /\ job' = [job EXCEPT ![r].id = i]
  /\ phase' = [phase EXCEPT ![r] = "flushing"]
  /\ UNCHANGED <<clock, committed, alerts, cases, writer>>

\* Mutated form: inserts do not wait for each other.
Unserialised == TRUE

ChainHeadFree == writer = NoRequest

\* db.flush(); db.refresh(txn)
Insert(r) ==
  /\ phase[r] = "flushing"
  /\ ChainHeadFree
  /\ writer' = r
  /\ phase' = [phase EXCEPT ![r] = "inserted"]
  /\ UNCHANGED <<clock, committed, txns, alerts, cases, job>>

\* Mutated form: only alerts above the floor open a case.
OpensCaseAbove(rule) == Rank[Severity(rule)] > Rank[Floor]

\* open_case_for_transaction_alert
OpensCase(rule) == Rank[Severity(rule)] >= Rank[Floor]

\* evaluate_transaction, the alerts, and the cases of those that open one.
Evaluate(r) ==
  /\ phase[r] = "inserted"
  /\ LET i == job[r].id
         found == {[id |-> i, rule |-> rule, severity |-> Severity(rule)] :
                     rule \in evaluate_transaction(Seen(r), txns[i])}
     IN job' = [job EXCEPT ![r].found = found,
                           ![r].opened = {[alert |-> a, priority |-> a.severity] :
                                            a \in {b \in found : OpensCase(b.rule)}}]
  /\ phase' = [phase EXCEPT ![r] = "evaluated"]
  /\ UNCHANGED <<clock, committed, txns, alerts, cases, writer>>

End(r) ==
  /\ phase' = [phase EXCEPT ![r] = "idle"]
  /\ job' = [job EXCEPT ![r] = NoJob]
  /\ writer' = IF writer = r THEN NoRequest ELSE writer
  /\ UNCHANGED clock

Commit(r) ==
  /\ phase[r] = "evaluated"
  /\ committed' = Append(committed, job[r].id)
  /\ alerts' = alerts \cup job[r].found
  /\ cases' = cases \cup job[r].opened
  /\ UNCHANGED txns
  /\ End(r)

Rollback(r) ==
  /\ phase[r] # "idle"
  /\ txns' = WithoutTxn(job[r].id)
  /\ UNCHANGED <<committed, alerts, cases>>
  /\ End(r)

Next ==
  \/ Tick
  \/ \E r \in Requests :
       \/ \E i \in Ids, customer \in Customers, currency \in Currencies, amount \in Amounts :
            Begin(r, i, customer, currency, amount)
       \/ Insert(r)
       \/ Evaluate(r)
       \/ Commit(r)
       \/ Rollback(r)

Spec == Init /\ [][Next]_vars

-----------------------------------------------------------------------------
Txns == [customer : Customers, currency : Currencies, amount : {Stored(a) : a \in Amounts},
         created_at : 0..MaxClock]
Alerts == [id : Ids, rule : Findings, severity : DOMAIN Rank]
OpenedCases == [alert : Alerts, priority : DOMAIN Rank]

\* Types of the variables.
TypeOK ==
  /\ clock \in 0..MaxClock
  /\ committed \in Seq(Ids)
  /\ DOMAIN txns \subseteq Ids /\ \A i \in DOMAIN txns : txns[i] \in Txns
  /\ alerts \subseteq Alerts
  /\ cases \subseteq OpenedCases
  /\ writer \in Requests \cup {NoRequest}
  /\ phase \in [Requests -> {"idle", "flushing", "inserted", "evaluated"}]
  /\ job \in [Requests -> [id : Ids \cup {"none"}, found : SUBSET Alerts,
                           opened : SUBSET OpenedCases]]

Raised(i) == {a.rule : a \in {b \in alerts : b.id = i}}

\* The first n committed transactions, by id.
Prefix(n) == [i \in {committed[k] : k \in 1..n} |-> txns[i]]

\* The alerts of a committed transaction are those of an evaluation right after
\* its own commit, with every transaction committed before it and none
\* committed later in sight: concurrent requests never miss each other's rows.
EvaluatedInCommitOrder ==
  \A n \in DOMAIN committed :
    Raised(committed[n]) = evaluate_transaction(Prefix(n), txns[committed[n]])

\* A single payment that is recorded as large, be it by rounding, never goes
\* without an alert and a case, and one recorded as smaller never gets that
\* alert, whatever commits around them.
LargeAlwaysEscalated ==
  \A i \in CommittedIds :
    /\ txns[i].amount >= LargeAmount <=> "LARGE_AMOUNT" \in Raised(i)
    /\ txns[i].amount >= LargeAmount => \E c \in cases : c.alert.id = i /\ c.priority = "high"

\* Transactions, alerts and cases are all there or none is: an alert belongs to
\* a committed transaction, and has a case exactly when it reaches the floor.
AllOrNothing ==
  /\ \A a \in alerts : a.id \in CommittedIds
  /\ {c.alert : c \in cases} = {a \in alerts : Rank[a.severity] >= Rank[Floor]}
  /\ \A c \in cases : c.priority = c.alert.severity

\* monitoring/rules/velocity.py:14-19 describes a heuristic on "multiple
\* transactions" that "cumulatively clear a lower threshold within a trailing
\* window": when the committed transactions of a customer do so, one of them
\* carries the alert.
StructuringFlagged ==
  LET all == [i \in CommittedIds |-> txns[i]]
  IN \A i \in CommittedIds :
       velocity(all, txns[i]) =>
         \E k \in VelocityRows(all, txns[i]) : "VELOCITY_STRUCTURING" \in Raised(k)
=============================================================================

-------------------- MODULE TransactionMonitoringProofs --------------------
(***************************************************************************)
(* Theorems about TransactionMonitoring, for any rules' thresholds and any *)
(* number of requests: types, AllOrNothing, LargeAlwaysEscalated and       *)
(* EvaluatedInCommitOrder.                                                 *)
(*                                                                         *)
(* Nothing is committed between the evaluation of a request and its own    *)
(* COMMIT, because it holds the chain head (WriterHolds); so what the      *)
(* rules saw is what has been committed when its transaction is.           *)
(***************************************************************************)
EXTENDS TransactionMonitoring, TLAPS

WriterHolds == \A r \in Requests : phase[r] \in {"inserted", "evaluated"} => writer = r

\* The transaction of a request is stored, not committed, and nobody else's.
OwnTransactions ==
  \A r \in Requests :
    IF phase[r] = "idle" THEN job[r] = NoJob
    ELSE /\ job[r].id \in DOMAIN txns
         /\ \A n \in DOMAIN committed : committed[n] # job[r].id
         /\ \A q \in Requests \ {r} : job[q].id # job[r].id

CommittedStored ==
  /\ \A n \in DOMAIN committed : committed[n] \in DOMAIN txns
  /\ \A n, m \in DOMAIN committed : committed[n] = committed[m] => n = m

AlertsFor(i, rules) == {[id |-> i, rule |-> rule, severity |-> Severity(rule)] : rule \in rules}
CasesFor(found) ==
  {[alert |-> a, priority |-> a.severity] : a \in {b \in found : OpensCase(b.rule)}}

\* What an evaluation has found, while its request holds the chain head.
EvaluationsStand ==
  \A r \in Requests : phase[r] = "evaluated" =>
    /\ job[r].found = AlertsFor(job[r].id, evaluate_transaction(Seen(r), txns[job[r].id]))
    /\ job[r].opened = CasesFor(job[r].found)

AlertsCommitted ==
  /\ \A a \in alerts : a.severity = Severity(a.rule) /\ \E n \in DOMAIN committed : committed[n] = a.id
  /\ cases = CasesFor(alerts)

MonitoringInv ==
  /\ TypeOK
  /\ WriterHolds
  /\ OwnTransactions
  /\ CommittedStored
  /\ EvaluationsStand
  /\ AlertsCommitted
  /\ EvaluatedInCommitOrder

-----------------------------------------------------------------------------
LEMMA RuleFacts ==
  ASSUME NEW seen, NEW txn
  PROVE  /\ evaluate_transaction(seen, txn) \subseteq Findings
         /\ "LARGE_AMOUNT" \in evaluate_transaction(seen, txn) <=> large_amount(txn)
BY DEF evaluate_transaction, Findings

LEMMA SeverityFacts ==
  ASSUME NEW rule \in Findings
  PROVE  /\ Severity(rule) \in DOMAIN Rank
         /\ OpensCase(rule) <=> Rank[Severity(rule)] >= Rank[Floor]
         /\ OpensCase("LARGE_AMOUNT") /\ Severity("LARGE_AMOUNT") = "high"
BY FloorAssumption DEF Severity, Rank, OpensCase

LEMMA AlertTypes ==
  ASSUME NEW i \in Ids, NEW rules \in SUBSET Findings
  PROVE  /\ AlertsFor(i, rules) \subseteq Alerts
         /\ CasesFor(AlertsFor(i, rules)) \subseteq OpenedCases
<1>1. AlertsFor(i, rules) \subseteq Alerts
  BY SeverityFacts DEF AlertsFor, Alerts
<1>2. \A found \in SUBSET Alerts : CasesFor(found) \subseteq OpenedCases
  BY DEF CasesFor, OpenedCases, Alerts
<1> QED
  BY <1>1, <1>2

\* Rules of the alerts of one transaction.
LEMMA RulesOfAlerts ==
  ASSUME NEW i, NEW rules
  PROVE  {a.rule : a \in {b \in AlertsFor(i, rules) : b.id = i}} = rules
<1>1. \A a \in AlertsFor(i, rules) : a.id = i /\ a.rule \in rules
  BY DEF AlertsFor
<1>2. ASSUME NEW rule \in rules
      PROVE  \E a \in AlertsFor(i, rules) : a.id = i /\ a.rule = rule
  <2> DEFINE a == [id |-> i, rule |-> rule, severity |-> Severity(rule)]
  <2>1. a \in AlertsFor(i, rules) /\ a.id = i /\ a.rule = rule
    BY DEF AlertsFor
  <2> QED
    BY <2>1
<1> QED
  BY <1>1, <1>2

LEMMA CasesUnion ==
  ASSUME NEW S, NEW T
  PROVE  CasesFor(S \cup T) = CasesFor(S) \cup CasesFor(T)
BY DEF CasesFor

LEMMA InitKeeps == Init => MonitoringInv
<1> SUFFICES ASSUME Init PROVE MonitoringInv
  OBVIOUS
<1>1. TypeOK
  BY ClockAssumption DEF Init, TypeOK, NoJob
<1>2. WriterHolds /\ OwnTransactions /\ CommittedStored /\ EvaluationsStand
  BY DEF Init, WriterHolds, OwnTransactions, CommittedStored, EvaluationsStand
<1>3. AlertsCommitted /\ EvaluatedInCommitOrder
  BY DEF Init, AlertsCommitted, CasesFor, EvaluatedInCommitOrder
<1> QED
  BY <1>1, <1>2, <1>3 DEF MonitoringInv

-----------------------------------------------------------------------------
\* What the committed transactions look like is all that their alerts depend on.
LEMMA OrderKept ==
  ASSUME MonitoringInv, UNCHANGED <<committed, alerts>>,
         \A k \in CommittedIds : txns'[k] = txns[k]
  PROVE  EvaluatedInCommitOrder'
<1> SUFFICES ASSUME NEW n \in DOMAIN committed
             PROVE  Raised(committed[n])' = evaluate_transaction(Prefix(n)', txns'[committed[n]])
  BY DEF EvaluatedInCommitOrder
<1>1. committed \in Seq(Ids) /\ n \in 1..Len(committed) /\ Len(committed) \in Nat
  BY DEF MonitoringInv, TypeOK
<1>2. \A k \in 1..n : committed[k] \in CommittedIds
  BY <1>1 DEF CommittedIds
<1>3. Prefix(n)' = Prefix(n)
  BY <1>2 DEF Prefix
<1>4. txns'[committed[n]] = txns[committed[n]]
  BY DEF CommittedIds
<1>5. Raised(committed[n])' = Raised(committed[n])
  BY DEF Raised
<1>6. Raised(committed[n]) = evaluate_transaction(Prefix(n), txns[committed[n]])
  BY DEF MonitoringInv, EvaluatedInCommitOrder
<1> QED
  BY <1>3, <1>4, <1>5, <1>6

\* A request that has evaluated keeps what it saw while no other commits.
LEMMA SeenKept ==
  ASSUME MonitoringInv, NEW q \in Requests, phase[q] = "evaluated",
         UNCHANGED committed, job'[q] = job[q],
         \A k \in CommittedIds \cup {job[q].id} : txns'[k] = txns[k]
  PROVE  Seen(q)' = Seen(q) /\ txns'[job'[q].id] = txns[job[q].id]
BY DEF Seen, CommittedIds

LEMMA OwnIds ==
  ASSUME MonitoringInv, NEW r \in Requests, phase[r] # "idle"
  PROVE  /\ job[r].id \in Ids /\ job[r].id \in DOMAIN txns
         /\ job[r].id \notin CommittedIds /\ txns[job[r].id] \in Txns
         /\ \A q \in Requests \ {r} : job[q].id # job[r].id
BY DEF MonitoringInv, OwnTransactions, TypeOK, CommittedIds

LEMMA CommittedKnown ==
  ASSUME MonitoringInv
  PROVE  CommittedIds \subseteq DOMAIN txns /\ "none" \notin DOMAIN txns
BY IdsAssumption DEF MonitoringInv, CommittedStored, CommittedIds, TypeOK

LEMMA TickKeeps ==
  ASSUME MonitoringInv, Tick
  PROVE  MonitoringInv'
<1>1. /\ UNCHANGED <<committed, txns, alerts, cases, writer, phase, job>>
      /\ clock' \in 0..MaxClock
  BY ClockAssumption DEF Tick, MonitoringInv, TypeOK
<1>2. TypeOK'
  BY <1>1 DEF MonitoringInv, TypeOK
<1>3. WriterHolds' /\ OwnTransactions' /\ CommittedStored'
  BY <1>1 DEF MonitoringInv, WriterHolds, OwnTransactions, CommittedStored
<1>4. EvaluationsStand'
  BY <1>1, SeenKept DEF MonitoringInv, EvaluationsStand
<1>5. AlertsCommitted' /\ EvaluatedInCommitOrder'
  BY <1>1, OrderKept DEF MonitoringInv, AlertsCommitted
<1> QED
  BY <1>2, <1>3, <1>4, <1>5 DEF MonitoringInv

LEMMA BeginKeeps ==
  ASSUME MonitoringInv, NEW r \in Requests, NEW i \in Ids, NEW customer \in Customers,
         NEW currency \in Currencies, NEW amount \in Amounts,
         Begin(r, i, customer, currency, amount)
  PROVE  MonitoringInv'
<1> DEFINE txn == [customer |-> customer, currency |-> currency,
                   amount |-> Stored(amount), created_at |-> CreatedAt]
<1>1. txn \in Txns
  BY DEF Txns, CreatedAt, MonitoringInv, TypeOK
<1>2. /\ phase[r] = "idle" /\ i \notin DOMAIN txns /\ txns' = WithTxn(i, txn)
      /\ job' = [job EXCEPT ![r].id = i] /\ phase' = [phase EXCEPT ![r] = "flushing"]
      /\ UNCHANGED <<clock, committed, alerts, cases, writer>>
  BY DEF Begin
<1> HIDE DEF txn
<1>3. /\ DOMAIN txns' = DOMAIN txns \cup {i} /\ txns'[i] = txn
      /\ \A k \in DOMAIN txns : txns'[k] = txns[k]
  BY <1>2 DEF WithTxn
<1>4. /\ job' \in [Requests -> [id : Ids \cup {"none"}, found : SUBSET Alerts,
                                opened : SUBSET OpenedCases]]
      /\ job'[r].id = i
      /\ \A q \in Requests \ {r} : job'[q] = job[q]
  BY <1>2 DEF MonitoringInv, TypeOK
<1>5. /\ phase' \in [Requests -> {"idle", "flushing", "inserted", "evaluated"}]
      /\ \A q \in Requests : phase'[q] = IF q = r THEN "flushing" ELSE phase[q]
  BY <1>2 DEF MonitoringInv, TypeOK
<1>6. TypeOK'
  BY <1>1, <1>2, <1>3, <1>4, <1>5 DEF MonitoringInv, TypeOK
<1>7. WriterHolds'
  BY <1>2, <1>5 DEF MonitoringInv, WriterHolds
<1>8. CommittedStored'
  BY <1>2, <1>3 DEF MonitoringInv, CommittedStored
<1>9. \A q \in Requests \ {r} : job[q].id # i
  BY <1>2, OwnIds, IdsAssumption DEF MonitoringInv, OwnTransactions, NoJob
<1>10. OwnTransactions'
  <2> SUFFICES ASSUME NEW q \in Requests
               PROVE  IF phase'[q] = "idle" THEN job'[q] = NoJob
                      ELSE /\ job'[q].id \in DOMAIN txns'
                           /\ \A n \in DOMAIN committed' : committed'[n] # job'[q].id
                           /\ \A o \in Requests \ {q} : job'[o].id # job'[q].id
    BY DEF OwnTransactions
  <2>1. CASE q = r
    BY <1>2, <1>3, <1>4, <1>5, <1>9, <2>1 DEF MonitoringInv, CommittedStored
  <2>2. CASE q # r
    BY <1>2, <1>3, <1>4, <1>5, <1>9, <2>2 DEF MonitoringInv, OwnTransactions
  <2> QED
    BY <2>1, <2>2
<1>11. EvaluationsStand'
  <2> SUFFICES ASSUME NEW q \in Requests, phase'[q] = "evaluated"
               PROVE  /\ job'[q].found = AlertsFor(job'[q].id,
                           evaluate_transaction(Seen(q)', txns'[job'[q].id]))
                      /\ job'[q].opened = CasesFor(job'[q].found)
    BY DEF EvaluationsStand
  <2>1. q # r /\ phase[q] = "evaluated" /\ job'[q] = job[q]
    BY <1>4, <1>5
  <2>2. Seen(q)' = Seen(q) /\ txns'[job'[q].id] = txns[job[q].id]
    BY <1>2, <1>3, <2>1, SeenKept, OwnIds, CommittedKnown
  <2> QED
    BY <2>1, <2>2 DEF MonitoringInv, EvaluationsStand
<1>12. AlertsCommitted'
  BY <1>2 DEF MonitoringInv, AlertsCommitted
<1>13. EvaluatedInCommitOrder'
  BY <1>2, <1>3, OrderKept, CommittedKnown
<1> QED
  BY <1>6, <1>7, <1>8, <1>10, <1>11, <1>12, <1>13 DEF MonitoringInv

LEMMA InsertKeeps ==
  ASSUME MonitoringInv, NEW r \in Requests, Insert(r)
  PROVE  MonitoringInv'
<1>1. /\ phase[r] = "flushing" /\ writer = NoRequest /\ writer' = r
      /\ phase' = [phase EXCEPT ![r] = "inserted"]
      /\ UNCHANGED <<clock, committed, txns, alerts, cases, job>>
  BY DEF Insert, ChainHeadFree
<1>2. /\ phase' \in [Requests -> {"idle", "flushing", "inserted", "evaluated"}]
      /\ \A q \in Requests : phase'[q] = IF q = r THEN "inserted" ELSE phase[q]
  BY <1>1 DEF MonitoringInv, TypeOK
<1>3. TypeOK'
  BY <1>1, <1>2 DEF MonitoringInv, TypeOK
<1>4. WriterHolds'
  BY <1>1, <1>2, NoRequestAssumption DEF MonitoringInv, WriterHolds
<1>5. OwnTransactions' /\ CommittedStored'
  BY <1>1, <1>2 DEF MonitoringInv, OwnTransactions, CommittedStored
<1>6. EvaluationsStand'
  BY <1>1, <1>2, SeenKept DEF MonitoringInv, EvaluationsStand
<1>7. AlertsCommitted' /\ EvaluatedInCommitOrder'
  BY <1>1, OrderKept DEF MonitoringInv, AlertsCommitted
<1> QED
  BY <1>3, <1>4, <1>5, <1>6, <1>7 DEF MonitoringInv

LEMMA EvaluateKeeps ==
  ASSUME MonitoringInv, NEW r \in Requests, Evaluate(r)
  PROVE  MonitoringInv'
<1> DEFINE found == AlertsFor(job[r].id, evaluate_transaction(Seen(r), txns[job[r].id]))
<1>1. /\ phase[r] = "inserted"
      /\ phase' = [phase EXCEPT ![r] = "evaluated"]
      /\ job' = [job EXCEPT ![r].found = found, ![r].opened = CasesFor(found)]
      /\ UNCHANGED <<clock, committed, txns, alerts, cases, writer>>
  BY DEF Evaluate, AlertsFor, CasesFor
<1>2. found \subseteq Alerts /\ CasesFor(found) \subseteq OpenedCases
  BY <1>1, OwnIds, AlertTypes, RuleFacts
<1> HIDE DEF found
<1>3. /\ job' \in [Requests -> [id : Ids \cup {"none"}, found : SUBSET Alerts,
                                opened : SUBSET OpenedCases]]
      /\ \A q \in Requests : job'[q].id = job[q].id
      /\ \A q \in Requests \ {r} : job'[q] = job[q]
      /\ job'[r].found = found /\ job'[r].opened = CasesFor(found)
  BY <1>1, <1>2 DEF MonitoringInv, TypeOK
<1>4. /\ phase' \in [Requests -> {"idle", "flushing", "inserted", "evaluated"}]
      /\ \A q \in Requests : phase'[q] = IF q = r THEN "evaluated" ELSE phase[q]
  BY <1>1 DEF MonitoringInv, TypeOK
<1>5. TypeOK'
  BY <1>1, <1>3, <1>4 DEF MonitoringInv, TypeOK
<1>6. WriterHolds' /\ CommittedStored'
  BY <1>1, <1>4 DEF MonitoringInv, WriterHolds, CommittedStored
<1>7. OwnTransactions'
  BY <1>1, <1>3, <1>4 DEF MonitoringInv, OwnTransactions
<1>8. EvaluationsStand'
  <2> SUFFICES ASSUME NEW q \in Requests, phase'[q] = "evaluated"
               PROVE  /\ job'[q].found = AlertsFor(job'[q].id,
                           evaluate_transaction(Seen(q)', txns'[job'[q].id]))
                      /\ job'[q].opened = CasesFor(job'[q].found)
    BY DEF EvaluationsStand
  <2>1. CASE q = r
    <3>1. Seen(r)' = Seen(r)
      BY <1>1, <1>3 DEF Seen, CommittedIds
    <3> QED
      BY <1>1, <1>3, <2>1, <3>1 DEF found
  <2>2. CASE q # r
    BY <1>1, <1>4, <2>2, NoRequestAssumption DEF MonitoringInv, WriterHolds
  <2> QED
    BY <2>1, <2>2
<1>9. AlertsCommitted' /\ EvaluatedInCommitOrder'
  BY <1>1, OrderKept DEF MonitoringInv, AlertsCommitted
<1> QED
  BY <1>5, <1>6, <1>7, <1>8, <1>9 DEF MonitoringInv

\* A request that ends leaves no transaction and no lock behind.
LEMMA EndFacts ==
  ASSUME MonitoringInv, NEW r \in Requests, End(r)
  PROVE  /\ job' \in [Requests -> [id : Ids \cup {"none"}, found : SUBSET Alerts,
                                   opened : SUBSET OpenedCases]]
         /\ \A q \in Requests : job'[q] = IF q = r THEN NoJob ELSE job[q]
         /\ phase' \in [Requests -> {"idle", "flushing", "inserted", "evaluated"}]
         /\ \A q \in Requests : phase'[q] = IF q = r THEN "idle" ELSE phase[q]
         /\ writer' \in Requests \cup {NoRequest}
         /\ clock' = clock
         /\ WriterHolds'
<1>1. /\ phase' = [phase EXCEPT ![r] = "idle"] /\ job' = [job EXCEPT ![r] = NoJob]
      /\ writer' = IF writer = r THEN NoRequest ELSE writer
      /\ clock' = clock
  BY DEF End
<1>2. /\ phase' \in [Requests -> {"idle", "flushing", "inserted", "evaluated"}]
      /\ \A q \in Requests : phase'[q] = IF q = r THEN "idle" ELSE phase[q]
  BY <1>1 DEF MonitoringInv, TypeOK
<1>3. /\ job' \in [Requests -> [id : Ids \cup {"none"}, found : SUBSET Alerts,
                                opened : SUBSET OpenedCases]]
      /\ \A q \in Requests : job'[q] = IF q = r THEN NoJob ELSE job[q]
  BY <1>1 DEF MonitoringInv, TypeOK, NoJob
<1>4. writer' \in Requests \cup {NoRequest}
  BY <1>1 DEF MonitoringInv, TypeOK
<1>5. WriterHolds'
  BY <1>1, <1>2 DEF MonitoringInv, WriterHolds
<1> QED
  BY <1>1, <1>2, <1>3, <1>4, <1>5

LEMMA RollbackKeeps ==
  ASSUME MonitoringInv, NEW r \in Requests, Rollback(r)
  PROVE  MonitoringInv'
<1>1. /\ phase[r] # "idle" /\ txns' = WithoutTxn(job[r].id) /\ End(r)
      /\ UNCHANGED <<committed, alerts, cases>>
  BY DEF Rollback
<1>2. /\ DOMAIN txns' = DOMAIN txns \ {job[r].id}
      /\ \A k \in DOMAIN txns \ {job[r].id} : txns'[k] = txns[k]
  BY <1>1 DEF WithoutTxn
<1>3. TypeOK'
  BY <1>1, <1>2, EndFacts DEF MonitoringInv, TypeOK
<1>4. CommittedStored'
  BY <1>1, <1>2, OwnIds DEF MonitoringInv, CommittedStored, CommittedIds
<1>5. OwnTransactions'
  <2> SUFFICES ASSUME NEW q \in Requests, q # r, phase[q] # "idle"
               PROVE  /\ job[q].id \in DOMAIN txns'
                      /\ \A n \in DOMAIN committed : committed[n] # job[q].id
                      /\ \A o \in Requests \ {q} : job'[o].id # job[q].id
    BY <1>1, EndFacts DEF OwnTransactions, MonitoringInv
  <2>1. job[q].id \in DOMAIN txns'
    BY <1>1, <1>2, OwnIds
  <2>2. \A o \in Requests \ {q} : job'[o].id # job[q].id
    BY <1>1, EndFacts, OwnIds, CommittedKnown DEF NoJob
  <2> QED
    BY <2>1, <2>2 DEF MonitoringInv, OwnTransactions
<1>6. EvaluationsStand'
  <2> SUFFICES ASSUME NEW q \in Requests, phase'[q] = "evaluated"
               PROVE  /\ job'[q].found = AlertsFor(job'[q].id,
                           evaluate_transaction(Seen(q)', txns'[job'[q].id]))
                      /\ job'[q].opened = CasesFor(job'[q].found)
    BY DEF EvaluationsStand
  <2>1. q # r /\ phase[q] = "evaluated" /\ job'[q] = job[q]
    BY <1>1, EndFacts
  <2>2. Seen(q)' = Seen(q) /\ txns'[job'[q].id] = txns[job[q].id]
    BY <1>1, <1>2, <2>1, SeenKept, OwnIds, CommittedKnown
  <2> QED
    BY <2>1, <2>2 DEF MonitoringInv, EvaluationsStand
<1>7. AlertsCommitted'
  BY <1>1 DEF MonitoringInv, AlertsCommitted
<1>8. EvaluatedInCommitOrder'
  BY <1>1, <1>2, OrderKept, OwnIds, CommittedKnown
<1> QED
  BY <1>1, <1>3, <1>4, <1>5, <1>6, <1>7, <1>8, EndFacts DEF MonitoringInv

-----------------------------------------------------------------------------
\* COMMIT: nothing was committed since the evaluation, so the rules saw what is
\* committed now.
LEMMA CommitOrder ==
  ASSUME MonitoringInv, NEW r \in Requests, Commit(r)
  PROVE  EvaluatedInCommitOrder'
<1> PICK i : i = job[r].id
  OBVIOUS
<1> PICK last : last = Len(committed) + 1
  OBVIOUS
<1>1. /\ phase[r] = "evaluated" /\ committed' = Append(committed, i)
      /\ alerts' = alerts \cup job[r].found /\ txns' = txns
  BY DEF Commit
<1>2. /\ committed \in Seq(Ids) /\ Len(committed) \in Nat
      /\ DOMAIN committed = 1..Len(committed)
  BY DEF MonitoringInv, TypeOK
<1>3. /\ i \in Ids /\ i \notin CommittedIds
  BY <1>1, OwnIds
<1>4. /\ DOMAIN committed' = 1..last /\ committed'[last] = i
      /\ \A k \in 1..Len(committed) : committed'[k] = committed[k]
  BY <1>1, <1>2, <1>3
<1>5. \A n \in DOMAIN committed : committed[n] \in CommittedIds /\ committed[n] # i
  BY <1>3 DEF CommittedIds
<1>6. job[r].found = AlertsFor(i, evaluate_transaction(Seen(r), txns[i]))
  BY <1>1 DEF MonitoringInv, EvaluationsStand
<1>7. \A a \in job[r].found : a.id = i
  BY <1>6 DEF AlertsFor
<1>8. \A a \in alerts : a.id \in CommittedIds
  BY DEF MonitoringInv, AlertsCommitted, CommittedIds
<1>9. ASSUME NEW n \in 1..Len(committed)
      PROVE  /\ {a.rule : a \in {b \in alerts' : b.id = committed'[n]}} = Raised(committed[n])
             /\ Prefix(n)' = Prefix(n)
             /\ Raised(committed[n]) = evaluate_transaction(Prefix(n), txns[committed[n]])
  <2>1. committed'[n] = committed[n] /\ committed[n] # i
    BY <1>2, <1>4, <1>5
  <2>2. {b \in alerts' : b.id = committed'[n]} = {b \in alerts : b.id = committed[n]}
    BY <1>1, <1>7, <2>1
  <2>3. \A k \in 1..n : committed'[k] = committed[k]
    BY <1>2, <1>4
  <2>4. {committed'[k] : k \in 1..n} = {committed[k] : k \in 1..n}
    BY <2>3
  <2>5. Prefix(n)' = Prefix(n)
    BY <1>1, <2>4 DEF Prefix
  <2>6. Raised(committed[n]) = evaluate_transaction(Prefix(n), txns[committed[n]])
    BY <1>2 DEF MonitoringInv, EvaluatedInCommitOrder
  <2> QED
    BY <2>2, <2>5, <2>6 DEF Raised
<1>10. Raised(i)' = evaluate_transaction(Prefix(last)', txns'[i])
  <2>1. {b \in alerts' : b.id = i} = {b \in job[r].found : b.id = i}
    BY <1>1, <1>3, <1>8
  <2>2. Raised(i)' = evaluate_transaction(Seen(r), txns[i])
    BY <1>6, <2>1, RulesOfAlerts DEF Raised
  <2>3. {committed'[k] : k \in 1..last} = CommittedIds \cup {i}
    BY <1>2, <1>4 DEF CommittedIds
  <2>4. Prefix(last)' = Seen(r)
    BY <1>1, <2>3 DEF Prefix, Seen
  <2> QED
    BY <1>1, <2>2, <2>4
<1>11. \A n \in DOMAIN committed' : n \in 1..Len(committed) \/ n = last
  BY <1>2, <1>4
<1> SUFFICES ASSUME NEW n \in DOMAIN committed'
             PROVE  {a.rule : a \in {b \in alerts' : b.id = committed'[n]}}
                      = evaluate_transaction(Prefix(n)', txns'[committed'[n]])
  BY DEF EvaluatedInCommitOrder, Raised
<1>12. CASE n \in 1..Len(committed)
  BY <1>1, <1>4, <1>9, <1>12
<1>13. CASE n = last
  BY <1>4, <1>10, <1>13 DEF Raised
<1> QED
  BY <1>11, <1>12, <1>13

LEMMA CommitKeeps ==
  ASSUME MonitoringInv, NEW r \in Requests, Commit(r)
  PROVE  MonitoringInv'
<1> DEFINE i == job[r].id
           last == Len(committed) + 1
<1>1. /\ phase[r] = "evaluated" /\ committed' = Append(committed, i) /\ End(r)
      /\ alerts' = alerts \cup job[r].found /\ cases' = cases \cup job[r].opened
      /\ txns' = txns
  BY DEF Commit
<1>2. /\ committed \in Seq(Ids) /\ Len(committed) \in Nat
      /\ DOMAIN committed = 1..Len(committed)
  BY DEF MonitoringInv, TypeOK
<1>3. /\ i \in Ids /\ i \in DOMAIN txns /\ i \notin CommittedIds
      /\ \A q \in Requests \ {r} : job[q].id # i
  BY <1>1, OwnIds
<1>4. /\ job[r].found \subseteq Alerts /\ job[r].opened \subseteq OpenedCases
      /\ job[r].found = AlertsFor(i, evaluate_transaction(Seen(r), txns[i]))
      /\ job[r].opened = CasesFor(job[r].found)
  BY <1>1 DEF MonitoringInv, TypeOK, EvaluationsStand
<1> HIDE DEF i
<1>5. /\ DOMAIN committed' = 1..last /\ committed'[last] = i
      /\ \A k \in DOMAIN committed : committed'[k] = committed[k] /\ k \in DOMAIN committed'
      /\ \A n \in DOMAIN committed' : n \in DOMAIN committed \/ n = last
      /\ committed' \in Seq(Ids)
  BY <1>1, <1>2, <1>3
<1>6. TypeOK'
  BY <1>1, <1>4, <1>5, EndFacts DEF MonitoringInv, TypeOK
<1>7. CommittedStored'
  BY <1>1, <1>2, <1>3, <1>5 DEF MonitoringInv, CommittedStored, CommittedIds
<1>8. OwnTransactions'
  <2> SUFFICES ASSUME NEW q \in Requests, q # r, phase[q] # "idle"
               PROVE  /\ job[q].id \in DOMAIN txns
                      /\ \A n \in DOMAIN committed' : committed'[n] # job[q].id
                      /\ \A o \in Requests \ {q} : job'[o].id # job[q].id
    BY <1>1, EndFacts DEF OwnTransactions, MonitoringInv
  <2>1. job[q].id # i /\ job[q].id \in DOMAIN txns
    BY <1>3, OwnIds
  <2>2. \A n \in DOMAIN committed' : committed'[n] # job[q].id
    BY <1>5, <2>1 DEF MonitoringInv, OwnTransactions
  <2>3. \A o \in Requests \ {q} : job'[o].id # job[q].id
    BY <1>1, EndFacts, OwnIds, CommittedKnown DEF NoJob
  <2> QED
    BY <2>1, <2>2, <2>3
<1>9. EvaluationsStand'
  BY <1>1, EndFacts DEF MonitoringInv, WriterHolds, EvaluationsStand
<1>10. AlertsCommitted'
  <2>1. \A a \in job[r].found : a.id = i /\ a.severity = Severity(a.rule)
    BY <1>4 DEF AlertsFor
  <2>2. \A a \in alerts' : /\ a.severity = Severity(a.rule)
                           /\ \E n \in DOMAIN committed' : committed'[n] = a.id
    <3> SUFFICES ASSUME NEW a \in alerts'
                 PROVE  /\ a.severity = Severity(a.rule)
                        /\ \E n \in DOMAIN committed' : committed'[n] = a.id
      OBVIOUS
    <3>1. CASE a \in alerts
      BY <1>5, <3>1 DEF MonitoringInv, AlertsCommitted
    <3>2. CASE a \in job[r].found
      BY <1>2, <1>5, <2>1, <3>2
    <3> QED
      BY <1>1, <3>1, <3>2
  <2>3. cases' = CasesFor(alerts')
    BY <1>1, <1>4, CasesUnion DEF MonitoringInv, AlertsCommitted
  <2> QED
    BY <2>2, <2>3 DEF AlertsCommitted
<1> QED
  BY <1>1, <1>6, <1>7, <1>8, <1>9, <1>10, CommitOrder, EndFacts DEF MonitoringInv

-----------------------------------------------------------------------------
LEMMA NextKeeps == MonitoringInv /\ [Next]_vars => MonitoringInv'
<1> SUFFICES ASSUME MonitoringInv, [Next]_vars PROVE MonitoringInv'
  OBVIOUS
<1>1. CASE UNCHANGED vars
  <2>1. UNCHANGED <<clock, committed, txns, alerts, cases, writer, phase, job>>
    BY <1>1 DEF vars
  <2>2. TypeOK'
    BY <2>1 DEF MonitoringInv, TypeOK
  <2>3. WriterHolds' /\ OwnTransactions' /\ CommittedStored'
    BY <2>1 DEF MonitoringInv, WriterHolds, OwnTransactions, CommittedStored
  <2>4. EvaluationsStand'
    BY <2>1, SeenKept DEF MonitoringInv, EvaluationsStand
  <2>5. AlertsCommitted' /\ EvaluatedInCommitOrder'
    BY <2>1, OrderKept DEF MonitoringInv, AlertsCommitted
  <2> QED
    BY <2>2, <2>3, <2>4, <2>5 DEF MonitoringInv
<1>2. CASE Tick
  BY <1>2, TickKeeps
<1>3. ASSUME NEW r \in Requests, NEW i \in Ids, NEW customer \in Customers,
             NEW currency \in Currencies, NEW amount \in Amounts,
             Begin(r, i, customer, currency, amount)
      PROVE  MonitoringInv'
  BY <1>3, BeginKeeps
<1>4. ASSUME NEW r \in Requests, Insert(r) PROVE MonitoringInv'
  BY <1>4, InsertKeeps
<1>5. ASSUME NEW r \in Requests, Evaluate(r) PROVE MonitoringInv'
  BY <1>5, EvaluateKeeps
<1>6. ASSUME NEW r \in Requests, Commit(r) PROVE MonitoringInv'
  BY <1>6, CommitKeeps
<1>7. ASSUME NEW r \in Requests, Rollback(r) PROVE MonitoringInv'
  BY <1>7, RollbackKeeps
<1> QED
  BY <1>1, <1>2, <1>3, <1>4, <1>5, <1>6, <1>7 DEF Next

\* The inductive invariant: what a request has evaluated under the chain head
\* is what will have been committed right after its own COMMIT.
THEOREM MonitoringInvariant == Spec => []MonitoringInv
<1> QED
  BY InitKeeps, NextKeeps, PTL DEF Spec

\* Every variable keeps its type.
THEOREM TypeCorrect == Spec => []TypeOK
<1>1. MonitoringInv => TypeOK
  BY DEF MonitoringInv
<1> QED
  BY <1>1, MonitoringInvariant, PTL

\* record_transaction: the alerts of a committed transaction are those of an
\* evaluation in commit order, however the requests overlap.
THEOREM AlwaysEvaluatedInCommitOrder == Spec => []EvaluatedInCommitOrder
<1>1. MonitoringInv => EvaluatedInCommitOrder
  BY DEF MonitoringInv
<1> QED
  BY <1>1, MonitoringInvariant, PTL

\* Transactions, alerts and cases become visible together or not at all.
THEOREM AlwaysAllOrNothing == Spec => []AllOrNothing
<1>1. MonitoringInv => AllOrNothing
  <2> SUFFICES ASSUME MonitoringInv PROVE AllOrNothing
    OBVIOUS
  <2>1. \A a \in alerts : a.id \in CommittedIds /\ a \in Alerts /\ a.severity = Severity(a.rule)
    BY DEF MonitoringInv, AlertsCommitted, CommittedIds, TypeOK
  <2>2. \A a \in alerts : OpensCase(a.rule) <=> Rank[a.severity] >= Rank[Floor]
    BY <2>1 DEF OpensCase
  <2>3. cases = CasesFor(alerts)
    BY DEF MonitoringInv, AlertsCommitted
  <2>4. \A c \in cases : /\ c.alert \in alerts /\ OpensCase(c.alert.rule)
                         /\ c.priority = c.alert.severity
    BY <2>3 DEF CasesFor
  <2>5. ASSUME NEW a \in alerts, OpensCase(a.rule) PROVE \E c \in cases : c.alert = a
    <3>1. [alert |-> a, priority |-> a.severity] \in cases
      BY <2>3, <2>5 DEF CasesFor
    <3> QED
      BY <3>1
  <2> QED
    BY <2>1, <2>2, <2>4, <2>5 DEF AllOrNothing
<1> QED
  BY <1>1, MonitoringInvariant, PTL

\* A payment stored as large always has its alert and a case of high priority,
\* and no other payment has that alert.
THEOREM LargeAlwaysHasCase == Spec => []LargeAlwaysEscalated
<1>1. MonitoringInv => LargeAlwaysEscalated
  <2> SUFFICES ASSUME MonitoringInv, NEW n \in DOMAIN committed
               PROVE  /\ txns[committed[n]].amount >= LargeAmount
                           <=> "LARGE_AMOUNT" \in Raised(committed[n])
                      /\ txns[committed[n]].amount >= LargeAmount =>
                           \E c \in cases : c.alert.id = committed[n] /\ c.priority = "high"
    BY DEF LargeAlwaysEscalated, CommittedIds
  <2> DEFINE i == committed[n]
  <2>1. Raised(i) = evaluate_transaction(Prefix(n), txns[i])
    BY DEF MonitoringInv, EvaluatedInCommitOrder
  <2>2. txns[i].amount >= LargeAmount <=> "LARGE_AMOUNT" \in Raised(i)
    BY <2>1, RuleFacts DEF large_amount
  <2>3. ASSUME "LARGE_AMOUNT" \in Raised(i)
        PROVE  \E c \in cases : c.alert.id = i /\ c.priority = "high"
    <3>1. PICK a \in alerts : a.id = i /\ a.rule = "LARGE_AMOUNT"
      BY <2>3 DEF Raised
    <3>2. a.severity = Severity("LARGE_AMOUNT") /\ cases = CasesFor(alerts)
      BY <3>1 DEF MonitoringInv, AlertsCommitted
    <3>3. OpensCase("LARGE_AMOUNT") /\ Severity("LARGE_AMOUNT") = "high"
      BY SeverityFacts DEF Findings
    <3>4. [alert |-> a, priority |-> a.severity] \in cases
      BY <3>1, <3>2, <3>3 DEF CasesFor
    <3> QED
      BY <3>1, <3>2, <3>3, <3>4
  <2> QED
    BY <2>2, <2>3
<1> QED
  BY <1>1, MonitoringInvariant, PTL

-----------------------------------------------------------------------------
\* StructuringFlagged does not hold.  What holds instead: a payment carries the
\* structuring alert exactly if the rows within its window say so now, unless
\* one of those rows, stamped no later than the payment, was committed after it.
\* Nothing else makes the rule miss a row or see one too many.
FlaggedUnlessOvertaken ==
  LET all == [i \in CommittedIds |-> txns[i]]
  IN \A n \in DOMAIN committed :
       \/ \E m \in DOMAIN committed :
            m > n /\ committed[m] \in VelocityRows(all, txns[committed[n]])
       \/ "VELOCITY_STRUCTURING" \in Raised(committed[n]) <=> velocity(all, txns[committed[n]])

\* The velocity rule depends on the rows it counts only.  Their sum is the value
\* of a function that MapThenSumSet chooses by its equation, and the equations
\* are the same when the amounts are.
LEMMA VelocityAgrees ==
  ASSUME NEW f, NEW g, NEW txn,
         VelocityRows(f, txn) = VelocityRows(g, txn),
         \A i \in VelocityRows(f, txn) : f[i] = g[i]
  PROVE  velocity(f, txn) <=> velocity(g, txn)
<1> DEFINE S == VelocityRows(f, txn)
           pick(s) == CHOOSE x \in s : TRUE
           inF(i) == f[i].amount
           inG(i) == g[i].amount
           F(it) == it = [s \in SUBSET S |->
                            IF s = {} THEN 0 ELSE f[pick(s)].amount + it[s \ {pick(s)}]]
           G(it) == it = [s \in SUBSET S |->
                            IF s = {} THEN 0 ELSE g[pick(s)].amount + it[s \ {pick(s)}]]
<1>1. S = VelocityRows(g, txn) /\ \A i \in S : f[i] = g[i]
  OBVIOUS
<1> HIDE DEF S
<1>2. ASSUME NEW s \in SUBSET S, s # {} PROVE f[pick(s)].amount = g[pick(s)].amount
  <2>1. pick(s) \in S
    BY <1>2
  <2> QED
    BY <1>1, <2>1
<1>3. ASSUME NEW it PROVE F(it) <=> G(it)
  <2>1. [s \in SUBSET S |-> IF s = {} THEN 0 ELSE f[pick(s)].amount + it[s \ {pick(s)}]]
          = [s \in SUBSET S |-> IF s = {} THEN 0 ELSE g[pick(s)].amount + it[s \ {pick(s)}]]
    BY <1>2
  <2> QED
    BY <2>1
<1>4. (CHOOSE it : F(it)) = (CHOOSE it : G(it))
  <2> HIDE DEF F, G
  <2> QED
    BY <1>3
<1>5. MapThenSumSet(inF, S) = MapThenSumSet(inG, S)
  BY <1>4, Zenon DEF MapThenSumSet, MapThenFoldSet
<1> QED
  BY <1>1, <1>5, Zenon DEF velocity, S, MapThenSumSet, MapThenFoldSet

LEMMA OvertakenOnly ==
  ASSUME MonitoringInv
  PROVE  FlaggedUnlessOvertaken
<1> DEFINE all == [i \in CommittedIds |-> txns[i]]
<1> SUFFICES ASSUME NEW n \in DOMAIN committed,
                    \A m \in DOMAIN committed :
                      m > n => committed[m] \notin VelocityRows(all, txns[committed[n]])
             PROVE  "VELOCITY_STRUCTURING" \in Raised(committed[n])
                      <=> velocity(all, txns[committed[n]])
  BY DEF FlaggedUnlessOvertaken
<1> DEFINE txn == txns[committed[n]]
           before == {committed[k] : k \in 1..n}
<1>1. DOMAIN committed = 1..Len(committed) /\ Len(committed) \in Nat
  BY DEF MonitoringInv, TypeOK
<1>2. \A i \in CommittedIds : i \in before \/ i \notin VelocityRows(all, txn)
  <2> SUFFICES ASSUME NEW m \in DOMAIN committed, committed[m] \notin before
               PROVE  committed[m] \notin VelocityRows(all, txn)
    BY DEF CommittedIds
  <2>1. m > n
    BY <1>1
  <2> QED
    BY <2>1
<1>3. before \subseteq CommittedIds
  BY <1>1 DEF CommittedIds
<1>4. Prefix(n) = [i \in before |-> txns[i]]
  BY DEF Prefix
<1> HIDE DEF before, txn
<1>5. VelocityRows(Prefix(n), txn) = VelocityRows(all, txn)
  BY <1>2, <1>3, <1>4 DEF VelocityRows
<1>6. \A i \in VelocityRows(Prefix(n), txn) : Prefix(n)[i] = all[i]
  BY <1>3, <1>4 DEF VelocityRows
<1> HIDE DEF all
<1>7. velocity(Prefix(n), txn) <=> velocity(all, txn)
  BY <1>5, <1>6, VelocityAgrees
<1>8. Raised(committed[n]) = evaluate_transaction(Prefix(n), txn)
  BY DEF MonitoringInv, EvaluatedInCommitOrder, txn
<1>9. "VELOCITY_STRUCTURING" \in evaluate_transaction(Prefix(n), txn) <=> velocity(Prefix(n), txn)
  BY DEF evaluate_transaction
<1> QED
  BY <1>7, <1>8, <1>9 DEF txn, all

\* The structuring alert of a payment misses committed rows only if they were
\* stamped no later than the payment and yet committed after it.
THEOREM StructuringMissedOnlyOutOfOrder == Spec => []FlaggedUnlessOvertaken
<1>1. MonitoringInv => FlaggedUnlessOvertaken
  BY OvertakenOnly
<1> QED
  BY <1>1, MonitoringInvariant, PTL
=============================================================================

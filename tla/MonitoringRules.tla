--------------------------- MODULE MonitoringRules ---------------------------
(***************************************************************************)
(* The monitoring rules (app/services/monitoring/rules) as operators on    *)
(* the transactions a session sees.  Thresholds are the settings of        *)
(* app/config.py; amounts are stored ones, in cents.                       *)
(***************************************************************************)
EXTENDS Integers, FiniteSetsExt

CONSTANTS LargeAmount,       \* monitoring_large_amount_threshold
          VelocityAmount,    \* monitoring_velocity_amount_threshold
          VelocityCount,     \* monitoring_velocity_min_transactions
          VelocityWindow,    \* monitoring_velocity_window_hours
          RoundMinimum,      \* monitoring_round_amount_minimum
          RoundModulus       \* monitoring_round_amount_modulus

\* Mutated form: strictly above the threshold.
large_amount_above(txn) == txn.amount > LargeAmount

large_amount(txn) == txn.amount >= LargeAmount

\* Mutated form: "minimum" is not looked at.
round_amount_any(txn) == txn.amount % RoundModulus = 0

round_amount(txn) == txn.amount >= RoundMinimum /\ txn.amount % RoundModulus = 0

\* The rows the velocity query counts; seen maps ids to transactions.
VelocityRows(seen, txn) ==
  {i \in DOMAIN seen :
     /\ seen[i].customer = txn.customer /\ seen[i].currency = txn.currency
     /\ seen[i].amount < LargeAmount
     /\ seen[i].created_at >= txn.created_at - VelocityWindow
     /\ seen[i].created_at <= txn.created_at}

velocity(seen, txn) ==
  LET counted == VelocityRows(seen, txn)
      amount(i) == seen[i].amount
  IN /\ counted # {}
     /\ MapThenSumSet(amount, counted) >= VelocityAmount
     /\ Cardinality(counted) >= VelocityCount

Findings == {"LARGE_AMOUNT", "VELOCITY_STRUCTURING", "ROUND_AMOUNT"}

Severity(rule) == IF rule = "ROUND_AMOUNT" THEN "low" ELSE "high"

\* monitoring/engine.py: the findings of every rule.
evaluate_transaction(seen, txn) ==
  (IF large_amount(txn) THEN {"LARGE_AMOUNT"} ELSE {})
    \cup (IF velocity(seen, txn) THEN {"VELOCITY_STRUCTURING"} ELSE {})
    \cup (IF round_amount(txn) THEN {"ROUND_AMOUNT"} ELSE {})
=============================================================================

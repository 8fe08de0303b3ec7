---------------------- MODULE MCTransactionMonitoring ----------------------
EXTENDS TransactionMonitoring, TLC

CONSTANTS x1, x2, x3, alice, bob, ngn, usd, r1, r2, r3

Symmetry == Permutations(Requests) \cup Permutations(Ids) \cup Permutations(Customers)
              \cup Permutations(Currencies)
=============================================================================

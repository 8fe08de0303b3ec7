----------------------------- MODULE MCAuditLog -----------------------------
EXTENDS AuditLog, TLC

CONSTANTS t1, t2, r1, r2, rec1, rec2, c1, c2, v1, v2

\* c2 rounds v2 to v1, as NUMERIC(18, 2) rounds an amount of 0.999 to 1.00.
MCStoredAs == [c \in Columns |-> [v \in Values |-> IF c = c2 THEN v1 ELSE v]]

\* Columns and values are told apart by the rounding and are not permuted.
Symmetry == Permutations(Requests) \cup Permutations(Records)
=============================================================================

--------------------------- MODULE MCChainVerifier ---------------------------
EXTENDS ChainVerifier, TLC

CONSTANTS t1, t2, r1, r2, rec1, rec2, c1, w1, w2, v1, v2

\* The verifier reads the log, which is not rounded, and no rows.
MCStoredAs == [c \in Columns |-> [v \in Values |-> v]]

Symmetry == Permutations(Records) \cup Permutations(Values)
=============================================================================

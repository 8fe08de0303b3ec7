--------------------------- MODULE MCCaseWorkflow ---------------------------
EXTENDS CaseWorkflow, TLC

CONSTANTS k1, k2, alice, bob, s1, s2, a1, r1, r2

MCSourceCustomer == (s1 :> alice) @@ (s2 :> bob)
MCOneSource == (s1 :> alice)
MCInitialSource == (k1 :> s1)

MCNoSource == [k \in {} |-> s1]

Symmetry == Permutations(Requests)
=============================================================================

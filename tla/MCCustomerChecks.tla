-------------------------- MODULE MCCustomerChecks --------------------------
EXTENDS CustomerChecks, TLC

CONSTANTS t1, t2, c1, c2, k1, k2, near, far, error, blank, e1, e2, v1, v2, zeros, nines, p1, p2, r1, r2

\* near is 69.96 % like the first entry, which rounds to 70.0.
MCSimilarity == (near :> ((e1 :> 6996) @@ (e2 :> 3000)))
                  @@ (far :> ((e1 :> 6990) @@ (e2 :> 6904)))
                  @@ (error :> ((e1 :> 0) @@ (e2 :> 0)))

\* v1 and v2 end with the same four digits.
MCLastFour == (v1 :> v1) @@ (v2 :> v1) @@ (zeros :> zeros) @@ (nines :> nines)

Symmetry == Permutations(Requests) \cup Permutations(Tenants) \cup Permutations(Customers)
              \cup Permutations(Checks)
=============================================================================

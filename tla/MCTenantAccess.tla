--------------------------- MODULE MCTenantAccess ---------------------------
EXTENDS TenantAccess

CONSTANTS t1, t2, k1, k2, c1, c2, r1, r2
=============================================================================

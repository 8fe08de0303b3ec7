----------------------------- MODULE MCDashboard -----------------------------
EXTENDS Dashboard

CONSTANTS a1, a2, all, open, k1, k2
=============================================================================

------------------------------- MODULE MCReports -------------------------------
EXTENDS Reports

CONSTANTS u1, u2, k1, k2
=============================================================================

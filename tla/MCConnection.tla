--------------------------- MODULE MCConnection ---------------------------
EXTENDS Connection, TLC
CONSTANTS r1, r2, t1

Workmen == Permutations(Requests)
=============================================================================

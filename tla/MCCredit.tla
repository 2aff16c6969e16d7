------------------------------ MODULE MCCredit ------------------------------
(* Small instances of Credit for TLC.                                       *)
EXTENDS Credit, TLC

CONSTANTS r1, r2, r3, r4, g1, g2

Symetrie == Permutations(Ids) \cup Permutations(Clients) \cup Permutations(Guichets)
=============================================================================

------------------------------ MODULE MCTontine ------------------------------
(* Small instances of Tontine for TLC.                                      *)
EXTENDS Tontine, TLC

CONSTANTS i1, i2, i3, i4, i5

Symetrie == Permutations(Ids)
=============================================================================

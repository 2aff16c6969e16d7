----------------------------- MODULE MCRecharge -----------------------------
(* Small instances of Recharge for TLC.                                     *)
EXTENDS Recharge, TLC

CONSTANTS i1, i2, i3, w1, w2, q1, n1, n2

Symetrie == Permutations(Ids) \cup Permutations(Rappels) \cup Permutations(Crons)
=============================================================================

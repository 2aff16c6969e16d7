---------------------------- MODULE MCCommandes ----------------------------
(* Small instances of Commandes for TLC.                                    *)
EXTENDS Commandes, TLC

CONSTANTS c1, c2, n1, r1, r2, a1

Symetrie == Permutations(Requetes)
=============================================================================

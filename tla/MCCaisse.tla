------------------------------ MODULE MCCaisse ------------------------------
(* Small instances of Caisse for TLC.                                       *)
EXTENDS Caisse, TLC

CONSTANTS p1, p2, r1, r2, r3, g1, g2

DeuxProduits == {p1, p2}

(* A cart that holds both products, which requests lock in either order, and*)
(* one that oversells p1.                                                   *)
PaniersCroises == {[p \in Produits |-> 1], [p \in Produits |-> IF p = p1 THEN 3 ELSE 0]}

(* The first of them alone.                                                 *)
UnPanier == {[p \in Produits |-> 1]}

Symetrie == Permutations(Ids) \cup Permutations(Guichets)
=============================================================================

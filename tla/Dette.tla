------------------------------- MODULE Dette -------------------------------
(***************************************************************************)
(* What the credit routes promise, without handlers, locks or transactions: *)
(* a debt is born with a total, cash is taken on it in one step, never more *)
(* than is still due, and a key takes cash once.  Module Credit implements  *)
(* it (Credit!Promesse).                                                    *)
(***************************************************************************)
EXTENDS Integers

CONSTANTS Dettes,    \* identifiers of debts
          Jetons     \* idempotency keys

VARIABLES total,     \* total of each debt, 0 before it is born
          verse,     \* cash taken on each debt
          depenses   \* keys that have taken cash

varsDette == <<total, verse, depenses>>

Reste(d) == total[d] - verse[d]

InitDette ==
  /\ total = [d \in Dettes |-> 0]
  /\ verse = [d \in Dettes |-> 0]
  /\ depenses = {}

(* A debt is born, with a first payment or without.                         *)
Naitre(d) ==
  /\ total[d] = 0
  /\ total'[d] \in Nat \ {0}
  /\ total' = [total EXCEPT ![d] = total'[d]]
  /\ \/ UNCHANGED <<verse, depenses>>
     \/ \E m \in 1..total'[d], k \in Jetons \ depenses :
          /\ verse' = [verse EXCEPT ![d] = m]
          /\ depenses' = depenses \cup {k}

(* A payment, at most what is still due.                                    *)
Encaisser(d) ==
  /\ total[d] > 0
  /\ \E m \in 1..Reste(d), k \in Jetons \ depenses :
       /\ verse' = [verse EXCEPT ![d] = @ + m]
       /\ depenses' = depenses \cup {k}
  /\ UNCHANGED total

NextDette == \E d \in Dettes : Naitre(d) \/ Encaisser(d)

SpecDette == InitDette /\ [][NextDette]_varsDette
=============================================================================

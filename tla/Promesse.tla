------------------------------ MODULE Promesse ------------------------------
(***************************************************************************)
(* What the till promises of an operation entered on the telephone,         *)
(* whatever happens to the network (offlineCaisse.ts, and the comment of    *)
(* ResultatEnregistrement in CaisseContext.tsx): once kept, it ends done at *)
(* the server or given back to the merchant, and an account has its effect  *)
(* at most once.                                                            *)
(***************************************************************************)
EXTENDS Naturals

CONSTANTS Ops, Comptes

VARIABLES sort,   \* where the operation stands for the merchant
          effets  \* how many times the server did it in the name of an account

Sorts == {"neuve", "envoi", "gardee", "acquise", "rendue", "oubliee"}

Init == /\ sort = [o \in Ops |-> "neuve"]
        /\ effets = [p \in Ops \X Comptes |-> 0]

Passer(o, de, vers) == sort[o] \in de /\ sort' = [sort EXCEPT ![o] = vers]

Prendre(o) == Passer(o, {"neuve"}, "envoi") /\ UNCHANGED effets

Garder(o) == Passer(o, {"neuve", "envoi"}, "gardee") /\ UNCHANGED effets

(* The server does it once, even after the merchant was answered.           *)
Faire(o, c) == /\ sort[o] # "neuve"
               /\ effets[<<o, c>>] = 0
               /\ effets' = [effets EXCEPT ![<<o, c>>] = 1]
               /\ UNCHANGED sort

(* Told done, or taken out of the queue: only what was done.                *)
Acquerir(o) == /\ \E c \in Comptes : effets[<<o, c>>] = 1
               /\ Passer(o, {"envoi", "gardee"}, "acquise")
               /\ UNCHANGED effets

(* Given back: an error on the screen, or a dead letter.                    *)
Rendre(o) == Passer(o, {"envoi", "gardee"}, "rendue") /\ UNCHANGED effets

(* The application is closed before it told anything of the operation.      *)
Oublier(S) == /\ \A o \in S : sort[o] = "envoi"
              /\ sort' = [o \in Ops |-> IF o \in S THEN "oubliee" ELSE sort[o]]
              /\ UNCHANGED effets

Next == \/ \E o \in Ops : Prendre(o) \/ Garder(o) \/ Acquerir(o) \/ Rendre(o)
        \/ \E o \in Ops, c \in Comptes : Faire(o, c)
        \/ \E S \in SUBSET Ops : Oublier(S)

Spec == Init /\ [][Next]_<<sort, effets>>
=============================================================================

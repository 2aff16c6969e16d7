--------------------------- MODULE CommandesProofs ---------------------------
(***************************************************************************)
(* For any number of orders, negotiations and requests in progress: the     *)
(* stock a producer puts on sale is conserved, a cancelled order reserves     *)
(* none, a sale is final and counted once, an accepted negotiation has its   *)
(* stock, and the money of an order moves once.                             *)
(*                                                                          *)
(* A handler decides on a copy of the order that may be stale when it       *)
(* writes.  What makes the properties inductive is what such a copy is      *)
(* still worth (CopieVaut): a copy that says annulee is of an order that    *)
(* holds no reservation and never will again, one that says paye is of an   *)
(* order whose money has moved.                                             *)
(***************************************************************************)
EXTENDS Commandes, SommesTheorems

(* The records of the handlers.                                             *)
Demande ==
  [genre : {"libre"}]
  \cup [genre : {"patch"}, cmd : Cmds, lu : Statuts \cup {"en_attente", "confirmee", "livree"}]
  \cup [genre : {"livrer"}, cmd : Cmds, lu : {"non_paye", "paye"}]
  \cup [genre : {"ecrire"}, cmd : Cmds, statut : BOOLEAN,
        paiement : {"non_paye", "paye", "inchange"}]
  \cup [genre : {"vendeur", "marchand"}, nego : Negos, nb : 0..LIMITE]

SurCommande(r) == requetes[r].genre \in {"patch", "livrer", "ecrire"}

(* The money of order c has moved, if it is to be paid by Keiwa.            *)
Reglee(c) == commandes[c].mode = "keiwa" => debits[c] = 1

(* What the copy of a handler is still worth.                               *)
CopieVaut(r) ==
  /\ SurCommande(r) => Existe(requetes[r].cmd)
  /\ requetes[r].genre = "patch" /\ requetes[r].lu = "annulee" =>
       reservations[requetes[r].cmd] # "active"
  /\ requetes[r].genre = "livrer" /\ requetes[r].lu = "paye" => Reglee(requetes[r].cmd)
  /\ requetes[r].genre = "ecrire" /\ requetes[r].paiement = "paye" =>
       Reglee(requetes[r].cmd)
  /\ Repondant(r) => negos[requetes[r].nego].statut # "absente"

Copies == \A r \in Requetes \cup Reponses : CopieVaut(r)

(* An order that was not placed has touched nothing.                        *)
Vierge(c) == ~Existe(c) => reservations[c] = "aucune" /\ prises[c] = 0 /\ debits[c] = 0

Types ==
  /\ TypeOK
  /\ requetes \in [Requetes \cup Reponses -> Demande]
  /\ \A n \in Negos : negos[n].statut # "absente" => negos[n].quantite \in Quantites

ICommandes ==
  /\ Types /\ Copies /\ \A c \in Cmds : Vierge(c)
  /\ StockPublieConserve /\ AnnuleeRestituee /\ VenduExact /\ AcceptationServie
  /\ UnSeulDebit

----------------------------------------------------------------------------
(* Sums and records.                                                        *)

LEMMA CmdsFini == IsFiniteSet(Cmds)
BY CommandesConstantes, FS_Union DEF Cmds

LEMMA SommeChange ==
  ASSUME NEW f, \A d \in Cmds : f[d] \in Int, NEW h, NEW c \in Cmds, h[c] \in Int,
         \A d \in Cmds \ {c} : h[d] = f[d]
  PROVE  Somme(f) \in Int /\ Somme(h) \in Int /\ Somme(h) = Somme(f) - f[c] + h[c]
BY CmdsFini, SommeMiseAJour DEF Somme

LEMMA SommePareille ==
  ASSUME NEW f, NEW h, \A d \in Cmds : h[d] = f[d]
  PROVE  Somme(h) = Somme(f)
BY CmdsFini, SommeCongruence DEF Somme

(* A placed order has the fields of an order.                               *)
LEMMA CommandeExiste ==
  ASSUME NEW x \in Commande
  PROVE  /\ x # Absente
         /\ x.statut \in Statuts \cup {"en_attente", "confirmee", "livree"}
         /\ x.paiement \in {"non_paye", "paye"} /\ x.mode \in {"keiwa", "especes"}
         /\ x.lien \in {"publication", "recolte", "aucun"}
         /\ x.quantite \in Quantites /\ x.quantite \in Nat
<1>1. /\ x.statut \in Statuts \cup {"en_attente", "confirmee", "livree"}
      /\ x.paiement \in {"non_paye", "paye"} /\ x.mode \in {"keiwa", "especes"}
      /\ x.lien \in {"publication", "recolte", "aucun"}
      /\ x.quantite \in Quantites
  BY DEF Commande
<1>2. x.statut # "absente"
  BY <1>1, CommandesConstantes
<1>3. x # Absente
  BY <1>2 DEF Absente
<1> QED
  BY <1>1, <1>3, CommandesConstantes

LEMMA Placee ==
  ASSUME TypeOK, NEW c \in Cmds
  PROVE  Existe(c) <=> commandes[c] \in Commande
BY CommandeExiste DEF TypeOK, Existe

----------------------------------------------------------------------------
(* What any operation on the stock does to the reservation of one order of  *)
(* quantity q, tied to l.                                                   *)
Passage(c, q, l) ==
  /\ reservations' \in [Cmds -> {"aucune", "active", "convertie", "liberee"}]
  /\ prises' \in [Cmds -> Nat]
  /\ disponible' \in Nat /\ apport' = apport
  /\ recolte' \in [disponible : Nat, vendu : Nat, publiee : BOOLEAN]
  /\ \A d \in Cmds \ {c} : reservations'[d] = reservations[d] /\ prises'[d] = prises[d]
  /\ disponible' + prises'[c] = disponible + prises[c]
  /\ prises'[c] > 0 => reservations'[c] \in {"active", "convertie"}
  /\ reservations[c] \in {"convertie", "liberee"} =>
       reservations'[c] = reservations[c] /\ prises'[c] = prises[c]
  /\ recolte'.vendu = recolte.vendu +
       (IF /\ reservations[c] # "convertie" /\ reservations'[c] = "convertie"
           /\ l = "recolte" \/ recolte.publiee
          THEN q ELSE 0)
  /\ recolte'.publiee = recolte.publiee

(* One that opens no reservation.                                           *)
Ferme(c) == reservations'[c] = "active" => reservations[c] = "active"

LEMMA PlafonnerType ==
  ASSUME NEW x \in Int
  PROVE  Plafonner(x) \in Nat /\ (x <= 0 => Plafonner(x) = 0) /\ (x >= 0 => Plafonner(x) = x)
BY DEF Plafonner

LEMMA VendreType ==
  ASSUME TypeOK, NEW q \in Nat, Vendre(q)
  PROVE  /\ recolte' \in [disponible : Nat, vendu : Nat, publiee : BOOLEAN]
         /\ recolte'.vendu = recolte.vendu + q /\ recolte'.publiee = recolte.publiee
<1>1. recolte.disponible \in Nat /\ recolte.vendu \in Nat /\ recolte.publiee \in BOOLEAN
  BY DEF TypeOK
<1>2. Plafonner(recolte.disponible - q) \in Nat
  BY <1>1, PlafonnerType
<1>3. recolte' = [disponible |-> Plafonner(recolte.disponible - q),
                  vendu |-> recolte.vendu + q, publiee |-> recolte.publiee]
  BY DEF Vendre, TypeOK
<1> QED
  BY <1>1, <1>2, <1>3

LEMMA VendrePublieeType ==
  ASSUME TypeOK, NEW q \in Nat, VendrePubliee(q)
  PROVE  /\ recolte' \in [disponible : Nat, vendu : Nat, publiee : BOOLEAN]
         /\ recolte'.vendu = recolte.vendu + (IF recolte.publiee THEN q ELSE 0)
         /\ recolte'.publiee = recolte.publiee
BY VendreType DEF VendrePubliee, TypeOK

LEMMA PassageRien ==
  ASSUME TypeOK, StockPublieConserve, NEW c \in Cmds, NEW q \in Nat, NEW l, UNCHANGED stock
  PROVE  Passage(c, q, l) /\ Ferme(c)
BY DEF TypeOK, StockPublieConserve, stock, Passage, Ferme

LEMMA PassageReserver ==
  ASSUME TypeOK, NEW c \in Cmds, NEW q \in Nat, NEW l, reservations[c] = "aucune", prises[c] = 0,
         Reserver(c, q)
  PROVE  Passage(c, q, l)
BY DEF TypeOK, Reserver, Passage

LEMMA PassageConvertir ==
  ASSUME TypeOK, StockPublieConserve, NEW c \in Cmds, NEW q \in Nat, Convertir(c, q)
  PROVE  Passage(c, q, "publication") /\ Ferme(c)
<1>1. CASE reservations[c] = "active" /\ Convertie(c) /\ VendrePubliee(q)
             /\ UNCHANGED <<prises, disponible, apport>>
  BY <1>1, VendrePublieeType DEF TypeOK, Convertie, Passage, Ferme
<1>2. CASE /\ reservations[c] = "aucune"
           /\ disponible' = Plafonner(disponible - q)
           /\ prises' = [prises EXCEPT ![c] = disponible - Plafonner(disponible - q)]
           /\ Convertie(c) /\ VendrePubliee(q)
           /\ UNCHANGED apport
  <2>1. /\ disponible \in Nat /\ Plafonner(disponible - q) \in Nat
        /\ disponible - Plafonner(disponible - q) \in Nat
    BY PlafonnerType DEF TypeOK
  <2>2. prises[c] = 0
    BY <1>2 DEF TypeOK, StockPublieConserve
  <2> QED
    BY <1>2, <2>1, <2>2, VendrePublieeType DEF TypeOK, Convertie, Passage, Ferme
<1>3. CASE reservations[c] \in {"convertie", "liberee"} /\ UNCHANGED stock
  BY <1>3, PassageRien
<1> QED
  BY <1>1, <1>2, <1>3 DEF Convertir

LEMMA PassageRecolte ==
  ASSUME TypeOK, StockPublieConserve, NEW c \in Cmds, NEW q \in Nat, ConvertirRecolte(c, q)
  PROVE  Passage(c, q, "recolte") /\ Ferme(c)
<1>1. CASE reservations[c] = "aucune"
  <2>1. prises[c] = 0
    BY <1>1 DEF TypeOK, StockPublieConserve
  <2>2. Convertie(c) /\ Vendre(q) /\ UNCHANGED <<prises, disponible, apport>>
    BY <1>1 DEF ConvertirRecolte
  <2> QED
    BY <1>1, <2>1, <2>2, VendreType DEF TypeOK, Convertie, Passage, Ferme
<1>2. CASE reservations[c] # "aucune"
  BY <1>2, PassageRien DEF ConvertirRecolte
<1> QED
  BY <1>1, <1>2

LEMMA PassageConfirmer ==
  ASSUME TypeOK, StockPublieConserve, NEW c \in Cmds, NEW q \in Nat,
         NEW lien \in {"publication", "recolte", "aucun"}, Confirmer(c, lien, q)
  PROVE  Passage(c, q, lien) /\ Ferme(c)
BY PassageConvertir, PassageRecolte, PassageRien DEF Confirmer

LEMMA PassageAccord ==
  ASSUME TypeOK, NEW c \in Cmds, NEW q \in Nat, reservations[c] = "aucune", prises[c] = 0,
         ReserverConvertir(c, q)
  PROVE  Passage(c, q, "publication") /\ Ferme(c) /\ reservations'[c] = "convertie" /\ prises'[c] = q
BY VendrePublieeType DEF TypeOK, ReserverConvertir, Convertie, Passage, Ferme

LEMMA PassageLiberer ==
  ASSUME TypeOK, StockPublieConserve, NEW c \in Cmds, NEW q \in Nat, NEW l, Liberer(c)
  PROVE  Passage(c, q, l) /\ Ferme(c) /\ reservations'[c] # "active"
<1>1. CASE reservations[c] = "active"
  BY <1>1 DEF TypeOK, Liberer, Passage, Ferme
<1>2. CASE reservations[c] # "active"
  BY <1>2, PassageRien DEF Liberer, stock
<1> QED
  BY <1>1, <1>2

(* The two sums that follow a passage: the stock on sale and the harvest.   *)
LEMMA SommesPassage ==
  ASSUME Types, \A d \in Cmds : Vierge(d), StockPublieConserve, VenduExact,
         NEW c \in Cmds, NEW x \in Commande, commandes' = [commandes EXCEPT ![c] = x],
         Existe(c) => x.quantite = commandes[c].quantite /\ x.lien = commandes[c].lien,
         Passage(c, x.quantite, x.lien)
  PROVE  StockPublieConserve' /\ VenduExact'
<1> USE DEF Types
<1>1. \A d \in Cmds : Ventes[d] \in Int
  BY Placee, CommandeExiste DEF Vierge, Ventes, VendLaRecolte
<1>2. x.quantite \in Nat
  BY CommandeExiste
<1>3. StockPublieConserve'
  <2>0. prises \in [Cmds -> Nat] /\ prises' \in [Cmds -> Nat]
    BY DEF TypeOK, Passage
  <2>1. \A d \in Cmds : prises[d] \in Int /\ prises'[d] \in Int
    BY <2>0
  <2>2. /\ Somme(prises) \in Int /\ Somme(prises') \in Int
        /\ Somme(prises') = Somme(prises) - prises[c] + prises'[c]
    <3>1. \A d \in Cmds \ {c} : prises'[d] = prises[d]
      BY DEF Passage
    <3> QED
      BY <2>1, <3>1, SommeChange
  <2>3. Somme(prises)' = Somme(prises')
    BY DEF Somme
  <2>4. disponible' + Somme(prises') = apport'
    BY <2>1, <2>2 DEF Passage, StockPublieConserve, TypeOK
  <2>5. \A d \in Cmds : prises'[d] > 0 => reservations'[d] \in {"active", "convertie"}
    BY DEF Passage, StockPublieConserve
  <2> QED
    BY <2>3, <2>4, <2>5 DEF StockPublieConserve
<1>4. VenduExact'
  <2>1. \A d \in Cmds \ {c} : Ventes'[d] = Ventes[d]
    BY DEF Ventes, VendLaRecolte, Passage, TypeOK
  <2>0. /\ x.lien = "recolte" \/ recolte.publiee
              <=> commandes'[c].lien = "recolte" \/ recolte'.publiee
        /\ commandes'[c] = x /\ (Existe(c) => x.lien = commandes[c].lien)
    BY DEF Passage, TypeOK
  <2>2. /\ Ventes[c] = IF reservations[c] = "convertie" /\ (x.lien = "recolte" \/ recolte.publiee)
                         THEN x.quantite ELSE 0
        /\ Ventes'[c] = IF reservations'[c] = "convertie" /\ (x.lien = "recolte" \/ recolte.publiee)
                          THEN x.quantite ELSE 0
    BY <2>0 DEF Ventes, VendLaRecolte, Vierge, TypeOK
  <2>3. Somme(Ventes) \in Int /\ Somme(Ventes') = Somme(Ventes) - Ventes[c] + Ventes'[c]
    BY <1>1, <1>2, <2>1, <2>2, SommeChange
  <2>4. Somme(Ventes)' = Somme(Ventes')
    BY DEF Somme
  <2>5. recolte'.vendu = recolte.vendu - Ventes[c] + Ventes'[c] /\ recolte.vendu \in Nat
    BY <1>2, <2>2 DEF Passage, TypeOK
  <2> QED
    BY <1>1, <1>2, <2>2, <2>3, <2>4, <2>5 DEF VenduExact
<1> QED
  BY <1>3, <1>4

----------------------------------------------------------------------------
(* What no step undoes, on which the copies rely.                           *)
Durable ==
  /\ \A d \in Cmds : Existe(d) =>
       /\ Existe(d)' /\ commandes'[d].mode = commandes[d].mode
       /\ debits[d] = 1 => debits'[d] = 1
       /\ Ferme(d)
  /\ \A n \in Negos : negos[n].statut # "absente" => negos'[n].statut # "absente"

LEMMA CopiesGardees ==
  ASSUME Types, Copies, Durable,
         \A k \in Requetes \cup Reponses :
           requetes'[k] = requetes[k] \/ requetes'[k].genre = "libre" \/ CopieVaut(k)'
  PROVE  Copies'
<1> SUFFICES ASSUME NEW k \in Requetes \cup Reponses PROVE CopieVaut(k)'
  BY DEF Copies
<1>1. CASE requetes'[k] = requetes[k]
  <2>1. requetes[k] \in Demande /\ CopieVaut(k)
    BY DEF Types, Copies
  <2>2. CASE SurCommande(k)
    <3>1. requetes[k].cmd \in Cmds
      BY <2>1, <2>2 DEF SurCommande, Demande
    <3> QED
      BY <1>1, <2>1, <2>2, <3>1
      DEF Durable, CopieVaut, SurCommande, Repondant, Reglee, Ferme
  <2>3. CASE Repondant(k)
    <3>1. requetes[k].nego \in Negos
      BY <2>1, <2>3 DEF Repondant, Demande
    <3> QED
      BY <1>1, <2>1, <2>3, <3>1 DEF Durable, CopieVaut, SurCommande, Repondant
  <2> QED
    BY <1>1, <2>2, <2>3 DEF CopieVaut, SurCommande, Repondant
<1>2. CASE requetes'[k].genre = "libre"
  BY <1>2 DEF CopieVaut, SurCommande, Repondant
<1> QED
  BY <1>1, <1>2

(* A step writes x as the row of order c, with what that does to the stock. *)
Ecriture(c, x) ==
  /\ x \in Commande /\ commandes' = [commandes EXCEPT ![c] = x]
  /\ Passage(c, x.quantite, x.lien) /\ UNCHANGED argent
  /\ Existe(c) => /\ Ferme(c)
                  /\ x.quantite = commandes[c].quantite /\ x.mode = commandes[c].mode
                  /\ x.lien = commandes[c].lien /\ x.nego = commandes[c].nego
  /\ x.paiement = "paye" /\ x.mode = "keiwa" => debits[c] = 1
  /\ x.statut = "annulee" => reservations'[c] # "active"
  /\ ~Existe(c) /\ x.nego # "aucune" /\ x.lien = "publication" =>
       reservations'[c] = "convertie" /\ prises'[c] = x.quantite

Tables == /\ commandes \in [Cmds -> Commande \cup {Absente}]
          /\ reservations \in [Cmds -> {"aucune", "active", "convertie", "liberee"}]
          /\ prises \in [Cmds -> Nat]
          /\ disponible \in Nat /\ apport \in Int
          /\ recolte \in [disponible : Nat, vendu : Nat, publiee : BOOLEAN]
          /\ soldes \in [acheteur : Nat, vendeur : Nat]
          /\ debits \in [Cmds -> Nat]

Metier == /\ \A c \in Cmds : Vierge(c)
          /\ StockPublieConserve /\ AnnuleeRestituee /\ VenduExact /\ AcceptationServie
          /\ UnSeulDebit

LEMMA PasEcriture ==
  ASSUME ICommandes, NEW c \in Cmds, NEW x, Ecriture(c, x)
  PROVE  /\ Tables' /\ Metier'
         /\ \A d \in Cmds : Existe(d) =>
              /\ Existe(d)' /\ commandes'[d].mode = commandes[d].mode
              /\ debits'[d] = debits[d] /\ Ferme(d)
<1> USE DEF ICommandes, Types
<1>x. /\ x \in Commande /\ x # Absente /\ commandes'[c] = x
      /\ \A d \in Cmds \ {c} : commandes'[d] = commandes[d]
  BY CommandeExiste DEF Ecriture, TypeOK
<1>d. debits' = debits /\ soldes' = soldes
  BY DEF Ecriture, argent
<1>1. Tables'
  BY <1>x, <1>d DEF TypeOK, Tables, Ecriture, Passage
<1>2. StockPublieConserve' /\ VenduExact'
  BY SommesPassage DEF Ecriture
<1>3. AnnuleeRestituee'
  BY <1>x, <1>1, <1>2 DEF Tables, AnnuleeRestituee, Ecriture, Passage, StockPublieConserve
<1>4. AcceptationServie'
  BY <1>x DEF AcceptationServie, Ecriture, Passage, Existe
<1>5. \A d \in Cmds : Vierge(d)'
  BY <1>x, <1>d DEF Vierge, Existe, Ecriture, Passage
<1>6. UnSeulDebit'
  <2>1. Somme(Encaisse)' = Somme(Encaisse)
    BY <1>d DEF Somme, Encaisse
  <2> QED
    BY <1>x, <1>d, <2>1 DEF UnSeulDebit, Ecriture, Existe
<1>7. \A d \in Cmds : Existe(d) =>
         /\ Existe(d)' /\ commandes'[d].mode = commandes[d].mode
         /\ debits'[d] = debits[d] /\ Ferme(d)
  BY <1>x, <1>d DEF Existe, Ecriture, Passage, Ferme
<1> QED
  BY <1>1, <1>2, <1>3, <1>4, <1>5, <1>6, <1>7 DEF Metier

(* A step that only touches the handlers and the negotiations.              *)
LEMMA PasNegociation ==
  ASSUME ICommandes, UNCHANGED <<commandes, stock, argent>>
  PROVE  /\ Tables' /\ Metier'
         /\ \A d \in Cmds : Existe(d) =>
              /\ Existe(d)' /\ commandes'[d].mode = commandes[d].mode
              /\ debits'[d] = debits[d] /\ Ferme(d)
<1> USE DEF ICommandes, Types, stock, argent
<1>1. Tables'
  BY DEF TypeOK, Tables
<1>2. Somme(prises)' = Somme(prises) /\ Somme(Ventes)' = Somme(Ventes)
        /\ Somme(Encaisse)' = Somme(Encaisse)
  BY DEF Somme, Ventes, VendLaRecolte, Encaisse
<1>3. Metier'
  BY <1>2 DEF Metier, Vierge, Existe, StockPublieConserve, AnnuleeRestituee, VenduExact,
          AcceptationServie, UnSeulDebit
<1> QED
  BY <1>1, <1>3 DEF Existe, Ferme

----------------------------------------------------------------------------
(* The steps.                                                               *)

NegosVont ==
  /\ negos \in [Negos -> Negociation]
  /\ \A n \in Negos : negos[n].statut # "absente" => negos[n].quantite \in Quantites

LEMMA Assemblage ==
  ASSUME Tables', Metier', NegosVont', Copies',
         requetes' \in [Requetes \cup Reponses -> Demande]
  PROVE  ICommandes'
BY DEF ICommandes, Types, TypeOK, Tables, Metier, NegosVont

(* The handlers and the negotiations after a step on one order.             *)
LEMMA PasCommande ==
  ASSUME ICommandes, NEW c \in Cmds, NEW x, Ecriture(c, x), NegosVont',
         \A n \in Negos : negos[n].statut # "absente" => negos'[n].statut # "absente",
         NEW r \in Requetes \cup Reponses, Liberee(r)
  PROVE  ICommandes'
<1>1. /\ Tables' /\ Metier'
      /\ \A d \in Cmds : Existe(d) =>
              /\ Existe(d)' /\ commandes'[d].mode = commandes[d].mode
              /\ debits'[d] = debits[d] /\ Ferme(d)
  BY PasEcriture
<1>2. Durable
  BY <1>1 DEF Durable
<1>3. requetes' \in [Requetes \cup Reponses -> Demande]
  <2>1. [genre |-> "libre"] \in Demande
    BY DEF Demande
  <2> QED
    BY <2>1 DEF ICommandes, Types, Liberee
<1>4. \A k \in Requetes \cup Reponses : requetes'[k] = requetes[k] \/ requetes'[k].genre = "libre"
  BY DEF ICommandes, Types, Liberee
<1>5. Copies'
  BY <1>2, <1>4, CopiesGardees DEF ICommandes
<1> QED
  BY <1>1, <1>3, <1>5, Assemblage

LEMMA PasCreer ==
  ASSUME ICommandes, NEW c \in Achats, Creer(c)
  PROVE  ICommandes'
<1>c. c \in Cmds
  BY DEF Cmds
<1>1. PICK s \in Statuts, mode \in Modes, lien \in Liens, q \in Quantites :
        /\ Inserer(c, s, mode, lien, q, "aucune")
        /\ CASE s = "en_attente" /\ lien = "publication" -> Reserver(c, q)
             [] s = "confirmee" -> Confirmer(c, lien, q)
             [] OTHER -> UNCHANGED stock
        /\ UNCHANGED <<argent, negos, requetes>>
  BY DEF Creer
<1> DEFINE x == [statut |-> s, paiement |-> "non_paye", mode |-> mode, lien |-> lien,
                 quantite |-> q, nego |-> "aucune"]
<1>2. x \in Commande /\ q \in Nat /\ lien \in {"publication", "recolte", "aucun"}
  BY CommandesConstantes DEF Commande
<1>3. ~Existe(c) /\ commandes' = [commandes EXCEPT ![c] = x]
  BY <1>1 DEF Inserer
<1>4. reservations[c] = "aucune" /\ prises[c] = 0
  BY <1>3, <1>c DEF ICommandes, Vierge
<1>t. TypeOK /\ StockPublieConserve
  BY DEF ICommandes, Types
<1>5. Passage(c, q, lien) /\ (s = "annulee" => reservations'[c] # "active")
  <2>1. CASE s = "en_attente" /\ lien = "publication"
    BY <1>1, <1>2, <1>4, <1>t, <1>c, <2>1, PassageReserver
  <2>2. CASE s = "confirmee"
    BY <1>1, <1>2, <1>t, <1>c, <2>2, PassageConfirmer
  <2>3. CASE s # "confirmee" /\ ~(s = "en_attente" /\ lien = "publication")
    <3>1. UNCHANGED stock
      BY <1>1, <2>3
    <3> QED
      BY <3>1, <1>2, <1>4, <1>t, <1>c, PassageRien DEF stock
  <2> QED
    BY <2>1, <2>2, <2>3
<1>6. Ecriture(c, x)
  BY <1>1, <1>2, <1>3, <1>5 DEF Ecriture
<1>7. NegosVont' /\ requetes' = requetes /\ negos' = negos
  BY <1>1 DEF ICommandes, Types, TypeOK, NegosVont
<1> HIDE DEF x
<1>8. Copies'
  <2>1. \A d \in Cmds : Existe(d) =>
              /\ Existe(d)' /\ commandes'[d].mode = commandes[d].mode
              /\ debits'[d] = debits[d] /\ Ferme(d)
    BY <1>c, <1>6, PasEcriture
  <2>2. Durable
    BY <1>7, <2>1 DEF Durable
  <2> QED
    BY <1>7, <2>2, CopiesGardees DEF ICommandes
<1> QED
  BY <1>c, <1>6, <1>7, <1>8, PasEcriture, Assemblage DEF ICommandes, Types

LEMMA PasModifier ==
  ASSUME ICommandes, NEW r \in Requetes, Modifier(r)
  PROVE  ICommandes'
<1> DEFINE c == requetes[r].cmd
<1>t. TypeOK /\ StockPublieConserve /\ requetes[r] \in Demande /\ CopieVaut(r)
  BY DEF ICommandes, Types, Copies
<1>c. c \in Cmds /\ Existe(c)
  BY <1>t DEF Modifier, Demande, CopieVaut, SurCommande
<1>1. PICK s \in Statuts : Ecrire(c, s) /\ Effet(c, requetes[r].lu, s)
  BY DEF Modifier
<1>2. Liberee(r) /\ UNCHANGED <<argent, negos>>
  BY DEF Modifier
<1>a. requetes[r].lu = "annulee" => reservations[c] # "active"
  BY <1>t DEF CopieVaut, Modifier
<1> HIDE DEF c
<1> DEFINE x == [commandes[c] EXCEPT !.statut = s]
<1>3. commandes[c] \in Commande
  BY <1>c, <1>t, Placee
<1>4. x \in Commande /\ x.statut = s /\ x.quantite = commandes[c].quantite
        /\ x.mode = commandes[c].mode /\ x.lien = commandes[c].lien
        /\ x.nego = commandes[c].nego /\ x.paiement = commandes[c].paiement
  BY <1>3 DEF Commande
<1>5. commandes' = [commandes EXCEPT ![c] = x]
  BY <1>1 DEF Ecrire
<1>q. x.quantite \in Nat /\ x.lien \in {"publication", "recolte", "aucun"}
  BY <1>4, CommandeExiste
<1>6. Passage(c, x.quantite, x.lien) /\ Ferme(c) /\ (s = "annulee" => reservations'[c] # "active")
  <2>1. CASE s = "confirmee" /\ requetes[r].lu # "confirmee"
    BY <1>1, <1>4, <1>q, <1>c, <1>t, <2>1, PassageConfirmer DEF Effet
  <2>2. CASE s = "annulee" /\ requetes[r].lu # "annulee"
    BY <1>1, <1>q, <1>c, <1>t, <2>2, PassageLiberer DEF Effet
  <2>3. CASE /\ ~(s = "confirmee" /\ requetes[r].lu # "confirmee")
             /\ ~(s = "annulee" /\ requetes[r].lu # "annulee")
    <3>1. UNCHANGED stock
      BY <1>1, <2>3 DEF Effet
    <3> QED
      BY <3>1, <1>a, <1>q, <1>c, <1>t, <2>3, PassageRien DEF stock
  <2> QED
    BY <2>1, <2>2, <2>3
<1>7. x.paiement = "paye" /\ x.mode = "keiwa" => debits[c] = 1
  BY <1>c, <1>4 DEF ICommandes, UnSeulDebit
<1> HIDE DEF x
<1>8. Ecriture(c, x)
  BY <1>c, <1>2, <1>4, <1>5, <1>6, <1>7 DEF Ecriture
<1>9. NegosVont' /\ negos' = negos
  BY <1>2 DEF ICommandes, Types, TypeOK, NegosVont
<1> QED
  BY <1>2, <1>8, <1>9, <1>c, PasCommande

LEMMA PasLivrer ==
  ASSUME ICommandes, NEW r \in Requetes, Livrer(r)
  PROVE  ICommandes'
<1> DEFINE c == requetes[r].cmd
<1>t. TypeOK /\ StockPublieConserve /\ requetes[r] \in Demande /\ CopieVaut(r)
  BY DEF ICommandes, Types, Copies
<1>c. c \in Cmds /\ Existe(c) /\ requetes[r].statut \in BOOLEAN
        /\ requetes[r].paiement \in {"non_paye", "paye", "inchange"}
  BY <1>t DEF Livrer, Demande, CopieVaut, SurCommande
<1>a. requetes[r].paiement = "paye" => Reglee(c)
  BY <1>t DEF CopieVaut, Livrer
<1> DEFINE s == IF requetes[r].statut THEN "livree" ELSE commandes[c].statut
           p == IF requetes[r].paiement = "inchange" THEN commandes[c].paiement
                ELSE requetes[r].paiement
           x == [commandes[c] EXCEPT !.statut = s, !.paiement = p]
<1>2. Liberee(r) /\ UNCHANGED <<stock, argent, negos>>
  BY DEF Livrer
<1>3. commandes[c] \in Commande
  BY <1>c, <1>t, Placee
<1>5. commandes' = [commandes EXCEPT ![c] = x]
  BY <1>3 DEF Livrer
<1> HIDE DEF c
<1>s. s \in Statuts \cup {"en_attente", "confirmee", "livree"} /\ p \in {"non_paye", "paye"}
        /\ (s = "annulee" => commandes[c].statut = "annulee")
        /\ (p = "paye" => commandes[c].paiement = "paye" \/ requetes[r].paiement = "paye")
  BY <1>3, <1>c DEF Commande
<1> HIDE DEF s, p
<1>4. x \in Commande /\ x.statut = s /\ x.quantite = commandes[c].quantite
        /\ x.mode = commandes[c].mode /\ x.lien = commandes[c].lien
        /\ x.nego = commandes[c].nego /\ x.paiement = p
  BY <1>3, <1>s DEF Commande
<1>q. x.quantite \in Nat
  BY <1>4, CommandeExiste
<1>6. Passage(c, x.quantite, x.lien) /\ Ferme(c) /\ reservations' = reservations
  BY <1>2, <1>q, <1>c, <1>t, PassageRien DEF stock
<1>7. x.paiement = "paye" /\ x.mode = "keiwa" => debits[c] = 1
  BY <1>c, <1>s, <1>a, <1>4 DEF ICommandes, UnSeulDebit, Reglee
<1>8. x.statut = "annulee" => reservations'[c] # "active"
  BY <1>c, <1>s, <1>4, <1>6 DEF ICommandes, AnnuleeRestituee
<1> HIDE DEF x
<1>9. Ecriture(c, x)
  BY <1>c, <1>2, <1>4, <1>5, <1>6, <1>7, <1>8 DEF Ecriture
<1>10. NegosVont' /\ negos' = negos
  BY <1>2 DEF ICommandes, Types, TypeOK, NegosVont
<1> QED
  BY <1>2, <1>9, <1>10, <1>c, PasCommande

LEMMA PasAccepter ==
  ASSUME ICommandes, NEW r \in Reponses, Accepter(r)
  PROVE  ICommandes'
<1> DEFINE n == requetes[r].nego
<1>t. TypeOK /\ StockPublieConserve /\ requetes[r] \in Demande /\ CopieVaut(r)
  BY DEF ICommandes, Types, Copies
<1>n. n \in Negos /\ negos[n].statut # "absente"
  BY <1>t DEF Accepter, Repondant, Demande, CopieVaut
<1>1. PICK c \in Accords :
        /\ Inserer(c, "confirmee", "especes", negos[n].lien, negos[n].quantite, n)
        /\ IF negos[n].lien = "publication"
             THEN ReserverConvertir(c, negos[n].quantite) ELSE UNCHANGED stock
        /\ negos' = [negos EXCEPT ![n].statut = "accepte"]
  BY DEF Accepter
<1>2. Liberee(r) /\ UNCHANGED argent
  BY DEF Accepter
<1> HIDE DEF n
<1> DEFINE x == [statut |-> "confirmee", paiement |-> "non_paye", mode |-> "especes",
                 lien |-> negos[n].lien, quantite |-> negos[n].quantite, nego |-> n]
<1>c. c \in Cmds
  BY DEF Cmds
<1>3. negos[n] \in Negociation /\ negos[n].quantite \in Quantites
  BY <1>n DEF ICommandes, Types, TypeOK
<1>4. x \in Commande /\ negos[n].quantite \in Nat
  BY <1>3, <1>n, CommandesConstantes DEF Commande, Negociation
<1>5. ~Existe(c) /\ commandes' = [commandes EXCEPT ![c] = x]
  BY <1>1 DEF Inserer
<1>6. reservations[c] = "aucune" /\ prises[c] = 0
  BY <1>5, <1>c DEF ICommandes, Vierge
<1>7. /\ Passage(c, x.quantite, x.lien)
      /\ x.lien = "publication" => reservations'[c] = "convertie" /\ prises'[c] = x.quantite
  <2>1. CASE negos[n].lien = "publication"
    BY <1>1, <1>4, <1>6, <1>t, <1>c, <2>1, PassageAccord
  <2>2. CASE negos[n].lien # "publication"
    BY <1>1, <1>4, <1>t, <1>c, <2>2, PassageRien
  <2> QED
    BY <2>1, <2>2
<1>8. Ecriture(c, x)
  BY <1>2, <1>4, <1>5, <1>7 DEF Ecriture
<1>9. NegosVont' /\ \A k \in Negos : negos[k].statut # "absente" => negos'[k].statut # "absente"
  <2>1. [negos[n] EXCEPT !.statut = "accepte"] \in Negociation
    BY <1>3 DEF Negociation
  <2>2. negos' = [negos EXCEPT ![n] = [negos[n] EXCEPT !.statut = "accepte"]]
    BY <1>1
  <2>3. negos' \in [Negos -> Negociation]
    BY <2>1, <2>2, <1>t, Zenon DEF TypeOK
  <2>4. /\ negos'[n].statut = "accepte" /\ negos'[n].quantite = negos[n].quantite
        /\ \A k \in Negos \ {n} : negos'[k] = negos[k]
    BY <2>2, <1>3, <1>n, <1>t DEF TypeOK, Negociation
  <2> QED
    BY <2>3, <2>4, <1>3 DEF ICommandes, Types, NegosVont
<1> HIDE DEF x
<1> QED
  BY <1>2, <1>8, <1>9, <1>c, PasCommande

LEMMA PasPayer ==
  ASSUME ICommandes, NEW c \in Cmds, Payer(c)
  PROVE  ICommandes'
<1> USE DEF ICommandes, Types
<1>1. /\ Existe(c) /\ commandes[c].paiement = "non_paye"
      /\ commandes' = [commandes EXCEPT ![c].paiement = "paye"]
      /\ UNCHANGED <<stock, negos, requetes>>
      /\ commandes[c].mode = "keiwa" => Mouvement(c)
      /\ commandes[c].mode # "keiwa" => UNCHANGED argent
  BY DEF Payer
<1> DEFINE x == [commandes[c] EXCEPT !.paiement = "paye"]
<1>3. commandes[c] \in Commande
  BY <1>1, Placee
<1>4. x \in Commande /\ x # Absente /\ x.statut = commandes[c].statut
        /\ x.quantite = commandes[c].quantite
        /\ x.mode = commandes[c].mode /\ x.lien = commandes[c].lien
        /\ x.nego = commandes[c].nego /\ x.paiement = "paye"
  BY <1>3, CommandeExiste DEF Commande
<1>5. /\ commandes' = [commandes EXCEPT ![c] = x] /\ commandes'[c] = x
      /\ \A d \in Cmds \ {c} : commandes'[d] = commandes[d]
  BY <1>1 DEF TypeOK
<1> HIDE DEF x
<1>s. UNCHANGED stock /\ UNCHANGED <<reservations, prises, disponible, apport, recolte>>
  BY <1>1 DEF stock
<1>6. /\ debits' \in [Cmds -> Nat] /\ soldes' \in [acheteur : Nat, vendeur : Nat]
      /\ \A d \in Cmds \ {c} : debits'[d] = debits[d]
      /\ commandes[c].mode = "keiwa" =>
           debits[c] = 0 /\ debits'[c] = 1 /\ soldes'.vendeur = soldes.vendeur + Total
      /\ commandes[c].mode # "keiwa" => debits'[c] = debits[c] /\ soldes' = soldes
  <2>1. CASE commandes[c].mode = "keiwa"
    BY <1>1, <2>1, CommandesConstantes DEF Mouvement, Debiter, DebitPossible, TypeOK
  <2>2. CASE commandes[c].mode # "keiwa"
    BY <1>1, <2>2 DEF argent, TypeOK
  <2> QED
    BY <2>1, <2>2
<1>7. Tables'
  BY <1>4, <1>5, <1>6, <1>s DEF Tables, TypeOK
<1>8. Existe(c)' /\ \A d \in Cmds : Existe(d)' <=> Existe(d)
  BY <1>1, <1>4, <1>5 DEF Existe
<1>9. UnSeulDebit'
  <2>1. \A d \in Cmds : Encaisse[d] \in Int /\ Encaisse'[d] \in Int
    BY CommandesConstantes DEF Encaisse
  <2>2. \A d \in Cmds \ {c} : Encaisse'[d] = Encaisse[d]
    BY <1>6 DEF Encaisse
  <2>3. Somme(Encaisse) \in Int /\ Somme(Encaisse') = Somme(Encaisse) - Encaisse[c] + Encaisse'[c]
    BY <2>1, <2>2, SommeChange
  <2>4. Somme(Encaisse)' = Somme(Encaisse')
    BY DEF Somme
  <2>5. soldes'.vendeur = soldes.vendeur - Encaisse[c] + Encaisse'[c]
    <3>1. CASE commandes[c].mode = "keiwa"
      BY <1>6, <3>1, CommandesConstantes DEF Encaisse, TypeOK
    <3>2. CASE commandes[c].mode # "keiwa"
      BY <1>6, <3>2, CommandesConstantes DEF Encaisse, TypeOK
    <3> QED
      BY <3>1, <3>2
  <2>6. soldes'.vendeur = Somme(Encaisse')
    BY <2>1, <2>3, <2>5 DEF UnSeulDebit
  <2>7. \A d \in Cmds : debits'[d] <= 1
    BY <1>6 DEF UnSeulDebit
  <2>8. \A d \in Cmds : Existe(d)' /\ commandes'[d].mode = "keiwa" /\
          commandes'[d].paiement = "paye" => debits'[d] = 1
    BY <1>4, <1>5, <1>6, <1>8 DEF UnSeulDebit
  <2> QED
    BY <2>4, <2>6, <2>7, <2>8 DEF UnSeulDebit
<1>10. StockPublieConserve' /\ VenduExact'
  <2>1. Passage(c, x.quantite, x.lien)
    BY <1>s, <1>4, CommandeExiste, PassageRien
  <2> QED
    BY <2>1, <1>4, <1>5, SommesPassage
<1>11. AnnuleeRestituee' /\ AcceptationServie' /\ \A d \in Cmds : Vierge(d)'
  BY <1>4, <1>5, <1>6, <1>8, <1>s, <1>1 DEF AnnuleeRestituee, AcceptationServie, Vierge
<1>12. Durable
  BY <1>1, <1>4, <1>5, <1>6, <1>8, <1>s DEF Durable, Ferme
<1>13. Copies' /\ NegosVont' /\ requetes' \in [Requetes \cup Reponses -> Demande]
  BY <1>1, <1>12, CopiesGardees DEF NegosVont, TypeOK
<1> QED
  BY <1>7, <1>9, <1>10, <1>11, <1>13, Assemblage DEF Metier

LEMMA PasPublication ==
  ASSUME ICommandes, NEW q \in Publiees, ModifierPublication(q)
  PROVE  ICommandes'
<1> USE DEF ICommandes, Types
<1>1. /\ disponible' = q /\ q \in Nat /\ apport' = apport + q - disponible
      /\ UNCHANGED <<commandes, reservations, prises, recolte, argent, negos, requetes>>
  BY CommandesConstantes DEF ModifierPublication
<1>2. \A d \in Cmds : prises[d] \in Int
  BY DEF TypeOK
<1>3. Somme(prises) \in Int
  BY <1>2, CmdsFini, SommeType DEF Somme
<1>4. Somme(prises)' = Somme(prises) /\ Somme(Ventes)' = Somme(Ventes)
        /\ Somme(Encaisse)' = Somme(Encaisse)
  BY <1>1 DEF Somme, Ventes, VendLaRecolte, Encaisse, argent
<1>5. Tables'
  BY <1>1 DEF TypeOK, Tables, argent
<1>6. StockPublieConserve'
  BY <1>1, <1>3, <1>4 DEF StockPublieConserve, TypeOK
<1>7. Metier'
  BY <1>1, <1>4, <1>6 DEF Metier, Vierge, Existe, AnnuleeRestituee, VenduExact,
          AcceptationServie, UnSeulDebit, argent
<1>8. Durable /\ NegosVont' /\ requetes' \in [Requetes \cup Reponses -> Demande]
  BY <1>1 DEF Durable, Existe, Ferme, argent, NegosVont, TypeOK
<1>9. Copies'
  BY <1>1, <1>8, CopiesGardees
<1> QED
  BY <1>5, <1>7, <1>8, <1>9, Assemblage

(* A step of a handler that leaves the orders, the stock and the money.     *)
LEMMA PasHorsCommande ==
  ASSUME ICommandes, UNCHANGED <<commandes, stock, argent>>, NegosVont',
         \A n \in Negos : negos[n].statut # "absente" => negos'[n].statut # "absente",
         requetes' \in [Requetes \cup Reponses -> Demande],
         \A k \in Requetes \cup Reponses :
           requetes'[k] = requetes[k] \/ requetes'[k].genre = "libre" \/ CopieVaut(k)'
  PROVE  ICommandes'
<1>1. /\ Tables' /\ Metier'
      /\ \A d \in Cmds : Existe(d) =>
              /\ Existe(d)' /\ commandes'[d].mode = commandes[d].mode
              /\ debits'[d] = debits[d] /\ Ferme(d)
  BY PasNegociation
<1>2. Durable
  BY <1>1 DEF Durable
<1>3. Copies'
  BY <1>2, CopiesGardees DEF ICommandes
<1> QED
  BY <1>1, <1>3, Assemblage

(* What a handler that starts or goes on records in its place.              *)
LEMMA Occuper ==
  ASSUME ICommandes, NEW r \in Requetes \cup Reponses, NEW x \in Demande,
         requetes' = [requetes EXCEPT ![r] = x]
  PROVE  /\ requetes' \in [Requetes \cup Reponses -> Demande] /\ requetes'[r] = x
         /\ \A k \in Requetes \cup Reponses : k # r => requetes'[k] = requetes[k]
BY DEF ICommandes, Types

LEMMA LibereeType ==
  ASSUME ICommandes, NEW r \in Requetes \cup Reponses, Liberee(r)
  PROVE  /\ requetes' \in [Requetes \cup Reponses -> Demande]
         /\ \A k \in Requetes \cup Reponses :
              requetes'[k] = requetes[k] \/ requetes'[k].genre = "libre"
<1>1. [genre |-> "libre"] \in Demande
  BY DEF Demande
<1> QED
  BY <1>1, Occuper DEF Liberee

LEMMA PasLireCommande ==
  ASSUME ICommandes, NEW r \in Requetes, NEW c \in Cmds, LireCommande(r, c)
  PROVE  ICommandes'
<1>1. /\ Existe(c) /\ UNCHANGED <<commandes, stock, argent, negos>>
      /\ commandes[c] \in Commande
  BY Placee DEF LireCommande, ICommandes, Types
<1>2. PICK x : /\ requetes' = [requetes EXCEPT ![r] = x]
               /\ \/ x = [genre |-> "patch", cmd |-> c, lu |-> commandes[c].statut]
                  \/ x = [genre |-> "livrer", cmd |-> c, lu |-> commandes[c].paiement]
  BY DEF LireCommande
<1>3. x \in Demande
  BY <1>1, <1>2, CommandeExiste DEF Demande
<1>4. requetes' \in [Requetes \cup Reponses -> Demande] /\ requetes'[r] = x
        /\ \A k \in Requetes \cup Reponses : k # r => requetes'[k] = requetes[k]
  BY <1>2, <1>3, Occuper
<1>5. CopieVaut(r)'
  <2>1. /\ Existe(c)' /\ reservations' = reservations /\ debits' = debits
        /\ commandes' = commandes
    BY <1>1 DEF Existe, stock, argent
  <2>2. /\ commandes[c].statut = "annulee" => reservations[c] # "active"
        /\ commandes[c].paiement = "paye" => Reglee(c)
    BY <1>1 DEF ICommandes, AnnuleeRestituee, UnSeulDebit, Reglee
  <2>3. requetes'[r].cmd = c /\ requetes'[r].genre \in {"patch", "livrer"}
    BY <1>2, <1>4
  <2>4. CASE requetes'[r].genre = "patch"
    BY <1>2, <1>4, <2>1, <2>2, <2>3, <2>4 DEF CopieVaut, SurCommande, Repondant
  <2>5. CASE requetes'[r].genre = "livrer"
    BY <1>2, <1>4, <2>1, <2>2, <2>3, <2>5 DEF CopieVaut, SurCommande, Repondant, Reglee
  <2> QED
    BY <2>3, <2>4, <2>5
<1>6. NegosVont' /\ negos' = negos
  BY <1>1 DEF ICommandes, Types, TypeOK, NegosVont
<1> QED
  BY <1>1, <1>4, <1>5, <1>6, PasHorsCommande

LEMMA PasComparer ==
  ASSUME ICommandes, NEW r \in Requetes, Comparer(r)
  PROVE  ICommandes'
<1>t. requetes[r] \in Demande /\ CopieVaut(r) /\ requetes[r].genre = "livrer"
  BY DEF ICommandes, Types, Copies, Comparer
<1>c. PICK c \in Cmds :
        /\ c = requetes[r].cmd /\ Existe(c)
        /\ requetes[r].lu \in {"non_paye", "paye"}
        /\ requetes[r].lu = "paye" => Reglee(c)
  BY <1>t DEF Demande, CopieVaut, SurCommande
<1>p. PICK s \in BOOLEAN, p \in {"non_paye", "paye", "inchange"} :
        /\ p = "paye" => Reglee(c)
        /\ requetes' = [requetes EXCEPT ![r] =
             [genre |-> "ecrire", cmd |-> c, statut |-> s, paiement |-> p]]
  BY <1>c DEF Comparer
<1>1. UNCHANGED <<commandes, stock, argent, negos>>
  BY DEF Comparer
<1> DEFINE x == [genre |-> "ecrire", cmd |-> c, statut |-> s, paiement |-> p]
<1>3. x \in Demande
  BY DEF Demande
<1>4. requetes' \in [Requetes \cup Reponses -> Demande] /\ requetes'[r] = x
        /\ \A k \in Requetes \cup Reponses : k # r => requetes'[k] = requetes[k]
  BY <1>p, <1>3, Occuper
<1>5. CopieVaut(r)'
  <2>1. Existe(c)' /\ (Reglee(c) => Reglee(c)')
    BY <1>1, <1>c DEF Existe, Reglee, argent
  <2> QED
    BY <1>4, <1>p, <2>1 DEF CopieVaut, SurCommande, Repondant
<1>6. NegosVont' /\ negos' = negos
  BY <1>1 DEF ICommandes, Types, TypeOK, NegosVont
<1> HIDE DEF x
<1> QED
  BY <1>1, <1>4, <1>5, <1>6, PasHorsCommande

LEMMA PasLireNegociation ==
  ASSUME ICommandes, NEW r \in Reponses, NEW n \in Negos, LireNegociation(r, n)
  PROVE  ICommandes'
<1>1. negos[n].statut # "absente" /\ UNCHANGED <<commandes, stock, argent, negos>>
  BY DEF LireNegociation
<1>2. PICK g \in {"vendeur", "marchand"} :
         requetes' = [requetes EXCEPT ![r] = [genre |-> g, nego |-> n, nb |-> negos[n].nb]]
  BY DEF LireNegociation
<1> DEFINE x == [genre |-> g, nego |-> n, nb |-> negos[n].nb]
<1>3. x \in Demande
  BY DEF Demande, ICommandes, Types, TypeOK, Negociation
<1>4. requetes' \in [Requetes \cup Reponses -> Demande] /\ requetes'[r] = x
        /\ \A k \in Requetes \cup Reponses : k # r => requetes'[k] = requetes[k]
  BY <1>2, <1>3, Occuper
<1>5. CopieVaut(r)'
  BY <1>1, <1>4 DEF CopieVaut, SurCommande, Repondant
<1>6. NegosVont' /\ negos' = negos
  BY <1>1 DEF ICommandes, Types, TypeOK, NegosVont
<1> HIDE DEF x
<1> QED
  BY <1>1, <1>4, <1>5, <1>6, PasHorsCommande

(* A negotiation goes from one state to another.                            *)
LEMMA NegoChange ==
  ASSUME ICommandes, NEW n \in Negos, NEW x \in Negociation,
         x.statut # "absente", x.quantite \in Quantites, negos' = [negos EXCEPT ![n] = x]
  PROVE  /\ NegosVont'
         /\ \A k \in Negos : negos[k].statut # "absente" => negos'[k].statut # "absente"
BY DEF ICommandes, Types, TypeOK, NegosVont

LEMMA PasProposer ==
  ASSUME ICommandes, NEW n \in Negos, Proposer(n)
  PROVE  ICommandes'
<1>1. UNCHANGED <<commandes, stock, argent, requetes>>
  BY DEF Proposer
<1>2. PICK q \in Quantites, lien \in Liens \ {"recolte"} :
        negos' = [negos EXCEPT ![n] =
          [statut |-> "en_attente", quantite |-> q, lien |-> lien, nb |-> 0]]
  BY DEF Proposer
<1> DEFINE x == [statut |-> "en_attente", quantite |-> q, lien |-> lien, nb |-> 0]
<1>3. x \in Negociation
  BY CommandesConstantes DEF Negociation
<1>4. NegosVont' /\ \A k \in Negos : negos[k].statut # "absente" => negos'[k].statut # "absente"
  BY <1>2, <1>3, NegoChange
<1> QED
  BY <1>1, <1>4, PasHorsCommande DEF ICommandes, Types

LEMMA PasReponse ==
  ASSUME ICommandes, NEW r \in Reponses, ContreOffrir(r) \/ Repondre(r)
  PROVE  ICommandes'
<1> DEFINE n == requetes[r].nego
<1>t. requetes[r] \in Demande /\ CopieVaut(r) /\ Repondant(r)
  BY DEF ICommandes, Types, Copies, ContreOffrir, Repondre
<1>n. n \in Negos /\ negos[n].statut # "absente" /\ requetes[r].nb \in 0..LIMITE
  BY <1>t DEF Repondant, Demande, CopieVaut
<1>3. negos[n] \in Negociation /\ negos[n].quantite \in Quantites
  BY <1>n DEF ICommandes, Types, TypeOK
<1>1. Liberee(r) /\ UNCHANGED <<commandes, stock, argent>>
  BY DEF ContreOffrir, Repondre
<1>2. PICK x : /\ negos' = [negos EXCEPT ![n] = x]
               /\ x \in Negociation /\ x.statut # "absente"
               /\ x.quantite = negos[n].quantite
  <2>1. CASE ContreOffrir(r)
    <3> DEFINE s == IF requetes[r].genre = "vendeur" THEN "contre_offre" ELSE "en_attente"
               y == [negos[n] EXCEPT !.statut = s, !.nb = requetes[r].nb + 1]
    <3>1. requetes[r].nb + 1 \in 0..LIMITE
      BY <2>1, <1>n, CommandesConstantes DEF ContreOffrir
    <3>2. negos' = [negos EXCEPT ![n] = y]
      BY <2>1, <1>3 DEF ContreOffrir
    <3>3. y \in Negociation /\ y.statut # "absente" /\ y.quantite = negos[n].quantite
      BY <3>1, <1>3 DEF Negociation
    <3> QED
      BY <3>2, <3>3
  <2>2. CASE Repondre(r)
    <3>1. PICK s \in {"refuse", "en_attente"} : negos' = [negos EXCEPT ![n].statut = s]
      BY <2>2 DEF Repondre
    <3> DEFINE y == [negos[n] EXCEPT !.statut = s]
    <3>3. y \in Negociation /\ y.statut # "absente" /\ y.quantite = negos[n].quantite
      BY <1>3 DEF Negociation
    <3> QED
      BY <3>1, <3>3
  <2> QED
    BY <2>1, <2>2
<1>4. NegosVont' /\ \A k \in Negos : negos[k].statut # "absente" => negos'[k].statut # "absente"
  BY <1>n, <1>2, <1>3, NegoChange
<1> QED
  BY <1>1, <1>4, LibereeType, PasHorsCommande

----------------------------------------------------------------------------
(* The invariant and the theorems.                                          *)

LEMMA InitCommandes == Init => ICommandes
<1> SUFFICES ASSUME Init PROVE ICommandes
  OBVIOUS
<1>0. \A c \in Cmds : commandes[c] = Absente /\ ~Existe(c)
  BY DEF Init, Existe
<1>1. Types
  <2>1. [genre |-> "libre"] \in Demande
    BY DEF Demande
  <2>2. \A n \in Negos : negos[n] \in Negociation /\ negos[n].statut = "absente"
    BY CommandesConstantes DEF Init, Negociation
  <2>3. negos \in [Negos -> Negociation]
    BY <2>2 DEF Init
  <2> QED
    BY <2>1, <2>2, <2>3, CommandesConstantes DEF Init, Types, TypeOK
<1>2. Copies /\ \A c \in Cmds : Vierge(c)
  BY DEF Init, Copies, CopieVaut, SurCommande, Repondant, Vierge
<1>z. \A f : (\A c \in Cmds : f[c] = 0) => Somme(f) = 0
  <2> SUFFICES ASSUME NEW f, \A c \in Cmds : f[c] = 0 PROVE Somme(f) = 0
    OBVIOUS
  <2> QED
    BY CmdsFini, SommeNulle DEF Somme
<1>3. Somme(prises) = 0 /\ Somme(Ventes) = 0 /\ Somme(Encaisse) = 0
  <2>1. \A c \in Cmds : prises[c] = 0 /\ Ventes[c] = 0 /\ Encaisse[c] = 0
    BY DEF Init, Ventes, VendLaRecolte, Encaisse
  <2> QED
    BY <2>1, <1>z
<1>4. StockPublieConserve /\ VenduExact /\ UnSeulDebit
  BY <1>0, <1>3, CommandesConstantes DEF Init, StockPublieConserve, VenduExact, UnSeulDebit
<1>5. AnnuleeRestituee /\ AcceptationServie
  BY <1>0 DEF Init, AnnuleeRestituee, AcceptationServie
<1> QED
  BY <1>1, <1>2, <1>4, <1>5 DEF ICommandes

LEMMA PasCommandes == ICommandes /\ [Next]_vars => ICommandes'
<1> SUFFICES ASSUME ICommandes, [Next]_vars PROVE ICommandes'
  OBVIOUS
<1>1. CASE UNCHANGED vars
  BY <1>1, PasHorsCommande DEF vars, ICommandes, Types, TypeOK, NegosVont
<1>2. CASE Next
  BY <1>2, PasCreer, PasPayer, PasPublication, PasProposer, PasLireCommande, PasModifier,
     PasComparer, PasLivrer, PasLireNegociation, PasAccepter, PasReponse DEF Next
<1> QED
  BY <1>1, <1>2

(* ICommandes holds in every reachable state: the copies the handlers of    *)
(* commandes-rest.controller.ts decide on are worth what CopieVaut says.    *)
THEOREM Invariant == Spec => []ICommandes
BY InitCommandes, PasCommandes, PTL DEF Spec

(* Types of the tables commandes, negociations, stock_reservations.         *)
THEOREM TypeCorrect == Spec => []TypeOK
<1>1. ICommandes => TypeOK
  BY DEF ICommandes, Types
<1> QED
  BY <1>1, Invariant, PTL

(* Every kilo published is on sale or taken by one order (I1), whatever     *)
(* reserver, convertir, liberer and edits of the quantity cross.            *)
THEOREM StockToujoursConserve == Spec => []StockPublieConserve
<1>1. ICommandes => StockPublieConserve
  BY DEF ICommandes
<1> QED
  BY <1>1, Invariant, PTL

(* PATCH /commandes/:id leaves no quantity reserved by a cancelled order:   *)
(* what one still takes is a sale that was converted.                       *)
THEOREM AnnulationRestitue == Spec => []AnnuleeRestituee
<1>1. ICommandes => AnnuleeRestituee
  BY DEF ICommandes
<1> QED
  BY <1>1, Invariant, PTL

(* stock_vendu of a harvest counts once each converted order that is tied   *)
(* to it, or to its publication when that names it (I2).                    *)
THEOREM VenduToujoursExact == Spec => []VenduExact
<1>1. ICommandes => VenduExact
  BY DEF ICommandes
<1> QED
  BY <1>1, Invariant, PTL

(* recupererPaiement moves the money of an order once, even when livrer     *)
(* writes an old statut_paiement over a payment.                            *)
THEOREM DebitUnique == Spec => []UnSeulDebit
<1>1. ICommandes => UnSeulDebit
  BY DEF ICommandes
<1> QED
  BY <1>1, Invariant, PTL

(* repondreNegociation makes no order without its stock.                    *)
THEOREM AcceptationToujoursServie == Spec => []AcceptationServie
<1>1. ICommandes => AcceptationServie
  BY DEF ICommandes
<1> QED
  BY <1>1, Invariant, PTL

(* A converted or released reservation stays so, and only the creation of   *)
(* an order opens one: no step of stock-reservation.service.ts goes back.   *)
THEOREM ReservationToujoursDefinitive == Spec => ReservationDefinitive
<1> DEFINE Avant == \A c \in Cmds :
             /\ reservations[c] \in {"convertie", "liberee"} =>
                  reservations'[c] = reservations[c]
             /\ reservations'[c] = "active" => reservations[c] \in {"aucune", "active"}
<1>1. ICommandes /\ [Next]_vars => [Avant]_vars
  <2> SUFFICES ASSUME ICommandes, Next PROVE Avant
    OBVIOUS
  <2>t. TypeOK /\ StockPublieConserve
    BY DEF ICommandes, Types
  <2>1. ASSUME UNCHANGED reservations PROVE Avant
    BY <2>1, <2>t DEF TypeOK
  <2>2. ASSUME NEW c \in Cmds, NEW q \in Nat, NEW l, Passage(c, q, l), Ferme(c) \/ reservations[c] = "aucune"
        PROVE  Avant
    BY <2>2, <2>t DEF TypeOK, Passage, Ferme
  <2>3. ASSUME NEW c \in Achats, Creer(c) PROVE Avant
    <3>1. PICK q \in Quantites, lien \in Liens : \E s \in Statuts :
             /\ ~Existe(c)
             /\ CASE s = "en_attente" /\ lien = "publication" -> Reserver(c, q)
                  [] s = "confirmee" -> Confirmer(c, lien, q)
                  [] OTHER -> UNCHANGED stock
      BY <2>3 DEF Creer, Inserer
    <3>2. c \in Cmds /\ q \in Nat /\ reservations[c] = "aucune" /\ prises[c] = 0
            /\ Liens \subseteq {"publication", "recolte", "aucun"}
      BY <3>1, CommandesConstantes DEF Cmds, ICommandes, Vierge
    <3>3. Passage(c, q, lien)
      BY <2>t, <3>1, <3>2, PassageReserver, PassageConfirmer, PassageRien
    <3> QED
      BY <2>2, <3>2, <3>3
  <2>4. ASSUME NEW r \in Requetes, Modifier(r) PROVE Avant
    <3>1. requetes[r] \in Demande /\ CopieVaut(r) /\ requetes[r].genre = "patch"
      BY <2>4 DEF ICommandes, Types, Copies, Modifier
    <3>2. PICK c \in Cmds : c = requetes[r].cmd /\ Existe(c)
      BY <3>1 DEF Demande, CopieVaut, SurCommande
    <3>3. PICK s \in Statuts : Effet(c, requetes[r].lu, s)
      BY <2>4, <3>2 DEF Modifier
    <3>4. commandes[c].quantite \in Nat /\ commandes[c].lien \in {"publication", "recolte", "aucun"}
      BY <2>t, <3>2, Placee, CommandeExiste
    <3>5. Passage(c, commandes[c].quantite, commandes[c].lien) /\ Ferme(c)
      BY <2>t, <3>3, <3>4, PassageConfirmer, PassageLiberer, PassageRien DEF Effet
    <3> QED
      BY <2>2, <3>4, <3>5
  <2>5. ASSUME NEW r \in Reponses, Accepter(r) PROVE Avant
    <3>1. /\ requetes[r] \in Demande /\ CopieVaut(r) /\ Repondant(r)
          /\ requetes[r].nego \in Negos
      BY <2>5 DEF ICommandes, Types, Copies, Accepter, Demande, Repondant
    <3>2. PICK n \in Negos : n = requetes[r].nego /\ negos[n].quantite \in Quantites
      BY <3>1 DEF CopieVaut, ICommandes, Types
    <3>3. PICK c \in Accords :
             /\ ~Existe(c)
             /\ IF negos[n].lien = "publication"
                  THEN ReserverConvertir(c, negos[n].quantite) ELSE UNCHANGED stock
      BY <2>5, <3>2 DEF Accepter, Inserer
    <3>4. c \in Cmds /\ negos[n].quantite \in Nat /\ reservations[c] = "aucune" /\ prises[c] = 0
      BY <3>2, <3>3, CommandesConstantes DEF Cmds, ICommandes, Vierge
    <3>5. Passage(c, negos[n].quantite, "publication")
      BY <2>t, <3>3, <3>4, PassageAccord, PassageRien
    <3> QED
      BY <2>2, <3>4, <3>5
  <2>6. ASSUME \/ \E c \in Cmds : Payer(c)
               \/ \E q \in Publiees : ModifierPublication(q)
               \/ \E n \in Negos : Proposer(n)
               \/ \E r \in Requetes : (\E c \in Cmds : LireCommande(r, c)) \/ Comparer(r) \/ Livrer(r)
               \/ \E r \in Reponses :
                    (\E n \in Negos : LireNegociation(r, n)) \/ ContreOffrir(r) \/ Repondre(r)
        PROVE  Avant
    <3>1. UNCHANGED reservations
      BY <2>6 DEF Payer, ModifierPublication, Proposer, LireCommande, Comparer, Livrer,
         LireNegociation, ContreOffrir, Repondre, stock
    <3> QED
      BY <3>1, <2>1
  <2> HIDE DEF Avant
  <2> QED
    BY <2>3, <2>4, <2>5, <2>6 DEF Next
<1> QED
  BY <1>1, Invariant, PTL DEF Spec, ReservationDefinitive
=============================================================================

------------------------------ MODULE Commandes ------------------------------
(***************************************************************************)
(* Orders, negotiations, the reservation of the stock of a publication and  *)
(* the payment of an order from wallet to wallet:                           *)
(* commandes-rest.controller.ts and stock-reservation.service.ts, with the  *)
(* quantity the producer edits (publications-rest.controller.ts).           *)
(*                                                                          *)
(* A handler reads the order or the negotiation first, outside any          *)
(* transaction, and decides on that copy. Its transaction then updates the  *)
(* row of the order and locks the publication before it reads or writes     *)
(* anything else the others write, and keeps its locks to the COMMIT: it is *)
(* one step here, and the copy is what may be stale.                        *)
(*                                                                          *)
(* Left out: a call that is refused and writes nothing (the payment of a    *)
(* direct sale, of a suspended account, of a wallet that is missing); and   *)
(* DELETE /publications/:id, which the foreign key of commandes refuses as  *)
(* soon as one order names the publication.                                 *)
(***************************************************************************)
EXTENDS Integers, FiniteSets, Functions

CONSTANTS Achats,      \* orders placed by POST /commandes
          Accords,     \* orders that accepted negotiations create
          Negos,       \* negotiations
          Requetes,    \* requests on orders in progress at once
          Reponses,    \* answers to negotiations in progress at once
          Quantites, Modes, Liens, Statuts,  \* what the requests ask for
          Stock,       \* quantity first published, and harvested
          Publiees,    \* quantities the producer writes afterwards
          Solde,       \* of the buyer
          Total,       \* of an order, in francs
          LIMITE,      \* counter-offers of a negotiation, 3 in the code
          MaxApport    \* bound: what the producer puts on sale in all

Cmds == Achats \cup Accords

ASSUME CommandesConstantes ==
  /\ IsFiniteSet(Achats) /\ IsFiniteSet(Accords) /\ Achats \cap Accords = {}
  /\ Quantites \subseteq Nat \ {0}
  /\ Modes \subseteq {"keiwa", "especes"}
  /\ Liens \subseteq {"publication", "recolte", "aucun"}
  /\ Statuts \subseteq {"en_attente", "confirmee", "en_livraison", "livree", "annulee",
                        "litige"}
  /\ Stock \in Nat /\ Solde \in Nat /\ Total \in Nat \ {0} /\ LIMITE \in Nat
  /\ MaxApport \in Nat /\ Publiees \subseteq Nat

VARIABLES commandes,     \* table commandes
          reservations,  \* stock_reservations.statut, by commande_id (unique)
          prises,        \* what each reservation took from the publication
          disponible,    \* publications.quantite_disponible
          apport,        \* what the producer put on sale in all
          recolte,       \* a harvest, and whether publications.recolte_id names it
          soldes,        \* wallets of the buyer and of the seller
          debits,        \* wallet_transactions of an order, type debit
          negos,         \* table negociations
          requetes       \* handlers between their first read and their writes

stock == <<reservations, prises, disponible, apport, recolte>>
argent == <<soldes, debits>>
vars == <<commandes, stock, argent, negos, requetes>>

Commande == [statut : Statuts \cup {"en_attente", "confirmee", "livree"},
             paiement : {"non_paye", "paye"}, mode : {"keiwa", "especes"},
             lien : {"publication", "recolte", "aucun"}, quantite : Quantites,
             nego : Negos \cup {"aucune"}]

Absente == [statut |-> "absente"]

Negociation == [statut : {"absente", "en_attente", "accepte", "refuse", "contre_offre"},
                quantite : Quantites \cup {0}, lien : {"publication", "aucun"},
                nb : 0..LIMITE]

Init ==
  /\ commandes = [c \in Cmds |-> Absente]
  /\ reservations = [c \in Cmds |-> "aucune"]
  /\ prises = [c \in Cmds |-> 0]
  /\ disponible = Stock /\ apport = Stock
  /\ recolte \in [disponible : {Stock}, vendu : {0}, publiee : BOOLEAN]
  /\ soldes = [acheteur |-> Solde, vendeur |-> 0]
  /\ debits = [c \in Cmds |-> 0]
  /\ negos = [n \in Negos |-> [statut |-> "absente", quantite |-> 0, lien |-> "aucun",
                               nb |-> 0]]
  /\ requetes = [r \in Requetes \cup Reponses |-> [genre |-> "libre"]]

Existe(c) == commandes[c] # Absente

Plafonner(x) == IF x < 0 THEN 0 ELSE x

----------------------------------------------------------------------------
(* StockReservationService. Each runs in the transaction of its caller.     *)

(* reserver, for an order that is being inserted; 409 beyond what is left.  *)
Reserver(c, q) ==
  /\ q <= disponible
  /\ disponible' = disponible - q
  /\ prises' = [prises EXCEPT ![c] = q]
  /\ reservations' = [reservations EXCEPT ![c] = "active"]
  /\ UNCHANGED <<apport, recolte>>

Vendre(q) ==
  recolte' = [recolte EXCEPT !.disponible = Plafonner(@ - q), !.vendu = @ + q]

(* The harvest of a publication, where p.recolte_id = r.id: POST            *)
(* /publications and republier leave recolte_id empty, the demonstration    *)
(* data fill it.                                                            *)
VendrePubliee(q) == IF recolte.publiee THEN Vendre(q) ELSE UNCHANGED recolte

Convertie(c) == reservations' = [reservations EXCEPT ![c] = "convertie"]

(* Mutant: a released order confirmed again sells what it gave back.        *)
ConvertirEncore(c, q) ==
  \/ /\ reservations[c] \in {"active", "liberee"}
     /\ Convertie(c) /\ VendrePubliee(q)
     /\ UNCHANGED <<prises, disponible, apport>>
  \/ /\ reservations[c] \in {"aucune", "convertie"}
     /\ UNCHANGED stock

(* convertir: a sale that is final, without reservation bounded at what is  *)
(* left; nothing for an order converted or released before.                 *)
Convertir(c, q) ==
  \/ /\ reservations[c] = "active"
     /\ Convertie(c) /\ VendrePubliee(q)
     /\ UNCHANGED <<prises, disponible, apport>>
  \/ /\ reservations[c] = "aucune"
     /\ disponible' = Plafonner(disponible - q)
     /\ prises' = [prises EXCEPT ![c] = disponible - Plafonner(disponible - q)]
     /\ Convertie(c) /\ VendrePubliee(q)
     /\ UNCHANGED apport
  \/ /\ reservations[c] \in {"convertie", "liberee"}
     /\ UNCHANGED stock

(* Mutant: not idempotent per commande_id.                                  *)
ConvertirRecolteToujours(c, q) ==
  Convertie(c) /\ Vendre(q) /\ UNCHANGED <<prises, disponible, apport>>

(* convertirRecolteDirecte.                                                 *)
ConvertirRecolte(c, q) ==
  IF reservations[c] = "aucune"
    THEN Convertie(c) /\ Vendre(q) /\ UNCHANGED <<prises, disponible, apport>>
    ELSE UNCHANGED stock

(* Mutant: an acceptance only reserves.                                     *)
ReserverSansConvertir(c, q) == Reserver(c, q)

(* reserver then convertir, of an accepted negotiation.                     *)
ReserverConvertir(c, q) ==
  /\ q <= disponible
  /\ disponible' = disponible - q
  /\ prises' = [prises EXCEPT ![c] = q]
  /\ Convertie(c) /\ VendrePubliee(q)
  /\ UNCHANGED apport

(* Mutant: a cancellation gives a final sale back too.                      *)
LibererToujours(c) ==
  IF reservations[c] \in {"active", "convertie"}
    THEN /\ reservations' = [reservations EXCEPT ![c] = "liberee"]
         /\ disponible' = disponible + commandes[c].quantite
         /\ prises' = [prises EXCEPT ![c] = 0]
         /\ UNCHANGED <<apport, recolte>>
    ELSE UNCHANGED stock

Liberer(c) ==
  IF reservations[c] = "active"
    THEN /\ reservations' = [reservations EXCEPT ![c] = "liberee"]
         /\ disponible' = disponible + prises[c]
         /\ prises' = [prises EXCEPT ![c] = 0]
         /\ UNCHANGED <<apport, recolte>>
    ELSE UNCHANGED stock

(* What a confirmation does, according to what the order is tied to.        *)
Confirmer(c, lien, q) ==
  CASE lien = "publication" -> Convertir(c, q)
    [] lien = "recolte" -> ConvertirRecolte(c, q)
    [] OTHER -> UNCHANGED stock

----------------------------------------------------------------------------
(* POST /commandes: the body chooses any statut.                            *)
Inserer(c, s, mode, lien, q, n) ==
  /\ ~Existe(c)
  /\ commandes' = [commandes EXCEPT ![c] =
       [statut |-> s, paiement |-> "non_paye", mode |-> mode, lien |-> lien,
        quantite |-> q, nego |-> n]]

Creer(c) ==
  \E s \in Statuts, mode \in Modes, lien \in Liens, q \in Quantites :
    /\ Inserer(c, s, mode, lien, q, "aucune")
    /\ CASE s = "en_attente" /\ lien = "publication" -> Reserver(c, q)
         [] s = "confirmee" -> Confirmer(c, lien, q)
         [] OTHER -> UNCHANGED stock
    /\ UNCHANGED <<argent, negos, requetes>>

(* PATCH, and POST on the same product: the producer writes the quantity,   *)
(* whatever was reserved since he read it. apport books the difference as   *)
(* put on sale, so no property below says it is the one he meant.           *)
ModifierPublication(q) ==
  /\ apport + q - disponible <= MaxApport
  /\ disponible' = q
  /\ apport' = apport + q - disponible
  /\ UNCHANGED <<commandes, reservations, prises, recolte, argent, negos, requetes>>

----------------------------------------------------------------------------
(* PATCH /commandes/:id, by the buyer or the seller.                        *)

Libre(r) == requetes[r].genre = "libre"

Liberee(r) == requetes' = [requetes EXCEPT ![r] = [genre |-> "libre"]]

LireCommande(r, c) ==
  /\ Libre(r) /\ Existe(c)
  /\ \/ requetes' = [requetes EXCEPT ![r] =
          [genre |-> "patch", cmd |-> c, lu |-> commandes[c].statut]]
     \/ requetes' = [requetes EXCEPT ![r] =
          [genre |-> "livrer", cmd |-> c, lu |-> commandes[c].paiement]]
  /\ UNCHANGED <<commandes, stock, argent, negos>>

Ecrire(c, s) == commandes' = [commandes EXCEPT ![c].statut = s]

(* Mutant: the stock of a cancelled order is given back only if the copy    *)
(* said it was still pending.                                               *)
EffetSiAttente(c, lu, s) ==
  CASE s = "confirmee" /\ lu # "confirmee" ->
         Confirmer(c, commandes[c].lien, commandes[c].quantite)
    [] s = "annulee" /\ lu = "en_attente" -> Liberer(c)
    [] OTHER -> UNCHANGED stock

(* The test is on the copy: cmd.statut.                                     *)
Effet(c, lu, s) ==
  CASE s = "confirmee" /\ lu # "confirmee" ->
         Confirmer(c, commandes[c].lien, commandes[c].quantite)
    [] s = "annulee" /\ lu # "annulee" -> Liberer(c)
    [] OTHER -> UNCHANGED stock

Modifier(r) ==
  /\ requetes[r].genre = "patch"
  /\ \E s \in Statuts :
       /\ Ecrire(requetes[r].cmd, s)
       /\ Effet(requetes[r].cmd, requetes[r].lu, s)
  /\ Liberee(r)
  /\ UNCHANGED <<argent, negos>>

(* PATCH :id/livrer. repo.save reads the row again and writes the columns   *)
(* in which it differs from the copy, statut_paiement included.             *)
Comparer(r) ==
  LET q == requetes[r] IN
  /\ q.genre = "livrer"
  /\ requetes' = [requetes EXCEPT ![r] =
       [genre |-> "ecrire", cmd |-> q.cmd,
        statut |-> commandes[q.cmd].statut # "livree",
        paiement |-> IF q.lu # commandes[q.cmd].paiement
                       THEN q.lu ELSE "inchange"]]
  /\ UNCHANGED <<commandes, stock, argent, negos>>

Livrer(r) ==
  LET q == requetes[r] IN
  /\ q.genre = "ecrire"
  /\ commandes' = [commandes EXCEPT
       ![q.cmd].statut = IF q.statut THEN "livree" ELSE @,
       ![q.cmd].paiement = IF q.paiement = "inchange" THEN @ ELSE q.paiement]
  /\ Liberee(r)
  /\ UNCHANGED <<stock, argent, negos>>

----------------------------------------------------------------------------
(* POST :id/paiement, under the lock of the order; in cash it only attests. *)
(* A refusal is a call that changes nothing.                                *)

(* ux_wallet_tx_commande_idempotence.                                       *)
DebitPossible(c) == debits[c] = 0

Debiter(c) == debits' = [debits EXCEPT ![c] = @ + 1]

(* Mutant: the order alone says whether it was paid.                        *)
MouvementSansIndex(c) ==
  /\ Total <= soldes.acheteur
  /\ Debiter(c)
  /\ soldes' = [acheteur |-> soldes.acheteur - Total,
                vendeur |-> soldes.vendeur + Total]

Mouvement(c) ==
  /\ DebitPossible(c)
  /\ Total <= soldes.acheteur
  /\ Debiter(c)
  /\ soldes' = [acheteur |-> soldes.acheteur - Total,
                vendeur |-> soldes.vendeur + Total]

Payer(c) ==
  /\ Existe(c) /\ commandes[c].paiement = "non_paye"
  /\ IF commandes[c].mode = "keiwa" THEN Mouvement(c) ELSE UNCHANGED argent
  /\ commandes' = [commandes EXCEPT ![c].paiement = "paye"]
  /\ UNCHANGED <<stock, negos, requetes>>

----------------------------------------------------------------------------
(* Negotiations.                                                            *)

Proposer(n) ==
  /\ negos[n].statut = "absente"
  /\ \E q \in Quantites, lien \in Liens \ {"recolte"} :
       negos' = [negos EXCEPT ![n] =
         [statut |-> "en_attente", quantite |-> q, lien |-> lien, nb |-> 0]]
  /\ UNCHANGED <<commandes, stock, argent, requetes>>

(* repondreNegociation takes any statut; marchandRepondreContreOffre a copy *)
(* that is a counter-offer.                                                 *)
LireNegociation(r, n) ==
  /\ Libre(r) /\ negos[n].statut # "absente"
  /\ \/ requetes' = [requetes EXCEPT ![r] =
          [genre |-> "vendeur", nego |-> n, nb |-> negos[n].nb]]
     \/ /\ negos[n].statut = "contre_offre"
        /\ requetes' = [requetes EXCEPT ![r] =
             [genre |-> "marchand", nego |-> n, nb |-> negos[n].nb]]
  /\ UNCHANGED <<commandes, stock, argent, negos>>

Repondant(r) == requetes[r].genre \in {"vendeur", "marchand"}

(* An order confirmed at once, with its stock or not at all.                *)
Accepter(r) ==
  /\ Repondant(r)
  /\ LET n == requetes[r].nego IN
     \E c \in Accords :
       /\ Inserer(c, "confirmee", "especes", negos[n].lien, negos[n].quantite, n)
       /\ IF negos[n].lien = "publication"
            THEN ReserverConvertir(c, negos[n].quantite) ELSE UNCHANGED stock
       /\ negos' = [negos EXCEPT ![n].statut = "accepte"]
  /\ Liberee(r)
  /\ UNCHANGED argent

(* At most LIMITE counter-offers, by the copy.                              *)
ContreOffrir(r) ==
  /\ Repondant(r) /\ requetes[r].nb < LIMITE
  /\ negos' = [negos EXCEPT
       ![requetes[r].nego].statut =
         IF requetes[r].genre = "vendeur" THEN "contre_offre" ELSE "en_attente",
       ![requetes[r].nego].nb = requetes[r].nb + 1]
  /\ Liberee(r)
  /\ UNCHANGED <<commandes, stock, argent>>

(* The seller may also answer en_attente.                                   *)
Repondre(r) ==
  /\ Repondant(r)
  /\ \E s \in {"refuse", "en_attente"} :
       /\ requetes[r].genre = "marchand" => s = "refuse"
       /\ negos' = [negos EXCEPT ![requetes[r].nego].statut = s]
  /\ Liberee(r)
  /\ UNCHANGED <<commandes, stock, argent>>

Next ==
  \/ \E c \in Achats : Creer(c)
  \/ \E c \in Cmds : Payer(c)
  \/ \E q \in Publiees : ModifierPublication(q)
  \/ \E n \in Negos : Proposer(n)
  \/ \E r \in Requetes :
       \/ \E c \in Cmds : LireCommande(r, c)
       \/ Modifier(r) \/ Comparer(r) \/ Livrer(r)
  \/ \E r \in Reponses :
       \/ \E n \in Negos : LireNegociation(r, n)
       \/ Accepter(r) \/ ContreOffrir(r) \/ Repondre(r)

Spec == Init /\ [][Next]_vars

----------------------------------------------------------------------------
(* Types of the tables.                                                     *)
TypeOK ==
  /\ commandes \in [Cmds -> Commande \cup {Absente}]
  /\ reservations \in [Cmds -> {"aucune", "active", "convertie", "liberee"}]
  /\ prises \in [Cmds -> Nat]
  /\ disponible \in Nat /\ apport \in Int
  /\ recolte \in [disponible : Nat, vendu : Nat, publiee : BOOLEAN]
  /\ soldes \in [acheteur : Nat, vendeur : Nat]
  /\ debits \in [Cmds -> Nat]
  /\ negos \in [Negos -> Negociation]

Somme(f) == SumFunctionOnSet(f, Cmds)

(* I1: every kilo the producer put on sale is still on sale or taken by one *)
(* order, and an order takes only while its row is active or converted,     *)
(* whatever confirmations, cancellations and edits cross.                   *)
StockPublieConserve ==
  /\ disponible + Somme(prises) = apport
  /\ \A c \in Cmds : prises[c] > 0 => reservations[c] \in {"active", "convertie"}

(* A cancelled order keeps no quantity reserved, even when the cancellation *)
(* was decided on a stale copy; what it may still take is a sale that was    *)
(* converted, which liberer never gives back.                                *)
AnnuleeRestituee ==
  \A c \in Cmds : commandes[c].statut = "annulee" =>
    /\ reservations[c] # "active"
    /\ prises[c] > 0 => reservations[c] = "convertie"

(* The orders that sell the harvest: those tied to it, and those of its      *)
(* publication when it names it.                                             *)
VendLaRecolte(c) ==
  reservations[c] = "convertie" /\ (commandes[c].lien = "recolte" \/ recolte.publiee)

(* What each order took out of the harvest for good.                        *)
Ventes == [c \in Cmds |-> IF VendLaRecolte(c) THEN commandes[c].quantite ELSE 0]

(* stock_vendu of the harvest counts each converted order that sells it     *)
(* once (I2), whichever of the two ways it came by.                         *)
VenduExact == recolte.vendu = Somme(Ventes)

(* A converted sale is never given back, and an order has one reservation.  *)
ReservationDefinitive ==
  [][\A c \in Cmds :
       /\ reservations[c] \in {"convertie", "liberee"} =>
            reservations'[c] = reservations[c]
       /\ reservations'[c] = "active" => reservations[c] \in {"aucune", "active"}]_vars

(* What the seller received of each order.                                   *)
Encaisse == [c \in Cmds |-> IF debits[c] > 0 THEN Total ELSE 0]

(* The money of an order moves once, although livrer can write an old       *)
(* statut_paiement over a payment and let it be asked for again.            *)
UnSeulDebit ==
  /\ \A c \in Cmds : debits[c] <= 1
  /\ \A c \in Cmds : Existe(c) /\ commandes[c].mode = "keiwa" /\
       commandes[c].paiement = "paye" => debits[c] = 1
  /\ soldes.vendeur = Somme(Encaisse)

(* An accepted negotiation on a publication has its stock, or no order.     *)
AcceptationServie ==
  \A c \in Cmds :
    Existe(c) /\ commandes[c].nego # "aucune" /\ commandes[c].lien = "publication" =>
      reservations[c] = "convertie" /\ prises[c] = commandes[c].quantite
=============================================================================

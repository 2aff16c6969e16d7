------------------------------- MODULE Caisse -------------------------------
(***************************************************************************)
(* The till of one merchant: sales, expenses, cancellations (by the         *)
(* merchant and by an administrator), the stock of her products and its     *)
(* append-only ledger stock_mouvements.                                     *)
(*                                                                          *)
(* A request r \in Ids is one HTTP request; when it inserts a row of        *)
(* caisse_transactions, that row is lignes[r].  A database transaction is   *)
(* several steps: it holds row locks from FOR UPDATE (or UPDATE) to COMMIT, *)
(* keeps what it computed in req[r], and publishes it all in its commit.    *)
(* Other requests see committed rows only.                                  *)
(***************************************************************************)
EXTENDS Journee

CONSTANTS Produits,     \* the products of the merchant
          Cles,         \* idempotency keys sent by the phone
          SansCle,      \* no idempotency key in the body
          Montants,     \* amounts of sales and expenses
          Paniers,      \* carts: for each product the quantity sold
          Quantites,    \* stock quantities typed on the stock screen
          DatesOperation, \* date_operation: 0 for none or refused, else a day
          StatutsAdmin, \* statuses an administrator sets
          Operations,   \* the routes in use
          MaxEnVol      \* bound on the handlers in progress at once

ASSUME CaisseConstantes ==
  /\ IsFiniteSet(Produits)
  /\ SansCle \notin Cles
  /\ Montants \subseteq Nat \ {0}
  /\ Paniers \subseteq [Produits -> Nat]
  /\ Quantites \subseteq Nat
  /\ DatesOperation \subseteq Jours \cup {0}
  /\ StatutsAdmin \subseteq Statuts
  /\ MaxEnVol \in Nat \ {0}

VARIABLES req,        \* the handlers, by request
          cle,        \* idempotency_key of the row a request inserted
          produits,   \* table produits: state and stock
          retranche,  \* ledger: quantity taken by sale i from product p
          rendu,      \* ledger: quantity given back by the cancellation of i
          saisi,      \* what absolute writes of the stock added or removed
          clesStock   \* table stock_operation_idempotency: the keys recorded

varsCaisse == <<req, cle, produits, retranche, rendu, saisi, clesStock>>
vars == <<varsJournee, varsCaisse>>

----------------------------------------------------------------------------
Ops == {"vente", "depense", "directe", "annuler", "admin", "stock", "creer", "retirer", "supprimer"}

Requete == [op : Ops \cup {"aucune"},
            etape : {"libre", "controle", "assurer", "inserer", "lignes",
                     "a_controler", "marquer", "rendre", "cle", "ecrire", "fini"},
            cle : Cles \cup {SansCle}, montant : Nat, jour : Jours \cup {0},
            panier : [Produits -> Nat],
            cible : Ids, statut : Statuts, avant : Statuts, verrou : BOOLEAN,
            vise : SUBSET Produits, faits : SUBSET Produits,
            issue : {"aucune", "ecrite", "sans_objet", "rejouee"},
            lu : [Produits -> Nat], prise : [Produits -> Nat]]

Rien == [p \in Produits |-> 0]

RequeteLibre(r) ==
  [op |-> "aucune", etape |-> "libre", cle |-> SansCle, montant |-> 0, jour |-> 0,
   panier |-> Rien, cible |-> r, statut |-> "validee", avant |-> "validee",
   verrou |-> FALSE, vise |-> {}, faits |-> {}, issue |-> "aucune", lu |-> Rien, prise |-> Rien]

Produit == [etat : {"inexistant", "actif", "inactif", "supprime"}, stock : Nat]

Place ==
  Cardinality({i \in Ids : req[i].etape \notin {"libre", "fini"}})
    + Cardinality({g \in Guichets : EnCours(g)}) < MaxEnVol

Demarre(r) == req[r].etape = "libre" /\ Place

Etape(r, e) == req' = [req EXCEPT ![r].etape = e]

(* Mutant: the product is read without FOR UPDATE.                          *)
ProduitSansVerrou(p) == TRUE

(* The row lock of product p: held by the transaction that locked it.       *)
Verrouille(r, p) == req[r].etape \in {"lignes", "rendre", "ecrire"} /\ p \in req[r].faits
ProduitLibre(p) == \A r \in Ids : ~Verrouille(r, p)

(* Mutant: the status is written outside the transaction of the restitution.*)
LigneSansVerrou(t) == TRUE

(* The row lock of transaction t: held by a cancellation that updated it.   *)
LigneLibre(t) ==
  \A r \in Ids : ~(req[r].etape = "rendre" /\ req[r].verrou /\ req[r].cible = t)

CleConnue(k) == k # SansCle /\ \E i \in Ids : Existe(i) /\ cle[i] = k

Net(i, p) == retranche[i][p] - rendu[i][p]

(* What the sales have taken of p and not given back.                       *)
Sorties(p) == SumFunctionOnSet([i \in Ids |-> Net(i, p)], Ids)

(* Mutant: the quantity asked is taken whole, the stock may go negative.    *)
SansPlafond(a, b) == a

(* mouvementDeLigne: a sale takes at most what is left.                     *)
Moindre(a, b) == IF a < b THEN a ELSE b

----------------------------------------------------------------------------
(* POST /caisse/vente and /caisse/depense                                   *)

(* created_at: the date of the operation, else the time of the INSERT.      *)
JourComptable(r) == IF req[r].jour = 0 THEN aujourdhui ELSE req[r].jour

(* transactionExistante: a key already recorded is answered with its row.   *)
(* dateOperationValide accepts a date ten minutes ahead: the next day's,    *)
(* just before midnight.                                                    *)
Recevoir(r, op) ==
  /\ Demarre(r) /\ op \in Operations
  /\ \E k \in Cles \cup {SansCle}, m \in Montants, d \in DatesOperation, b \in Paniers :
       /\ d <= aujourdhui + 1
       /\ req' = [req EXCEPT ![r] =
                    [RequeteLibre(r) EXCEPT
                       !.op = op, !.cle = k, !.montant = m, !.jour = d,
                       !.panier = IF op = "vente" THEN b ELSE Rien,
                       !.etape = IF CleConnue(k) THEN "fini" ELSE "controle"]]
  /\ UNCHANGED <<varsJournee, cle, produits, retranche, rendu, saisi, clesStock>>

RecevoirVente(r) == Recevoir(r, "vente")
RecevoirDepense(r) == Recevoir(r, "depense")

(* exigerJourneeOuverte, outside the transaction: today's day, not the day  *)
(* the operation is dated.                                                  *)
ControlerJournee(r) ==
  /\ req[r].etape = "controle"
  /\ Etape(r, IF JourneeFermee THEN "fini" ELSE "assurer")
  /\ UNCHANGED <<varsJournee, cle, produits, retranche, rendu, saisi, clesStock>>

AssurerSession(r) ==
  /\ req[r].etape = "assurer"
  /\ EnsureSession
  /\ Etape(r, "inserer")
  /\ UNCHANGED <<aujourdhui, lignes, journal, guichets, cle, produits, retranche, rendu, saisi, clesStock>>

(* Mutant: no unique index on idempotency_key.                              *)
CleSansIndex(r) == FALSE

(* The unique index: a second INSERT of a key waits for the first           *)
(* transaction, then fails, and the handler answers with the existing row.  *)
CleEnAttente(r) ==
  /\ req[r].cle # SansCle
  /\ \E i \in Ids \ {r} : req[i].op = "vente" /\ req[i].etape = "lignes" /\ req[i].cle = req[r].cle

InsererVente(r) ==
  /\ req[r].etape = "inserer" /\ req[r].op = "vente"
  /\ ~CleEnAttente(r)
  /\ req' = [req EXCEPT ![r] =
                [@ EXCEPT !.jour = JourComptable(r),
                          !.etape = IF CleConnue(req[r].cle) THEN "fini" ELSE "lignes"]]
  /\ UNCHANGED <<varsJournee, cle, produits, retranche, rendu, saisi, clesStock>>

(* One line of the cart: SELECT ... FOR UPDATE, then mouvementDeLigne.  A   *)
(* product that is not in the catalogue is not locked and gives nothing.    *)
VendreLigne(r) ==
  /\ req[r].etape = "lignes"
  /\ \E p \in Produits \ req[r].faits :
       /\ req[r].panier[p] > 0
       /\ produits[p].etat = "actif" /\ ProduitLibre(p)
       /\ req' = [req EXCEPT ![r] =
                    [req[r] EXCEPT
                       !.faits = req[r].faits \cup {p},
                       !.lu = [req[r].lu EXCEPT ![p] = produits[p].stock],
                       !.prise = [req[r].prise EXCEPT
                                    ![p] = Moindre(req[r].panier[p], produits[p].stock)]]]
  /\ UNCHANGED <<varsJournee, cle, produits, retranche, rendu, saisi, clesStock>>

(* Mutant: a product that is not in the catalogue keeps the sale waiting.   *)
LignesDuPanier(r) == {p \in Produits \ req[r].faits : req[r].panier[p] > 0}

LignesRestantes(r) ==
  {p \in Produits \ req[r].faits : req[r].panier[p] > 0 /\ produits[p].etat = "actif"}

(* COMMIT of the sale: the row, the stock computed from what was read under *)
(* the lock, and the ledger.                                                *)
ValiderVente(r) ==
  /\ req[r].etape = "lignes" /\ LignesRestantes(r) = {}
  /\ lignes' = [lignes EXCEPT ![r] = NouvelleLigne("vente", req[r].montant, req[r].jour)]
  /\ cle' = [cle EXCEPT ![r] = req[r].cle]
  /\ produits' = [p \in Produits |->
                    IF p \in req[r].faits
                    THEN [produits[p] EXCEPT !.stock = req[r].lu[p] - req[r].prise[p]]
                    ELSE produits[p]]
  /\ retranche' = [retranche EXCEPT ![r] = req[r].prise]
  /\ Etape(r, "fini")
  /\ UNCHANGED <<aujourdhui, sessions, journal, guichets, rendu, saisi, clesStock>>

InsererDepense(r) ==
  /\ req[r].etape = "inserer" /\ req[r].op = "depense"
  /\ ~CleEnAttente(r)
  /\ IF CleConnue(req[r].cle) THEN UNCHANGED <<lignes, cle>>
     ELSE /\ lignes' = [lignes EXCEPT ![r] =
                          NouvelleLigne("depense", req[r].montant, JourComptable(r))]
          /\ cle' = [cle EXCEPT ![r] = req[r].cle]
  /\ Etape(r, "fini")
  /\ UNCHANGED <<aujourdhui, sessions, journal, guichets, produits, retranche, rendu, saisi, clesStock>>

(* POST /caisse/transactions: one INSERT, no key and no look at the day.    *)
EcrireDirecte(r) ==
  /\ Demarre(r) /\ "directe" \in Operations
  /\ \E m \in Montants, t \in {"depense", "autre"} :
       lignes' = [lignes EXCEPT ![r] = NouvelleLigne(t, m, aujourdhui)]
  /\ Etape(r, "fini")
  /\ UNCHANGED <<aujourdhui, sessions, journal, guichets, cle, produits, retranche, rendu, saisi, clesStock>>

----------------------------------------------------------------------------
(* PATCH /caisse/transactions/:id/annuler and PATCH /transactions/:id       *)

Viser(r, op, t, s, e) ==
  req' = [req EXCEPT ![r] = [RequeteLibre(r) EXCEPT
            !.op = op, !.cible = t, !.avant = lignes[t].statut, !.statut = s, !.etape = e]]

(* findOne without a lock: a sale, validated, of today.                     *)
LireAnnulation(r) ==
  /\ Demarre(r) /\ "annuler" \in Operations
  /\ \E t \in Ids :
       /\ lignes[t].type = "vente" /\ lignes[t].statut = "validee"
       /\ lignes[t].jour = aujourdhui
       /\ Viser(r, "annuler", t, "annulee", "a_controler")
  /\ UNCHANGED <<varsJournee, cle, produits, retranche, rendu, saisi, clesStock>>

ControlerAnnulation(r) ==
  /\ req[r].etape = "a_controler"
  /\ Etape(r, IF JourneeFermee THEN "fini" ELSE "marquer")
  /\ UNCHANGED <<varsJournee, cle, produits, retranche, rendu, saisi, clesStock>>

LireAdmin(r) ==
  /\ Demarre(r) /\ "admin" \in Operations
  /\ \E t \in Ids, s \in StatutsAdmin : Existe(t) /\ Viser(r, "admin", t, s, "marquer")
  /\ UNCHANGED <<varsJournee, cle, produits, retranche, rendu, saisi, clesStock>>

(* restituerStock runs for a status that becomes annulee.                   *)
Restitue(r) == req[r].statut = "annulee" /\ req[r].avant # "annulee"

(* save(): UPDATE of the row, which waits for its lock; nothing is sent     *)
(* when the row already reads as wanted.  Then restituerStock sums the net  *)
(* of the ledger for this sale.                                             *)
MarquerStatut(r) ==
  LET t == req[r].cible
      deja == lignes[t].statut = req[r].statut
  IN /\ req[r].etape = "marquer"
     /\ deja \/ LigneLibre(t)
     /\ req' = [req EXCEPT ![r] =
                  [@ EXCEPT !.etape = "rendre", !.verrou = ~deja,
                     !.prise = IF Restitue(r) THEN [p \in Produits |-> Net(t, p)] ELSE Rien]]
     /\ UNCHANGED <<varsJournee, cle, produits, retranche, rendu, saisi, clesStock>>

(* A product deleted since the sale is skipped.                             *)
ARendre(r) ==
  {p \in Produits \ req[r].faits : req[r].prise[p] > 0 /\ produits[p].etat # "supprime"}

(* SELECT ... FOR UPDATE of a product to restore, active or not.            *)
RendreLigne(r) ==
  /\ req[r].etape = "rendre"
  /\ \E p \in ARendre(r) :
       /\ ProduitLibre(p)
       /\ req' = [req EXCEPT ![r] =
                    [req[r] EXCEPT !.faits = req[r].faits \cup {p},
                                   !.lu = [req[r].lu EXCEPT ![p] = produits[p].stock]]]
  /\ UNCHANGED <<varsJournee, cle, produits, retranche, rendu, saisi, clesStock>>

(* COMMIT of a change of status: the row, the stock and the inverse lines.  *)
ValiderStatut(r) ==
  LET t == req[r].cible IN
  /\ req[r].etape = "rendre" /\ ARendre(r) = {}
  /\ lignes' = IF req[r].verrou THEN [lignes EXCEPT ![t].statut = req[r].statut] ELSE lignes
  /\ produits' = [p \in Produits |->
                    IF p \in req[r].faits
                    THEN [produits[p] EXCEPT !.stock = req[r].lu[p] + req[r].prise[p]]
                    ELSE produits[p]]
  /\ rendu' = [rendu EXCEPT ![t] = [p \in Produits |->
                                     IF p \in req[r].faits THEN @[p] + req[r].prise[p] ELSE @[p]]]
  /\ Etape(r, "fini")
  /\ UNCHANGED <<aujourdhui, sessions, journal, guichets, cle, retranche, saisi, clesStock>>

----------------------------------------------------------------------------
(* The stock screen: absolute writes, creation and deletion.                *)

(* PATCH /stocks/:id without a key and PUT /caisse/produits/:id: one UPDATE,*)
(* the stock takes the value sent.                                          *)
EcrireStock(r) ==
  /\ Demarre(r) /\ "stock" \in Operations
  /\ \E p \in Produits, v \in Quantites :
       /\ produits[p].etat \in {"actif", "inactif"} /\ ProduitLibre(p)
       /\ saisi' = [saisi EXCEPT ![p] = @ + v - produits[p].stock]
       /\ produits' = [produits EXCEPT ![p].stock = v]
  /\ Etape(r, "fini")
  /\ UNCHANGED <<varsJournee, cle, retranche, rendu, clesStock>>

(* ON CONFLICT waits for a transaction that inserted the key and is open.   *)
CleStockLibre(k) ==
  \A s \in Ids : ~(req[s].etape \in {"cle", "ecrire"} /\ req[s].cle = k)

(* Mutant: the key is inserted outside the transaction of the write.        *)
PoserCleAPart(r) ==
  /\ Demarre(r) /\ "stock" \in Operations
  /\ \E p \in Produits, v \in Quantites, k \in Cles :
       /\ produits[p].etat \in {"actif", "inactif"}
       /\ clesStock' = clesStock \cup {k}
       /\ req' = [req EXCEPT ![r] =
                    [RequeteLibre(r) EXCEPT
                       !.op = "stock", !.cle = k, !.vise = {p},
                       !.panier = [Rien EXCEPT ![p] = v],
                       !.issue = IF k \in clesStock THEN "rejouee" ELSE "aucune",
                       !.etape = IF k \in clesStock THEN "fini" ELSE "cle"]]
  /\ UNCHANGED <<varsJournee, cle, produits, retranche, rendu, saisi>>

(* PATCH /stocks/:id with a key, BEGIN: INSERT INTO stock_operation_        *)
(* idempotency ... ON CONFLICT DO NOTHING.  A recorded key is answered as a *)
(* replay and nothing is written.                                           *)
PoserCle(r) ==
  /\ Demarre(r) /\ "stock" \in Operations
  /\ \E p \in Produits, v \in Quantites, k \in Cles :
       /\ produits[p].etat \in {"actif", "inactif"}
       /\ CleStockLibre(k)
       /\ req' = [req EXCEPT ![r] =
                    [RequeteLibre(r) EXCEPT
                       !.op = "stock", !.cle = k, !.vise = {p},
                       !.panier = [Rien EXCEPT ![p] = v],
                       !.issue = IF k \in clesStock THEN "rejouee" ELSE "aucune",
                       !.etape = IF k \in clesStock THEN "fini" ELSE "cle"]]
  /\ UNCHANGED <<varsJournee, cle, produits, retranche, rendu, saisi, clesStock>>

(* The UPDATE waits for the row of the product; one that was deleted since  *)
(* matches no row, and the transaction goes on.                             *)
AEcrire(r) == {p \in req[r].vise : produits[p].etat \in {"actif", "inactif"}}

MettreAJour(r) ==
  /\ req[r].etape = "cle"
  /\ \A p \in AEcrire(r) : ProduitLibre(p)
  /\ req' = [req EXCEPT ![r] = [req[r] EXCEPT !.etape = "ecrire", !.faits = AEcrire(r)]]
  /\ UNCHANGED <<varsJournee, cle, produits, retranche, rendu, saisi, clesStock>>

(* COMMIT: the key and the value, together.                                 *)
ValiderStock(r) ==
  /\ req[r].etape = "ecrire"
  /\ clesStock' = clesStock \cup {req[r].cle}
  /\ produits' = [p \in Produits |->
                    IF p \in req[r].faits
                    THEN [produits[p] EXCEPT !.stock = req[r].panier[p]] ELSE produits[p]]
  /\ saisi' = [p \in Produits |->
                 IF p \in req[r].faits
                 THEN saisi[p] + req[r].panier[p] - produits[p].stock ELSE saisi[p]]
  /\ req' = [req EXCEPT ![r] =
               [req[r] EXCEPT !.etape = "fini",
                              !.issue = IF req[r].faits = {} THEN "sans_objet" ELSE "ecrite"]]
  /\ UNCHANGED <<varsJournee, cle, retranche, rendu>>

CreerProduit(r) ==
  /\ Demarre(r) /\ "creer" \in Operations
  /\ \E p \in Produits, v \in Quantites :
       /\ produits[p].etat = "inexistant"
       /\ saisi' = [saisi EXCEPT ![p] = @ + v]
       /\ produits' = [produits EXCEPT ![p] = [etat |-> "actif", stock |-> v]]
  /\ Etape(r, "fini")
  /\ UNCHANGED <<varsJournee, cle, retranche, rendu, clesStock>>

RetirerProduit(r) ==
  /\ Demarre(r) /\ "retirer" \in Operations
  /\ \E p \in Produits :
       /\ produits[p].etat = "actif" /\ ProduitLibre(p)
       /\ produits' = [produits EXCEPT ![p].etat = "inactif"]
  /\ Etape(r, "fini")
  /\ UNCHANGED <<varsJournee, cle, retranche, rendu, saisi, clesStock>>

(* DELETE /stocks/:id: the row goes, the ledger keeps its lines.            *)
SupprimerProduit(r) ==
  /\ Demarre(r) /\ "supprimer" \in Operations
  /\ \E p \in Produits :
       /\ produits[p].etat \in {"actif", "inactif"} /\ ProduitLibre(p)
       /\ produits' = [produits EXCEPT ![p] = [etat |-> "supprime", stock |-> 0]]
  /\ Etape(r, "fini")
  /\ UNCHANGED <<varsJournee, cle, retranche, rendu, saisi, clesStock>>

----------------------------------------------------------------------------
(* Mutant: the stock is restored outside the transaction of the status, so  *)
(* that a rollback keeps it.                                                *)
AbandonnerAMoitie(r) ==
  LET t == req[r].cible
      q == [p \in Produits |-> IF p \in req[r].faits THEN req[r].prise[p] ELSE 0]
  IN /\ req[r].etape = "rendre"
     /\ produits' = [p \in Produits |-> [produits[p] EXCEPT !.stock = @ + q[p]]]
     /\ rendu' = [rendu EXCEPT ![t] = [p \in Produits |-> @[p] + q[p]]]
     /\ Etape(r, "fini")
     /\ UNCHANGED <<varsJournee, cle, retranche, saisi, clesStock>>

(* ROLLBACK: a lost connection, a crash of the server or an SQL error.      *)
Abandonner(r) ==
  /\ req[r].etape \in {"lignes", "rendre", "cle", "ecrire"}
  /\ Etape(r, "fini")
  /\ UNCHANGED <<varsJournee, cle, produits, retranche, rendu, saisi, clesStock>>

(* Transactions that wait for each other's product locks: the deadlock      *)
(* detector of the database rolls one of them back.                         *)
Attend(r, s) ==
  LET suite == IF req[r].etape = "lignes" THEN LignesRestantes(r) ELSE ARendre(r) IN
  /\ req[r].etape \in {"lignes", "rendre"} /\ suite # {}
  /\ \A p \in suite : ~ProduitLibre(p)
  /\ \E p \in suite : Verrouille(s, p)

Interblocage(r) ==
  /\ \E C \in SUBSET Ids : r \in C /\ \A s \in C : \E t \in C \ {s} : Attend(s, t)
  /\ Etape(r, "fini")
  /\ UNCHANGED <<varsJournee, cle, produits, retranche, rendu, saisi, clesStock>>

----------------------------------------------------------------------------
Init ==
  /\ InitJournee
  /\ req = [r \in Ids |-> RequeteLibre(r)]
  /\ cle = [r \in Ids |-> SansCle]
  /\ produits \in [Produits -> [etat : {"inexistant"}, stock : {0}]
                               \cup [etat : {"actif"}, stock : Quantites]]
  /\ retranche = [r \in Ids |-> Rien]
  /\ rendu = [r \in Ids |-> Rien]
  /\ saisi = [p \in Produits |-> produits[p].stock]
  /\ clesStock = {}

Avance(r) ==
  \/ ControlerJournee(r) \/ AssurerSession(r) \/ InsererVente(r) \/ VendreLigne(r)
  \/ ValiderVente(r) \/ InsererDepense(r) \/ ControlerAnnulation(r) \/ MarquerStatut(r)
  \/ RendreLigne(r) \/ ValiderStatut(r) \/ MettreAJour(r) \/ ValiderStock(r)

Requetes(r) ==
  \/ RecevoirVente(r) \/ RecevoirDepense(r) \/ EcrireDirecte(r) \/ LireAnnulation(r)
  \/ LireAdmin(r) \/ EcrireStock(r) \/ PoserCle(r) \/ CreerProduit(r)
  \/ RetirerProduit(r) \/ SupprimerProduit(r)

GuichetOuvre(g) ==
  /\ Place
  /\ \E geste \in Gestes : LireSession(g, geste)
  /\ UNCHANGED varsCaisse

GuichetAvance(g) == EtapeGuichet(g) /\ UNCHANGED varsCaisse

NouveauJour == Minuit /\ UNCHANGED varsCaisse

Next ==
  \/ \E r \in Ids : Requetes(r) \/ Avance(r) \/ Abandonner(r) \/ Interblocage(r)
  \/ \E g \in Guichets : GuichetOuvre(g) \/ GuichetAvance(g)
  \/ NouveauJour

Spec == Init /\ [][Next]_vars

(* The server runs every handler it has started to its end, and the         *)
(* database breaks deadlocks; nothing obliges anyone to send a request.     *)
Equitable ==
  /\ \A r \in Ids : WF_vars(Avance(r)) /\ WF_vars(Interblocage(r))
  /\ \A g \in Guichets : WF_vars(GuichetAvance(g))

SpecEquitable == Spec /\ Equitable

----------------------------------------------------------------------------
(* Properties.                                                              *)

TypeOK ==
  /\ TypeJournee
  /\ req \in [Ids -> Requete]
  /\ cle \in [Ids -> Cles \cup {SansCle}]
  /\ produits \in [Produits -> Produit]
  /\ retranche \in [Ids -> [Produits -> Nat]]
  /\ rendu \in [Ids -> [Produits -> Nat]]
  /\ saisi \in [Produits -> Int]
  /\ clesStock \subseteq Cles \cup {SansCle}

(* I1: the stock of a product is what was typed in minus the net of the     *)
(* ledger, whatever sales, replays, cancellations and stock writes overlap  *)
(* (FOR UPDATE in enregistrerVente and in restituerStock).                  *)
StockConserve ==
  \A p \in Produits :
    produits[p].etat # "supprime" =>
      produits[p].stock = saisi[p] - Sorties(p)

(* restituerStock is idempotent: a sale never gives back more than it took, *)
(* and a cancelled sale has given everything back, exactly once, whoever    *)
(* cancels it and however often.                                            *)
RestitutionJuste ==
  \A t \in Ids :
    /\ \A p \in Produits : Net(t, p) >= 0
    /\ lignes[t].statut = "annulee" =>
         \A p \in Produits : Net(t, p) = 0 \/ produits[p].etat = "supprime"

(* Goods come back to stock in the very commit that cancels their sale      *)
(* (restituerStock runs on the manager of the change of status).            *)
RestitutionAvecAnnulation ==
  [][\A t \in Ids : rendu'[t] # rendu[t] =>
       lignes[t].statut # "annulee" /\ lignes'[t].statut = "annulee"]_vars

(* I2: an idempotency key records one row, replays and races included.      *)
UneLigneParCle ==
  \A i, k \in Ids :
    Existe(i) /\ Existe(k) /\ cle[i] = cle[k] /\ cle[i] # SansCle => i = k

(* A keyed write of the stock and its key stand or fall together, through   *)
(* replays, waits and rollbacks: a recorded key has exactly one request     *)
(* that wrote (or found its product deleted), and a phone told that its     *)
(* write was a replay can forget it.                                        *)
Appliquee(r, k) == req[r].cle = k /\ req[r].issue \in {"ecrite", "sans_objet"}

CleUneEcriture ==
  \A k \in Cles :
    /\ k \in clesStock <=> \E r \in Ids : Appliquee(r, k)
    /\ \A r, s \in Ids : Appliquee(r, k) /\ Appliquee(s, k) => r = s
    /\ (\E r \in Ids : req[r].cle = k /\ req[r].issue = "rejouee") => k \in clesStock

(* CAI-10: the figures of a closed day are overwritten only by a closing    *)
(* that had found the day open, never by one that comes after: recounting   *)
(* needs an explicit reopening.                                             *)
ConstatGrave ==
  [][\A j \in Jours :
       /\ sessions[j].etat = "fermee" /\ sessions'[j].etat = "fermee"
       /\ \/ sessions'[j].theorique # sessions[j].theorique
          \/ sessions'[j].comptage # sessions[j].comptage
       => \E g \in Guichets :
            /\ guichets[g].geste = "fermer" /\ guichets[g].vu.etat = "ouverte"
            /\ guichets'[g] # guichets[g]]_vars

(* ouvrirSession, case 3, and "le seul chemin pour changer un fond déjà     *)
(* déclaré": a declared fund changes only by a correction, or by an opening *)
(* that had found the day undeclared.                                       *)
FondDeclareConserve ==
  [][\A j \in Jours :
       sessions[j].declare /\ sessions'[j].fond # sessions[j].fond =>
         \E g \in Guichets :
           /\ \/ guichets[g].geste = "corriger"
              \/ guichets[g].geste = "ouvrir" /\ ~guichets[g].vu.declare
           /\ guichets'[g] # guichets[g]]_vars

(* A closed day is open again only by POST session/ouvrir, never as the side*)
(* effect of a sale or an expense (ensureSessionOuverte).                   *)
ReouvertureExplicite ==
  [][\A j \in Jours :
       sessions[j].etat = "fermee" /\ sessions'[j].etat # "fermee" =>
         \E g \in Guichets : guichets[g].geste = "ouvrir" /\ guichets'[g] # guichets[g]]_vars

(* Every request that the server started ends, deadlocks on the products of *)
(* two carts included.                                                      *)
ToutSeTermine == \A r \in Ids : (req[r].etape # "libre") ~> (req[r].etape = "fini")
=============================================================================

---------------------------- MODULE CaisseProofs ----------------------------
(***************************************************************************)
(* For any number of requests, products and amounts: the stock of module    *)
(* Caisse is conserved, an idempotency key records one row and one stock    *)
(* write, a closed day is reopened by POST session/ouvrir only, and what    *)
(* may overwrite the figures and the fund of a day is known.                *)
(*                                                                          *)
(* The code writes the ABSOLUTE stock it computed from a value read under   *)
(* FOR UPDATE, and restores the NET of the ledger read under the lock that  *)
(* the UPDATE of the sale's row took.  StockConserve alone is therefore not *)
(* inductive: IInv adds what the two kinds of locks guarantee.  Nor is      *)
(* UneLigneParCle: between the INSERT of a sale and its COMMIT the key is   *)
(* taken in the index and not yet readable, and ICle says what the index    *)
(* guarantees meanwhile.                                                    *)
(***************************************************************************)
EXTENDS Caisse, SommesTheorems

----------------------------------------------------------------------------
(* The inductive invariant.                                                 *)

(* A row is written by the last step of its request.                        *)
LigneFinie == \A t \in Ids : Existe(t) => req[t].etape = "fini"

(* No row, no ledger.                                                       *)
LedgerVide == \A t \in Ids : ~Existe(t) => retranche[t] = Rien /\ rendu[t] = Rien

CibleExiste ==
  \A r \in Ids : req[r].etape \in {"a_controler", "marquer", "rendre"} => Existe(req[r].cible)

JourFixe == \A r \in Ids : req[r].etape = "lignes" => req[r].jour \in Jours

(* A request that is not in a transaction holds nothing.                    *)
SansVerrou ==
  \A r \in Ids :
    req[r].etape \in {"controle", "assurer", "inserer", "a_controler", "marquer", "cle"} =>
      req[r].faits = {} /\ req[r].prise = Rien

(* FOR UPDATE excludes, and what was read under it is still the stock.      *)
VerrousProduits ==
  \A r, s \in Ids, p \in Produits : Verrouille(r, p) /\ Verrouille(s, p) => r = s

LuSousVerrou ==
  \A r \in Ids, p \in Produits :
    Verrouille(r, p) => /\ req[r].etape # "ecrire" => req[r].lu[p] = produits[p].stock
                        /\ produits[p].etat \in {"actif", "inactif"}

PriseVente ==
  \A r \in Ids : req[r].etape = "lignes" =>
    \A p \in Produits : IF p \in req[r].faits THEN req[r].prise[p] <= req[r].lu[p]
                                              ELSE req[r].prise[p] = 0

(* The UPDATE of a sale's row excludes the other cancellations, and what it *)
(* is about to restore is the net of the ledger.                            *)
VerrousLignes ==
  \A r, s \in Ids :
    /\ req[r].etape = "rendre" /\ req[r].verrou
    /\ req[s].etape = "rendre" /\ req[s].verrou
    /\ req[r].cible = req[s].cible
    => r = s

PriseRendue ==
  \A r \in Ids, p \in Produits :
    req[r].etape = "rendre" /\ produits[p].etat # "supprime" =>
      /\ req[r].prise[p] > 0 => req[r].verrou /\ req[r].prise[p] = Net(req[r].cible, p)
      /\ p \in req[r].faits => req[r].prise[p] > 0

RenduComplet ==
  \A r \in Ids, p \in Produits :
    req[r].etape = "rendre" /\ req[r].verrou /\ req[r].statut = "annulee" =>
      req[r].prise[p] = Net(req[r].cible, p) \/ produits[p].etat = "supprime"

(* A sale read as cancelled has nothing left to restore.                    *)
DejaRendu ==
  \A r \in Ids, p \in Produits :
    req[r].etape \in {"a_controler", "marquer"} /\ req[r].avant = "annulee" =>
      Net(req[r].cible, p) = 0 \/ produits[p].etat = "supprime"

(* A product that was never created has no stock and was never sold.        *)
Inexistants ==
  \A p \in Produits : produits[p].etat = "inexistant" =>
    produits[p].stock = 0 /\ \A i \in Ids : Net(i, p) = 0

IInv ==
  /\ TypeOK /\ StockConserve /\ RestitutionJuste
  /\ LigneFinie /\ LedgerVide /\ CibleExiste /\ JourFixe /\ SansVerrou
  /\ VerrousProduits /\ LuSousVerrou /\ PriseVente
  /\ VerrousLignes /\ PriseRendue /\ RenduComplet /\ DejaRendu /\ Inexistants

----------------------------------------------------------------------------
(* Type correctness of a step.                                              *)

(* The shape of the constants that the proofs use.                          *)
LEMMA Constantes ==
  /\ Jours \subseteq Nat /\ 1 \in Jours
  /\ Rien \in [Produits -> Nat]
  /\ \A p \in Produits : Rien[p] = 0
  /\ SessionAbsente \in Session
  /\ \A r \in Ids : RequeteLibre(r) \in Requete
  /\ LigneAbsente \in Ligne
BY NbJoursNat DEF Jours, Rien, SessionAbsente, Session, RequeteLibre, Requete, LigneAbsente,
  Ligne, Statuts, Natures, Ops

(* The till of a day is a sum of integers.                                  *)
LEMMA TheoriqueEntier ==
  ASSUME TypeJournee, NEW fond \in Nat, NEW j \in Jours
  PROVE  CaisseTheorique(fond, j) \in Int
<1> DEFINE f == [i \in Ids |-> Contribution(lignes[i], j)]
<1>1. \A i \in Ids : Contribution(lignes[i], j) \in Int
  BY DEF TypeJournee, Contribution, Ligne, Entrees
<1>2. \A i \in Ids : f[i] \in Int
  BY <1>1
<1>3. SumFunctionOnSet(f, Ids) \in Int
  <2> HIDE DEF f
  <2> QED BY <1>2, IdsFini, SommeType
<1> QED
  BY <1>3 DEF CaisseTheorique, Mouvements

(* A step of handler g that changes only its etape keeps the handlers typed.*)
LEMMA TypeVers ==
  ASSUME guichets \in [Guichets -> Guichet], NEW g \in Guichets,
         NEW e \in {"libre", "lu", "somme", "journal", "fini"}, Vers(g, e)
  PROVE  guichets' \in [Guichets -> Guichet]
<1>1. [guichets[g] EXCEPT !.etape = e] \in Guichet
  BY Zenon DEF Guichet
<1> QED
  BY <1>1 DEF Vers

(* Every step of a session handler keeps the types of the day.              *)
LEMMA TypeGuichet ==
  ASSUME TypeJournee, NEW g \in Guichets,
         EtapeGuichet(g) \/ \E geste \in Gestes : LireSession(g, geste)
  PROVE  TypeJournee'
<1> DEFINE r == guichets[g]
<1> USE DEF TypeJournee
<1>a. r \in Guichet
  OBVIOUS
<1>b. /\ r.jour \in Jours /\ r.montant \in Nat /\ r.vu \in Session
      /\ r.vu.fond \in Nat /\ r.theorique \in Int
  BY <1>a DEF Guichet, Session
<1>c. sessions[r.jour] \in Session
  BY <1>b
<1>1. ASSUME NEW geste \in Gestes, LireSession(g, geste) PROVE TypeJournee'
  <2>1. geste \in {"ouvrir", "corriger", "fermer"}
    BY GestesConnus
  <2>2. PICK m \in Fonds :
          guichets' = [guichets EXCEPT ![g] =
                        [geste |-> geste, etape |-> "lu", jour |-> aujourdhui, montant |-> m,
                         vu |-> sessions[aujourdhui], theorique |-> 0]]
    BY <1>1 DEF LireSession
  <2>3. [geste |-> geste, etape |-> "lu", jour |-> aujourdhui, montant |-> m,
         vu |-> sessions[aujourdhui], theorique |-> 0] \in Guichet
    BY <2>1, FondsNat DEF Guichet
  <2> QED BY <1>1, <2>2, <2>3 DEF LireSession
<1>2. CASE CreerJournee(g)
  <2>1. [SessionAbsente EXCEPT !.etat = "ouverte", !.declare = TRUE, !.fond = r.montant] \in Session
    BY <1>b, Constantes, Zenon DEF Session
  <2>2. sessions' \in [Jours -> Session]
    BY <1>2, <1>b, <2>1 DEF CreerJournee
  <2>3. guichets' \in [Guichets -> Guichet]
    BY <1>2, TypeVers DEF CreerJournee
  <2> QED BY <1>2, <2>2, <2>3 DEF CreerJournee
<1>3. CASE DeclarerFond(g)
  <2>1. [sessions[r.jour] EXCEPT !.fond = r.montant, !.declare = TRUE, !.etat = "ouverte"] \in Session
    BY <1>b, <1>c, Zenon DEF Session
  <2>2. sessions' \in [Jours -> Session]
    BY <1>3, <1>b, <2>1 DEF DeclarerFond
  <2>3. guichets' \in [Guichets -> Guichet]
    BY <1>3, TypeVers DEF DeclarerFond
  <2> QED BY <1>3, <2>2, <2>3 DEF DeclarerFond
<1>4. CASE Rouvrir(g)
  <2>1. [sessions[r.jour] EXCEPT !.etat = "ouverte"] \in Session
    BY <1>c, Zenon DEF Session
  <2>2. sessions' \in [Jours -> Session]
    BY <1>4, <1>b, <2>1 DEF Rouvrir
  <2>3. guichets' \in [Guichets -> Guichet]
    BY <1>4, TypeVers DEF Rouvrir
  <2> QED BY <1>4, <2>2, <2>3 DEF Rouvrir
<1>5. CASE CorrigerFond(g)
  <2>1. [sessions[r.jour] EXCEPT !.fond = r.montant, !.declare = TRUE] \in Session
    BY <1>b, <1>c, Zenon DEF Session
  <2>2. sessions' \in [Jours -> Session]
    BY <1>5, <1>b, <2>1 DEF CorrigerFond
  <2>3. guichets' \in [Guichets -> Guichet]
    BY <1>5, TypeVers DEF CorrigerFond
  <2> QED BY <1>5, <2>2, <2>3 DEF CorrigerFond
<1>6. CASE JournaliserFond(g)
  <2> DEFINE e == [ancien |-> IF r.vu.etat = "absente" THEN -1 ELSE r.vu.fond,
                   nouveau |-> r.montant]
  <2>1. e \in Entree
    BY <1>b DEF Entree
  <2>2. Append(journal, e) \in Seq(Entree)
    BY <2>1
  <2>3. journal' \in Seq(Entree)
    BY <1>6, <2>2 DEF JournaliserFond
  <2>4. guichets' \in [Guichets -> Guichet]
    BY <1>6, TypeVers DEF JournaliserFond
  <2> QED BY <1>6, <2>3, <2>4 DEF JournaliserFond
<1>7. CASE SommerJournee(g)
  <2> DEFINE t == CaisseTheorique(r.vu.fond, r.jour)
  <2>1. t \in Int
    BY <1>b, TheoriqueEntier
  <2>2. [r EXCEPT !.theorique = t, !.etape = "somme"] \in Guichet
    <3> HIDE DEF t, r
    <3> QED BY <1>a, <2>1, Zenon DEF Guichet
  <2>3. guichets' \in [Guichets -> Guichet]
    BY <1>7, <2>2 DEF SommerJournee
  <2> QED BY <1>7, <2>3 DEF SommerJournee
<1>8. CASE FermerJournee(g)
  <2>1. [sessions[r.jour] EXCEPT !.etat = "fermee", !.theorique = r.theorique,
                                 !.comptage = r.montant] \in Session
    BY <1>b, <1>c, Zenon DEF Session
  <2>2. sessions' \in [Jours -> Session]
    BY <1>8, <1>b, <2>1 DEF FermerJournee
  <2>3. guichets' \in [Guichets -> Guichet]
    BY <1>8, TypeVers DEF FermerJournee
  <2> QED BY <1>8, <2>2, <2>3 DEF FermerJournee
<1> QED
  BY <1>1, <1>2, <1>3, <1>4, <1>5, <1>6, <1>7, <1>8 DEF EtapeGuichet

----------------------------------------------------------------------------
(* The sums of the ledger.                                                  *)

(* The net of every sale is an integer, and so is their sum.                *)
LEMMA NetEntier ==
  ASSUME TypeOK
  PROVE  /\ \A i \in Ids, p \in Produits : Net(i, p) \in Int
         /\ \A p \in Produits : Sorties(p) \in Int
<1>1. \A i \in Ids, p \in Produits : Net(i, p) \in Int
  BY DEF TypeOK, Net
<1>2. ASSUME NEW p \in Produits PROVE Sorties(p) \in Int
  <2> DEFINE f == [i \in Ids |-> Net(i, p)]
  <2>1. \A i \in Ids : f[i] \in Int
    BY <1>1
  <2>2. SumFunctionOnSet(f, Ids) \in Int
    <3> HIDE DEF f
    <3> QED BY <2>1, IdsFini, SommeType
  <2> QED BY <2>2 DEF Sorties
<1> QED BY <1>1, <1>2

(* The sum follows the one sale whose ledger changes.                       *)
LEMMA SortiesMiseAJour ==
  ASSUME TypeOK, TypeOK', NEW t \in Ids, NEW p \in Produits,
         \A i \in Ids \ {t} : retranche'[i] = retranche[i] /\ rendu'[i] = rendu[i]
  PROVE  Sorties(p)' = Sorties(p) - Net(t, p) + Net(t, p)'
<1> DEFINE f == [i \in Ids |-> Net(i, p)]
           h == [i \in Ids |-> Net(i, p)']
<1>1. \A i \in Ids : f[i] \in Int
  BY NetEntier
<1>2. h[t] \in Int
  BY DEF TypeOK, Net
<1>3. \A i \in Ids \ {t} : h[i] = f[i]
  BY DEF Net
<1>4. SumFunctionOnSet(h, Ids) = SumFunctionOnSet(f, Ids) - f[t] + h[t]
  <2> HIDE DEF f, h
  <2> QED BY <1>1, <1>2, <1>3, IdsFini, SommeMiseAJour
<1> QED
  BY <1>4 DEF Sorties

(* No change of the ledger, no change of the sums.                          *)
LEMMA SortiesInchangees ==
  ASSUME TypeOK, TypeOK', NEW p \in Produits, UNCHANGED <<retranche, rendu>>
  PROVE  Sorties(p)' = Sorties(p)
<1> DEFINE f == [i \in Ids |-> Net(i, p)]
           h == [i \in Ids |-> Net(i, p)']
<1>1. \A i \in Ids : f[i] = h[i]
  BY DEF Net
<1>2. SumFunctionOnSet(f, Ids) = SumFunctionOnSet(h, Ids)
  <2> HIDE DEF f, h
  <2> QED BY <1>1, IdsFini, SommeCongruence
<1> QED
  BY <1>2 DEF Sorties

----------------------------------------------------------------------------
(* Steps that take no lock: the other requests and the ledger are as before,*)
(* and the request that moves is not, or no longer, in a transaction.       *)

Ailleurs(r) == \A s \in Ids \ {r} : req'[s] = req[s]

(* A request that is received, refused, answered, rolled back or that       *)
(* inserts a row by itself keeps the invariant.                             *)
LEMMA PasSansVerrou ==
  ASSUME IInv, TypeOK', NEW r \in Ids, Ailleurs(r),
         UNCHANGED <<produits, retranche, rendu, saisi>>,
         req[r].etape # "fini",
         req'[r].etape \notin {"lignes", "rendre", "ecrire"},
         req'[r].etape # "fini" => req'[r].faits = {} /\ req'[r].prise = Rien,
         req'[r].etape \in {"a_controler", "marquer"} =>
           /\ Existe(req'[r].cible)
           /\ req'[r].avant = "annulee" =>
                \A p \in Produits : \/ Net(req'[r].cible, p) = 0
                                     \/ produits[p].etat = "supprime",
         \A t \in Ids \ {r} : lignes'[t] = lignes[t],
         \/ lignes'[r] = lignes[r]
         \/ /\ req'[r].etape = "fini"
            /\ lignes'[r].type # "absente" /\ lignes'[r].statut = "validee"
  PROVE  IInv'
<1> USE DEF IInv, Ailleurs
<1>a. ~Existe(r)
  BY DEF LigneFinie
<1>b. \A i \in Ids, p \in Produits : Net(i, p)' = Net(i, p)
  BY DEF Net
<1>c. \A s \in Ids, p \in Produits : Verrouille(s, p)' => s # r /\ Verrouille(s, p)
  BY DEF Verrouille
<1>d. \A t \in Ids : Existe(t) => Existe(t)' /\ lignes'[t] = lignes[t]
  BY <1>a DEF Existe
<1>1. StockConserve'
  <2> SUFFICES ASSUME NEW p \in Produits, produits'[p].etat # "supprime"
               PROVE  produits'[p].stock = saisi'[p] - Sorties(p)'
    BY DEF StockConserve
  <2> QED BY SortiesInchangees DEF StockConserve
<1>2. RestitutionJuste'
  BY <1>b DEF RestitutionJuste
<1>3. LigneFinie'
  BY <1>a DEF LigneFinie, Existe
<1>4. LedgerVide'
  BY <1>d DEF LedgerVide
<1>5. CibleExiste'
  BY <1>d DEF CibleExiste, TypeOK, Requete
<1>6. JourFixe' /\ SansVerrou' /\ PriseVente' /\ VerrousLignes'
  BY DEF JourFixe, SansVerrou, PriseVente, VerrousLignes
<1>7. VerrousProduits' /\ LuSousVerrou'
  BY <1>c DEF VerrousProduits, LuSousVerrou
<1>8. ASSUME NEW s \in Ids, NEW p \in Produits, req'[s].etape = "rendre"
      PROVE  /\ s # r /\ req'[s] = req[s]
             /\ Net(req[s].cible, p)' = Net(req[s].cible, p)
  <2>1. s # r /\ req[s].cible \in Ids
    BY <1>8 DEF TypeOK, Requete
  <2> QED BY <2>1, <1>b
<1>9. PriseRendue'
  <2> SUFFICES ASSUME NEW s \in Ids, NEW p \in Produits,
                      req'[s].etape = "rendre", produits'[p].etat # "supprime"
               PROVE  /\ req'[s].prise[p] > 0 =>
                           req'[s].verrou /\ req'[s].prise[p] = Net(req[s].cible, p)'
                      /\ p \in req'[s].faits => req'[s].prise[p] > 0
    BY Zenon DEF PriseRendue
  <2> QED BY <1>8 DEF PriseRendue
<1>10. RenduComplet'
  <2> SUFFICES ASSUME NEW s \in Ids, NEW p \in Produits,
                      req'[s].etape = "rendre", req'[s].verrou, req'[s].statut = "annulee"
               PROVE  req'[s].prise[p] = Net(req[s].cible, p)' \/ produits'[p].etat = "supprime"
    BY Zenon DEF RenduComplet
  <2> QED BY <1>8 DEF RenduComplet
<1>11. DejaRendu'
  <2> SUFFICES ASSUME NEW s \in Ids, NEW p \in Produits,
                      req'[s].etape \in {"a_controler", "marquer"}, req'[s].avant = "annulee"
               PROVE  Net(req[s].cible, p)' = 0 \/ produits'[p].etat = "supprime"
    BY Zenon DEF DejaRendu
  <2>1. req'[s].cible \in Ids
    BY DEF TypeOK, Requete
  <2>2. Net(req[s].cible, p)' = Net(req'[s].cible, p)
    BY DEF Net
  <2> QED BY <2>2 DEF DejaRendu
<1>12. Inexistants'
  BY <1>b DEF Inexistants
<1> QED
  BY <1>1, <1>2, <1>3, <1>4, <1>5, <1>6, <1>7, <1>9, <1>10, <1>11, <1>12

(* A write to products that no other request has locked, and its entry in   *)
(* saisi.                                                                   *)
LEMMA PasProduit ==
  ASSUME IInv, TypeOK', NEW r \in Ids, Ailleurs(r), NEW P \in SUBSET Produits,
         UNCHANGED <<lignes, retranche, rendu>>,
         req[r].etape # "fini", req'[r].etape = "fini",
         \A q \in Produits \ P : produits'[q] = produits[q] /\ saisi'[q] = saisi[q],
         \A p \in P : /\ \A s \in Ids \ {r} : ~Verrouille(s, p)
                      /\ produits[p].etat # "supprime"
                      /\ produits'[p].etat # "inexistant"
                      /\ \/ produits'[p].etat = "supprime"
                         \/ produits'[p].stock - produits[p].stock = saisi'[p] - saisi[p]
  PROVE  IInv'
<1> USE DEF IInv, Ailleurs
<1>b. \A i \in Ids, q \in Produits : Net(i, q)' = Net(i, q)
  BY DEF Net
<1>c. \A s \in Ids, q \in Produits :
        Verrouille(s, q)' => s # r /\ q \notin P /\ Verrouille(s, q)
  BY DEF Verrouille
<1>d. \A q \in Produits : produits[q].etat = "supprime" => produits'[q].etat = "supprime"
  OBVIOUS
<1>1. StockConserve'
  <2> SUFFICES ASSUME NEW q \in Produits, produits'[q].etat # "supprime"
               PROVE  produits'[q].stock = saisi'[q] - Sorties(q)'
    BY DEF StockConserve
  <2>1. produits[q].stock = saisi[q] - Sorties(q)
    BY DEF StockConserve
  <2>2. /\ Sorties(q)' = Sorties(q) /\ Sorties(q) \in Int
        /\ saisi[q] \in Int /\ saisi'[q] \in Int
    BY SortiesInchangees, NetEntier DEF TypeOK
  <2>3. produits[q].stock \in Int /\ produits'[q].stock \in Int
    BY DEF TypeOK, Produit
  <2>4. produits'[q].stock - produits[q].stock = saisi'[q] - saisi[q]
    <3>1. CASE q \in P
      BY <3>1
    <3>2. CASE q \notin P
      BY <3>2, <2>2, <2>3
    <3> QED BY <3>1, <3>2
  <2>5. \A a, b, c, d, e \in Int : a = b - e /\ c - a = d - b => c = d - e
    OBVIOUS
  <2> QED BY <2>1, <2>2, <2>3, <2>4, <2>5
<1>2. RestitutionJuste'
  BY <1>b, <1>d DEF RestitutionJuste
<1>3. LigneFinie' /\ LedgerVide' /\ CibleExiste'
  BY DEF LigneFinie, LedgerVide, CibleExiste, Existe
<1>4. JourFixe' /\ SansVerrou' /\ PriseVente' /\ VerrousLignes'
  BY DEF JourFixe, SansVerrou, PriseVente, VerrousLignes
<1>5. VerrousProduits' /\ LuSousVerrou'
  BY <1>c DEF VerrousProduits, LuSousVerrou
<1>6. ASSUME NEW s \in Ids, NEW q \in Produits, req'[s].etape # "fini"
      PROVE  /\ s # r /\ req'[s] = req[s]
             /\ Net(req[s].cible, q)' = Net(req[s].cible, q)
  <2>1. s # r /\ req[s].cible \in Ids
    BY <1>6 DEF TypeOK, Requete
  <2> QED BY <2>1, <1>b
<1>7. PriseRendue'
  <2> SUFFICES ASSUME NEW s \in Ids, NEW q \in Produits,
                      req'[s].etape = "rendre", produits'[q].etat # "supprime"
               PROVE  /\ req'[s].prise[q] > 0 =>
                           req'[s].verrou /\ req'[s].prise[q] = Net(req[s].cible, q)'
                      /\ q \in req'[s].faits => req'[s].prise[q] > 0
    BY Zenon DEF PriseRendue
  <2> QED BY <1>6, <1>d DEF PriseRendue
<1>8. RenduComplet'
  <2> SUFFICES ASSUME NEW s \in Ids, NEW q \in Produits,
                      req'[s].etape = "rendre", req'[s].verrou, req'[s].statut = "annulee"
               PROVE  req'[s].prise[q] = Net(req[s].cible, q)' \/ produits'[q].etat = "supprime"
    BY Zenon DEF RenduComplet
  <2> QED BY <1>6, <1>d DEF RenduComplet
<1>9. DejaRendu'
  <2> SUFFICES ASSUME NEW s \in Ids, NEW q \in Produits,
                      req'[s].etape \in {"a_controler", "marquer"}, req'[s].avant = "annulee"
               PROVE  Net(req[s].cible, q)' = 0 \/ produits'[q].etat = "supprime"
    BY Zenon DEF DejaRendu
  <2> QED BY <1>6, <1>d DEF DejaRendu
<1>10. Inexistants'
  BY <1>b DEF Inexistants
<1> QED
  BY <1>1, <1>2, <1>3, <1>4, <1>5, <1>7, <1>8, <1>9, <1>10

(* A step of the day: nothing of the requests and the ledger changes.       *)
LEMMA PasJournee ==
  ASSUME IInv, TypeOK', UNCHANGED <<lignes, varsCaisse>>
  PROVE  IInv'
<1> USE DEF varsCaisse
<1>1. StockConserve'
  BY SortiesInchangees DEF IInv, StockConserve
<1>2. \A i \in Ids, p \in Produits : Net(i, p)' = Net(i, p)
  BY DEF Net
<1>3. RestitutionJuste'
  BY <1>2 DEF IInv, RestitutionJuste
<1>4. /\ LigneFinie' /\ LedgerVide' /\ CibleExiste' /\ JourFixe' /\ SansVerrou'
      /\ VerrousProduits' /\ LuSousVerrou' /\ PriseVente' /\ VerrousLignes'
  BY DEF IInv, LigneFinie, LedgerVide, CibleExiste, Existe, JourFixe, SansVerrou,
         VerrousProduits, LuSousVerrou, Verrouille, PriseVente, VerrousLignes
<1>5. PriseRendue' /\ RenduComplet' /\ DejaRendu'
  BY DEF IInv, PriseRendue, RenduComplet, DejaRendu, Net
<1> QED
  BY <1>1, <1>2, <1>3, <1>4, <1>5 DEF IInv, Inexistants

----------------------------------------------------------------------------
(* Types of the requests.                                                   *)

Etapes == {"libre", "controle", "assurer", "inserer", "lignes",
           "a_controler", "marquer", "rendre", "cle", "ecrire", "fini"}

(* A step that changes only the etape of request r.                         *)
LEMMA EffetEtape ==
  ASSUME TypeOK, NEW r \in Ids, NEW e \in Etapes, Etape(r, e)
  PROVE  /\ req' \in [Ids -> Requete]
         /\ Ailleurs(r)
         /\ req'[r] = [req[r] EXCEPT !.etape = e]
         /\ req'[r].etape = e
         /\ req'[r].faits = req[r].faits /\ req'[r].prise = req[r].prise
         /\ req'[r].cible = req[r].cible /\ req'[r].avant = req[r].avant
<1>1. req \in [Ids -> Requete] /\ req[r] \in Requete
  BY DEF TypeOK
<1>2. [req[r] EXCEPT !.etape = e] \in Requete
  BY <1>1, Zenon DEF Requete, Etapes
<1>3. req'[r] = [req[r] EXCEPT !.etape = e] /\ Ailleurs(r)
  BY <1>1 DEF Etape, Ailleurs
<1>4. req' \in [Ids -> Requete]
  BY <1>1, <1>2 DEF Etape
<1> QED
  BY <1>1, <1>3, <1>4 DEF Requete

(* A step that gives request r another record.                              *)
LEMMA EffetRequete ==
  ASSUME TypeOK, NEW r \in Ids, NEW q \in Requete, req' = [req EXCEPT ![r] = q]
  PROVE  req' \in [Ids -> Requete] /\ req'[r] = q /\ Ailleurs(r)
BY DEF TypeOK, Ailleurs

(* The day a new row belongs to is one of the days.                         *)
LEMMA JourComptableType ==
  ASSUME TypeOK, NEW r \in Ids
  PROVE  JourComptable(r) \in Jours
BY DEF TypeOK, TypeJournee, Requete, JourComptable

(* A row inserted by a request is typed.                                    *)
LEMMA NouvelleLigneType ==
  ASSUME NEW t \in Natures, NEW m \in Nat, NEW j \in Jours
  PROVE  NouvelleLigne(t, m, j) \in Ligne
BY DEF NouvelleLigne, Ligne, Statuts

(* A received request is a request, in one of the two etapes it starts in.  *)
LEMMA EffetRecevoir ==
  ASSUME TypeOK, NEW r \in Ids, NEW op \in {"vente", "depense"}, Recevoir(r, op)
  PROVE  /\ req' \in [Ids -> Requete] /\ Ailleurs(r)
         /\ req'[r].etape \in {"fini", "controle"}
         /\ req'[r].faits = {} /\ req'[r].prise = Rien
<1>1. PICK k \in Cles \cup {SansCle}, m \in Montants, d \in DatesOperation, b \in Paniers :
        req' = [req EXCEPT ![r] =
                  [RequeteLibre(r) EXCEPT
                     !.op = op, !.cle = k, !.montant = m, !.jour = d,
                     !.panier = IF op = "vente" THEN b ELSE Rien,
                     !.etape = IF CleConnue(k) THEN "fini" ELSE "controle"]]
  BY Zenon DEF Recevoir
<1> DEFINE pn == IF op = "vente" THEN b ELSE Rien
           et == IF CleConnue(k) THEN "fini" ELSE "controle"
           q == [RequeteLibre(r) EXCEPT !.op = op, !.cle = k, !.montant = m, !.jour = d,
                                        !.panier = pn, !.etape = et]
<1>2. /\ op \in Ops \cup {"aucune"} /\ k \in Cles \cup {SansCle} /\ m \in Nat
      /\ d \in Jours \cup {0} /\ pn \in [Produits -> Nat] /\ et \in Etapes
  BY CaisseConstantes, Constantes DEF Ops, Etapes
<1>3. q \in Requete
  <2>1. RequeteLibre(r) \in Requete
    BY Constantes
  <2> HIDE DEF pn, et
  <2> QED BY <2>1, <1>2, ZenonT(60) DEF Requete, Etapes
<1>4. q.etape = et /\ q.faits = {} /\ q.prise = Rien
  BY DEF RequeteLibre
<1> QED
  BY <1>1, <1>3, <1>4, EffetRequete

(* A request that read row t remembers it and its status.                   *)
LEMMA EffetViser ==
  ASSUME TypeOK, NEW r \in Ids, NEW t \in Ids, NEW op \in Ops, NEW st \in Statuts,
         NEW e \in Etapes, Viser(r, op, t, st, e)
  PROVE  /\ req' \in [Ids -> Requete] /\ Ailleurs(r)
         /\ req'[r].etape = e /\ req'[r].cible = t /\ req'[r].avant = lignes[t].statut
         /\ req'[r].faits = {} /\ req'[r].prise = Rien
<1> DEFINE av == lignes[t].statut
           q == [RequeteLibre(r) EXCEPT !.op = op, !.cible = t, !.avant = av,
                                        !.statut = st, !.etape = e]
<1>1. av \in Statuts
  BY DEF TypeOK, TypeJournee, Ligne
<1>2. q \in Requete
  <2>1. RequeteLibre(r) \in Requete
    BY Constantes
  <2> HIDE DEF av
  <2> QED BY <2>1, <1>1, Zenon DEF Requete, Etapes
<1>3. q.etape = e /\ q.cible = t /\ q.avant = av /\ q.faits = {} /\ q.prise = Rien
  BY DEF RequeteLibre
<1>4. req' = [req EXCEPT ![r] = q]
  BY DEF Viser
<1> QED
  BY <1>2, <1>3, <1>4, EffetRequete

----------------------------------------------------------------------------
(* The actions that take no lock.                                           *)

(* Reception of a sale or an expense.                                       *)
LEMMA PasRecevoir ==
  ASSUME IInv, NEW r \in Ids, RecevoirVente(r) \/ RecevoirDepense(r)
  PROVE  IInv'
<1>1. PICK op \in {"vente", "depense"} : Recevoir(r, op)
  BY DEF RecevoirVente, RecevoirDepense
<1>2. /\ UNCHANGED <<varsJournee, cle, produits, retranche, rendu, saisi, clesStock>>
      /\ req[r].etape = "libre"
  BY <1>1 DEF Recevoir, Demarre
<1>3. TypeOK'
  BY <1>1, <1>2, EffetRecevoir DEF IInv, TypeOK, TypeJournee, varsJournee
<1> QED
  <2>1. TypeOK
    BY DEF IInv
  <2>2. /\ Ailleurs(r) /\ req'[r].etape \in {"fini", "controle"}
        /\ req'[r].faits = {} /\ req'[r].prise = Rien
    BY <2>1, <1>1, EffetRecevoir
  <2>3. UNCHANGED lignes
    BY <1>2 DEF varsJournee
  <2> QED BY <1>2, <1>3, <2>2, <2>3, PasSansVerrou

(* Both controls of the day, a rollback and a broken deadlock.              *)
LEMMA PasControler ==
  ASSUME IInv, NEW r \in Ids,
         ControlerJournee(r) \/ ControlerAnnulation(r) \/ Abandonner(r) \/ Interblocage(r)
  PROVE  IInv'
<1>0. TypeOK
  BY DEF IInv
<1>1. /\ UNCHANGED <<varsJournee, cle, produits, retranche, rendu, saisi, clesStock>>
      /\ req[r].etape # "fini"
  BY Zenon DEF ControlerJournee, ControlerAnnulation, Abandonner, Interblocage, Attend
<1>2. PICK e \in {"fini", "assurer", "marquer"} :
        /\ Etape(r, e)
        /\ e = "assurer" => req[r].etape = "controle"
        /\ e = "marquer" => req[r].etape = "a_controler"
  BY Zenon DEF ControlerJournee, ControlerAnnulation, Abandonner, Interblocage
<1>3. e \in Etapes
  BY DEF Etapes
<1>4. TypeOK'
  BY <1>0, <1>1, <1>2, <1>3, EffetEtape DEF TypeOK, TypeJournee, varsJournee
<1>5. /\ Ailleurs(r) /\ req'[r].etape = e
      /\ req'[r].faits = req[r].faits /\ req'[r].prise = req[r].prise
      /\ req'[r].cible = req[r].cible /\ req'[r].avant = req[r].avant
  BY <1>0, <1>2, <1>3, EffetEtape
<1>6. e # "fini" => req'[r].faits = {} /\ req'[r].prise = Rien
  BY <1>2, <1>5 DEF IInv, SansVerrou
<1>7. e = "marquer" =>
        /\ Existe(req'[r].cible)
        /\ req'[r].avant = "annulee" =>
             \A p \in Produits : Net(req'[r].cible, p) = 0 \/ produits[p].etat = "supprime"
  BY <1>2, <1>5 DEF IInv, CibleExiste, DejaRendu
<1>8. UNCHANGED lignes
  BY <1>1 DEF varsJournee
<1> QED
  BY <1>1, <1>4, <1>5, <1>6, <1>7, <1>8, PasSansVerrou

(* ensureSessionOuverte.                                                    *)
LEMMA PasAssurer ==
  ASSUME IInv, NEW r \in Ids, AssurerSession(r)
  PROVE  IInv'
<1>0. TypeOK
  BY DEF IInv
<1>1. /\ UNCHANGED <<aujourdhui, lignes, journal, guichets,
                     cle, produits, retranche, rendu, saisi, clesStock>>
      /\ req[r].etape = "assurer" /\ Etape(r, "inserer") /\ EnsureSession
  BY DEF AssurerSession
<1>2. [SessionAbsente EXCEPT !.etat = "ouverte"] \in Session
  BY Constantes, Zenon DEF Session
<1>3. sessions' \in [Jours -> Session]
  BY <1>0, <1>1, <1>2 DEF EnsureSession, TypeOK, TypeJournee
<1>4. TypeOK'
  BY <1>0, <1>1, <1>3, EffetEtape DEF TypeOK, TypeJournee, Etapes
<1> QED
  <2>1. /\ Ailleurs(r) /\ req'[r].etape = "inserer"
        /\ req'[r].faits = req[r].faits /\ req'[r].prise = req[r].prise
    BY <1>0, <1>1, EffetEtape DEF Etapes
  <2>2. req'[r].faits = {} /\ req'[r].prise = Rien
    BY <1>1, <2>1 DEF IInv, SansVerrou
  <2> QED BY <1>1, <1>4, <2>1, <2>2, PasSansVerrou

(* Reading the row to cancel, or to change the status of.                   *)
LEMMA PasLire ==
  ASSUME IInv, NEW r \in Ids, LireAnnulation(r) \/ LireAdmin(r)
  PROVE  IInv'
<1>0. TypeOK
  BY DEF IInv
<1>1. /\ UNCHANGED <<varsJournee, cle, produits, retranche, rendu, saisi, clesStock>>
      /\ req[r].etape = "libre"
  BY DEF LireAnnulation, LireAdmin, Demarre
<1>2. PICK t \in Ids, op \in Ops, st \in Statuts, e \in {"a_controler", "marquer"} :
        Existe(t) /\ Viser(r, op, t, st, e)
  <2>1. CASE LireAnnulation(r)
    BY <2>1, Zenon DEF LireAnnulation, Existe, Ops, Statuts
  <2>2. CASE LireAdmin(r)
    BY <2>2, CaisseConstantes, Zenon DEF LireAdmin, Ops
  <2> QED BY <2>1, <2>2
<1>3. TypeOK'
  BY <1>0, <1>1, <1>2, EffetViser DEF TypeOK, TypeJournee, varsJournee, Etapes
<1>4. lignes[t].statut = "annulee" =>
        \A p \in Produits : Net(t, p) = 0 \/ produits[p].etat = "supprime"
  BY DEF IInv, RestitutionJuste
<1> QED
  <2>1. /\ Ailleurs(r) /\ req'[r].etape = e
        /\ req'[r].cible = t /\ req'[r].avant = lignes[t].statut
        /\ req'[r].faits = {} /\ req'[r].prise = Rien
    BY <1>0, <1>2, EffetViser DEF Etapes
  <2>2. UNCHANGED lignes
    BY <1>1 DEF varsJournee
  <2> QED BY <1>1, <1>2, <1>3, <1>4, <2>1, <2>2, PasSansVerrou

(* The two ways a request inserts a row by a single statement.              *)
LEMMA PasInserer ==
  ASSUME IInv, NEW r \in Ids, InsererDepense(r) \/ EcrireDirecte(r)
  PROVE  IInv'
<1>0. TypeOK
  BY DEF IInv
<1>1. /\ UNCHANGED <<aujourdhui, sessions, journal, guichets, produits, retranche, rendu, saisi,
                     clesStock>>
      /\ req[r].etape # "fini" /\ Etape(r, "fini")
  BY DEF InsererDepense, EcrireDirecte, Demarre
<1>2. \/ lignes' = lignes
      \/ \E t \in Natures, m \in Nat, j \in Jours :
           lignes' = [lignes EXCEPT ![r] = NouvelleLigne(t, m, j)]
  <2>1. CASE InsererDepense(r)
    <3>1. req[r].montant \in Nat
      BY <1>0 DEF TypeOK, Requete
    <3>2. JourComptable(r) \in Jours /\ "depense" \in Natures
      BY <1>0, JourComptableType DEF Natures
    <3>3. \/ lignes' = lignes
          \/ lignes' = [lignes EXCEPT ![r] =
                          NouvelleLigne("depense", req[r].montant, JourComptable(r))]
      BY <2>1, Zenon DEF InsererDepense
    <3> HIDE DEF Natures
    <3> QED BY <3>1, <3>2, <3>3, Zenon
  <2>2. CASE EcrireDirecte(r)
    <3>1. aujourdhui \in Jours
      BY <1>0 DEF TypeOK, TypeJournee
    <3>2. PICK m \in Montants, t \in {"depense", "autre"} :
            lignes' = [lignes EXCEPT ![r] = NouvelleLigne(t, m, aujourdhui)]
      BY <2>2, Zenon DEF EcrireDirecte
    <3>3. m \in Nat /\ t \in Natures
      BY CaisseConstantes DEF Natures
    <3> QED BY <3>1, <3>2, <3>3
  <2> QED BY <2>1, <2>2
<1>3. cle' \in [Ids -> Cles \cup {SansCle}]
  BY <1>0 DEF TypeOK, Requete, InsererDepense, EcrireDirecte
<1>4. /\ lignes' \in [Ids -> Ligne]
      /\ \A t \in Ids \ {r} : lignes'[t] = lignes[t]
      /\ \/ lignes'[r] = lignes[r]
         \/ lignes'[r].type # "absente" /\ lignes'[r].statut = "validee"
  <2>1. CASE lignes' = lignes
    BY <2>1, <1>0 DEF TypeOK, TypeJournee
  <2>2. ASSUME NEW t \in Natures, NEW m \in Nat, NEW j \in Jours,
               lignes' = [lignes EXCEPT ![r] = NouvelleLigne(t, m, j)]
        PROVE  <1>4!1 /\ <1>4!2 /\ <1>4!3
    BY <2>2, <1>0, NouvelleLigneType DEF TypeOK, TypeJournee, NouvelleLigne, Natures, Entrees
  <2> QED BY <2>1, <2>2, <1>2
<1>5. TypeOK'
  BY <1>0, <1>1, <1>3, <1>4, EffetEtape DEF TypeOK, TypeJournee, Etapes
<1> QED
  <2>1. Ailleurs(r) /\ req'[r].etape = "fini"
    BY <1>0, <1>1, EffetEtape DEF Etapes
  <2> QED BY <1>1, <1>4, <1>5, <2>1, PasSansVerrou

(* The stock screen, one statement at a time.                               *)
LEMMA PasEcran ==
  ASSUME IInv, NEW r \in Ids,
         \/ EcrireStock(r) \/ CreerProduit(r) \/ RetirerProduit(r) \/ SupprimerProduit(r)
  PROVE  IInv'
<1>0. TypeOK
  BY DEF IInv
<1>1. /\ UNCHANGED <<varsJournee, cle, retranche, rendu, clesStock>>
      /\ req[r].etape = "libre" /\ Etape(r, "fini")
  BY DEF EcrireStock, CreerProduit, RetirerProduit, SupprimerProduit, Demarre
<1>2. UNCHANGED lignes
  BY <1>1 DEF varsJournee
<1>3. /\ req' \in [Ids -> Requete] /\ Ailleurs(r) /\ req'[r].etape = "fini"
  BY <1>0, <1>1, EffetEtape DEF Etapes
<1>4. \E p \in Produits, q \in Produit, n \in Int :
        /\ ProduitLibre(p)
        /\ produits' = [produits EXCEPT ![p] = q]
        /\ saisi' = [saisi EXCEPT ![p] = n]
        /\ produits[p].etat # "supprime" /\ q.etat # "inexistant"
        /\ q.etat = "supprime" \/ q.stock - produits[p].stock = n - saisi[p]
  <2>0. /\ produits \in [Produits -> Produit] /\ saisi \in [Produits -> Int]
        /\ \A p \in Produits : /\ produits[p] \in Produit /\ produits[p].stock \in Nat
                                /\ saisi[p] \in Int
    BY <1>0 DEF TypeOK, Produit
  <2>1. CASE EcrireStock(r)
    <3>1. PICK p \in Produits, v \in Quantites :
            /\ produits[p].etat \in {"actif", "inactif"} /\ ProduitLibre(p)
            /\ saisi' = [saisi EXCEPT ![p] = @ + v - produits[p].stock]
            /\ produits' = [produits EXCEPT ![p].stock = v]
      BY <2>1, Zenon DEF EcrireStock
    <3>2. v \in Nat
      BY CaisseConstantes
    <3> DEFINE q == [produits[p] EXCEPT !.stock = v]
               n == saisi[p] + v - produits[p].stock
    <3>3. q \in Produit
      BY <2>0, <3>2, Zenon DEF Produit
    <3>4. n \in Int /\ q.stock = v /\ v - produits[p].stock = n - saisi[p]
      BY <2>0, <3>2 DEF Produit
    <3>5. produits[p].etat # "supprime" /\ q.etat # "inexistant"
      BY <2>0, <3>1 DEF Produit
    <3>6. produits' = [produits EXCEPT ![p] = q] /\ saisi' = [saisi EXCEPT ![p] = n]
      BY <3>1
    <3> HIDE DEF q, n
    <3> QED BY <3>1, <3>3, <3>4, <3>5, <3>6
  <2>2. CASE CreerProduit(r)
    <3>1. PICK p \in Produits, v \in Quantites :
            /\ produits[p].etat = "inexistant"
            /\ saisi' = [saisi EXCEPT ![p] = @ + v]
            /\ produits' = [produits EXCEPT ![p] = [etat |-> "actif", stock |-> v]]
      BY <2>2, Zenon DEF CreerProduit
    <3>2. v \in Nat
      BY CaisseConstantes
    <3> DEFINE q == [etat |-> "actif", stock |-> v]
    <3>3. q \in Produit /\ q.stock = v /\ q.etat # "inexistant"
      BY <3>2 DEF Produit
    <3>4. ProduitLibre(p)
      BY <3>1 DEF IInv, LuSousVerrou, ProduitLibre
    <3> DEFINE n == saisi[p] + v
    <3>5. n \in Int /\ v - produits[p].stock = n - saisi[p]
      <4>1. produits[p].stock = 0
        BY <3>1 DEF IInv, Inexistants
      <4> QED BY <4>1, <3>2, <2>0
    <3>6. produits' = [produits EXCEPT ![p] = q] /\ saisi' = [saisi EXCEPT ![p] = n]
      BY <3>1
    <3>7. produits[p].etat # "supprime"
      BY <3>1
    <3> HIDE DEF q, n
    <3> QED BY <3>3, <3>4, <3>5, <3>6, <3>7
  <2>3. CASE RetirerProduit(r)
    <3>1. PICK p \in Produits :
            /\ produits[p].etat = "actif" /\ ProduitLibre(p)
            /\ produits' = [produits EXCEPT ![p].etat = "inactif"]
            /\ saisi' = saisi
      BY <2>3, Zenon DEF RetirerProduit
    <3> DEFINE q == [produits[p] EXCEPT !.etat = "inactif"]
    <3>2. q \in Produit
      BY <2>0, Zenon DEF Produit
    <3>3. q.stock = produits[p].stock /\ q.etat # "inexistant" /\ saisi' = [saisi EXCEPT ![p] = saisi[p]]
      BY <2>0, <3>1 DEF Produit
    <3>4. q.stock - produits[p].stock = saisi[p] - saisi[p]
      BY <2>0, <3>3
    <3> QED BY <3>1, <3>2, <3>3, <3>4, <2>0
  <2>4. CASE SupprimerProduit(r)
    <3>1. PICK p \in Produits :
            /\ produits[p].etat \in {"actif", "inactif"} /\ ProduitLibre(p)
            /\ produits' = [produits EXCEPT ![p] = [etat |-> "supprime", stock |-> 0]]
            /\ saisi' = saisi
      BY <2>4, Zenon DEF SupprimerProduit
    <3>2. [etat |-> "supprime", stock |-> 0] \in Produit
      BY DEF Produit
    <3>3. saisi' = [saisi EXCEPT ![p] = saisi[p]]
      BY <2>0, <3>1
    <3> QED BY <3>1, <3>2, <3>3, <2>0
  <2> QED BY <2>1, <2>2, <2>3, <2>4
<1>6. ASSUME NEW p \in Produits, NEW q \in Produit, NEW n \in Int,
             ProduitLibre(p), produits' = [produits EXCEPT ![p] = q],
             saisi' = [saisi EXCEPT ![p] = n], produits[p].etat # "supprime",
             q.etat # "inexistant",
             q.etat = "supprime" \/ q.stock - produits[p].stock = n - saisi[p]
      PROVE  IInv'
  <2>1. TypeOK'
    BY <1>0, <1>1, <1>3, <1>6 DEF TypeOK, TypeJournee, varsJournee
  <2>2. /\ \A x \in Produits \ {p} : produits'[x] = produits[x] /\ saisi'[x] = saisi[x]
        /\ produits'[p] = q /\ saisi'[p] = n
    BY <1>0, <1>6 DEF TypeOK
  <2>3. {p} \in SUBSET Produits /\ \A s \in Ids \ {r} : ~Verrouille(s, p)
    BY <1>6 DEF ProduitLibre
  <2>4. \A x \in Produits \ {p} : produits'[x] = produits[x] /\ saisi'[x] = saisi[x]
    BY <2>2
  <2>5. \A x \in {p} : /\ \A s \in Ids \ {r} : ~Verrouille(s, x)
                      /\ produits[x].etat # "supprime" /\ produits'[x].etat # "inexistant"
                      /\ \/ produits'[x].etat = "supprime"
                         \/ produits'[x].stock - produits[x].stock = saisi'[x] - saisi[x]
    BY <1>6, <2>2, <2>3
  <2> QED BY <1>1, <1>2, <1>3, <2>1, <2>3, <2>4, <2>5, PasProduit
<1> QED BY <1>4, <1>6

(* A keyed write opens its transaction, or is answered as a replay.         *)
LEMMA EffetPoserCle ==
  ASSUME TypeOK, NEW r \in Ids, PoserCle(r)
  PROVE  /\ req' \in [Ids -> Requete] /\ Ailleurs(r)
         /\ req'[r].faits = {} /\ req'[r].prise = Rien
         /\ req'[r].cle \in Cles /\ CleStockLibre(req'[r].cle)
         /\ IF req'[r].cle \in clesStock
            THEN req'[r].etape = "fini" /\ req'[r].issue = "rejouee"
            ELSE req'[r].etape = "cle" /\ req'[r].issue = "aucune"
<1>1. PICK p \in Produits, v \in Quantites, k \in Cles :
        /\ CleStockLibre(k)
        /\ req' = [req EXCEPT ![r] =
                     [RequeteLibre(r) EXCEPT
                        !.op = "stock", !.cle = k, !.vise = {p},
                        !.panier = [Rien EXCEPT ![p] = v],
                        !.issue = IF k \in clesStock THEN "rejouee" ELSE "aucune",
                        !.etape = IF k \in clesStock THEN "fini" ELSE "cle"]]
  BY Zenon DEF PoserCle
<1> DEFINE pn == [Rien EXCEPT ![p] = v]
           is == IF k \in clesStock THEN "rejouee" ELSE "aucune"
           et == IF k \in clesStock THEN "fini" ELSE "cle"
           vs == {p}
           q == [RequeteLibre(r) EXCEPT !.op = "stock", !.cle = k, !.vise = vs,
                                        !.panier = pn, !.issue = is, !.etape = et]
<1>2. /\ v \in Nat /\ pn \in [Produits -> Nat] /\ vs \in SUBSET Produits
      /\ is \in {"aucune", "ecrite", "sans_objet", "rejouee"} /\ et \in Etapes
  BY CaisseConstantes, Constantes DEF Etapes
<1>3. q \in Requete
  <2>1. RequeteLibre(r) \in Requete
    BY Constantes
  <2> HIDE DEF pn, is, et, vs
  <2> QED BY <2>1, <1>2, ZenonT(60) DEF Requete, Etapes, Ops
<1>4. q.etape = et /\ q.faits = {} /\ q.prise = Rien /\ q.cle = k /\ q.issue = is
  <2> HIDE DEF pn, is, et, vs
  <2> QED BY DEF RequeteLibre
<1> QED
  BY <1>1, <1>3, <1>4, EffetRequete

LEMMA PasPoserCle ==
  ASSUME IInv, NEW r \in Ids, PoserCle(r)
  PROVE  IInv'
<1>0. TypeOK
  BY DEF IInv
<1>1. /\ UNCHANGED <<varsJournee, cle, produits, retranche, rendu, saisi, clesStock>>
      /\ req[r].etape = "libre"
  BY DEF PoserCle, Demarre
<1>2. /\ req' \in [Ids -> Requete] /\ Ailleurs(r) /\ req'[r].etape \in {"fini", "cle"}
      /\ req'[r].faits = {} /\ req'[r].prise = Rien
  BY <1>0, EffetPoserCle
<1>3. UNCHANGED lignes /\ TypeOK'
  BY <1>0, <1>1, <1>2 DEF TypeOK, TypeJournee, varsJournee
<1> QED BY <1>1, <1>2, <1>3, PasSansVerrou

(* The session routes and midnight.                                         *)
LEMMA PasGuichet ==
  ASSUME IInv,
         \/ \E g \in Guichets : GuichetOuvre(g) \/ GuichetAvance(g)
         \/ NouveauJour
  PROVE  IInv'
<1>1. UNCHANGED <<lignes, varsCaisse>>
  BY DEF GuichetOuvre, GuichetAvance, NouveauJour, LireSession, Minuit, EtapeGuichet,
         CreerJournee, DeclarerFond, Rouvrir, CorrigerFond, JournaliserFond, SommerJournee,
         FermerJournee
<1>2. TypeJournee'
  <2>1. TypeJournee
    BY DEF IInv, TypeOK
  <2>2. ASSUME NEW g \in Guichets, GuichetOuvre(g) \/ GuichetAvance(g) PROVE TypeJournee'
    BY <2>1, <2>2, TypeGuichet DEF GuichetOuvre, GuichetAvance
  <2>3. CASE NouveauJour
    BY <2>1, <2>3, NbJoursNat DEF NouveauJour, Minuit, TypeJournee, Jours
  <2> QED BY <2>2, <2>3
<1>3. TypeOK'
  BY <1>1, <1>2 DEF IInv, TypeOK, varsCaisse
<1> QED
  BY <1>1, <1>3, PasJournee

----------------------------------------------------------------------------
(* Steps inside a transaction that publish nothing: the tables and the      *)
(* ledger are as before, only request r and the locks it holds change.      *)
LEMMA PasDansTransaction ==
  ASSUME IInv, TypeOK', NEW r \in Ids, Ailleurs(r),
         UNCHANGED <<lignes, produits, retranche, rendu, saisi>>,
         req[r].etape # "fini", req'[r].etape \in {"lignes", "rendre", "ecrire"},
         req'[r].etape = "lignes" => req'[r].jour \in Jours,
         req'[r].etape = "rendre" => Existe(req'[r].cible),
         \A p \in Produits : p \in req'[r].faits =>
           /\ \A s \in Ids \ {r} : ~Verrouille(s, p)
           /\ req'[r].etape # "ecrire" => req'[r].lu[p] = produits[p].stock
           /\ produits[p].etat \in {"actif", "inactif"},
         req'[r].etape = "lignes" =>
           \A p \in Produits : IF p \in req'[r].faits THEN req'[r].prise[p] <= req'[r].lu[p]
                                                     ELSE req'[r].prise[p] = 0,
         req'[r].etape = "rendre" /\ req'[r].verrou =>
           \A s \in Ids \ {r} : ~(/\ req[s].etape = "rendre" /\ req[s].verrou
                                   /\ req[s].cible = req'[r].cible),
         \A p \in Produits :
           req'[r].etape = "rendre" /\ produits[p].etat # "supprime" =>
             /\ req'[r].prise[p] > 0 =>
                  req'[r].verrou /\ req'[r].prise[p] = Net(req'[r].cible, p)
             /\ p \in req'[r].faits => req'[r].prise[p] > 0,
         \A p \in Produits :
           req'[r].etape = "rendre" /\ req'[r].verrou /\ req'[r].statut = "annulee" =>
             req'[r].prise[p] = Net(req'[r].cible, p) \/ produits[p].etat = "supprime"
  PROVE  IInv'
<1> USE DEF IInv, Ailleurs
<1>b. \A i \in Ids, p \in Produits : Net(i, p)' = Net(i, p)
  BY DEF Net
<1>c. \A s \in Ids \ {r}, p \in Produits : Verrouille(s, p)' <=> Verrouille(s, p)
  BY DEF Verrouille
<1>d. \A p \in Produits : Verrouille(r, p)' <=> p \in req'[r].faits
  BY DEF Verrouille
<1>e. \A s \in Ids, p \in Produits :
        /\ Net(req'[s].cible, p) \in Int
        /\ Net(req[s].cible, p)' = Net(req'[s].cible, p)
  BY NetEntier DEF TypeOK, Requete, Net
<1>1. StockConserve'
  BY SortiesInchangees DEF StockConserve
<1>11. Inexistants'
  BY <1>b DEF Inexistants
<1>2. RestitutionJuste'
  BY <1>b DEF RestitutionJuste
<1>3. LigneFinie' /\ LedgerVide'
  BY DEF LigneFinie, LedgerVide, Existe
<1>4. CibleExiste'
  BY DEF CibleExiste, Existe
<1>5. JourFixe' /\ SansVerrou' /\ PriseVente'
  BY DEF JourFixe, SansVerrou, PriseVente
<1>6. VerrousProduits' /\ LuSousVerrou'
  BY <1>c, <1>d DEF VerrousProduits, LuSousVerrou
<1>7. VerrousLignes'
  BY DEF VerrousLignes
<1>8. PriseRendue'
  <2> SUFFICES ASSUME NEW s \in Ids, NEW p \in Produits,
                      req'[s].etape = "rendre", produits'[p].etat # "supprime"
               PROVE  /\ req'[s].prise[p] > 0 =>
                           req'[s].verrou /\ req'[s].prise[p] = Net(req[s].cible, p)'
                      /\ p \in req'[s].faits => req'[s].prise[p] > 0
    BY Zenon DEF PriseRendue
  <2> QED BY <1>e DEF PriseRendue
<1>9. RenduComplet'
  <2> SUFFICES ASSUME NEW s \in Ids, NEW p \in Produits,
                      req'[s].etape = "rendre", req'[s].verrou, req'[s].statut = "annulee"
               PROVE  req'[s].prise[p] = Net(req[s].cible, p)' \/ produits'[p].etat = "supprime"
    BY Zenon DEF RenduComplet
  <2> QED BY <1>e DEF RenduComplet
<1>10. DejaRendu'
  <2> SUFFICES ASSUME NEW s \in Ids, NEW p \in Produits,
                      req'[s].etape \in {"a_controler", "marquer"}, req'[s].avant = "annulee"
               PROVE  Net(req[s].cible, p)' = 0 \/ produits'[p].etat = "supprime"
    BY Zenon DEF DejaRendu
  <2> QED BY <1>e DEF DejaRendu
<1> QED
  BY <1>1, <1>2, <1>3, <1>4, <1>5, <1>6, <1>7, <1>8, <1>9, <1>10, <1>11

(* The INSERT of a sale opens its transaction.                              *)
LEMMA PasInsererVente ==
  ASSUME IInv, NEW r \in Ids, InsererVente(r)
  PROVE  IInv'
<1>0. TypeOK /\ req[r] \in Requete
  BY DEF IInv, TypeOK
<1> DEFINE j == JourComptable(r)
           e == IF CleConnue(req[r].cle) THEN "fini" ELSE "lignes"
           q == [req[r] EXCEPT !.jour = j, !.etape = e]
<1>1. /\ UNCHANGED <<varsJournee, cle, produits, retranche, rendu, saisi, clesStock>>
      /\ req[r].etape = "inserer" /\ req' = [req EXCEPT ![r] = q]
  BY <1>0 DEF InsererVente, TypeOK
<1>2. UNCHANGED lignes
  BY <1>1 DEF varsJournee
<1>3. q \in Requete
  <2>1. j \in Jours /\ e \in {"fini", "lignes"}
    BY <1>0, JourComptableType
  <2> HIDE DEF j, e
  <2> QED BY <1>0, <2>1, Zenon DEF Requete
<1>4. /\ q.etape = e /\ q.jour = j /\ j \in Jours
      /\ q.faits = {} /\ q.prise = Rien
  <2>1. req[r].faits = {} /\ req[r].prise = Rien
    BY <1>1 DEF IInv, SansVerrou
  <2> QED BY <1>0, <2>1, JourComptableType DEF Requete
<1>5. req' \in [Ids -> Requete] /\ req'[r] = q /\ Ailleurs(r)
  <2> HIDE DEF q
  <2> QED BY <1>0, <1>1, <1>3, EffetRequete
<1>6. TypeOK'
  BY <1>0, <1>1, <1>5 DEF TypeOK, TypeJournee, varsJournee
<1>7. CASE e = "fini"
  <2>1. req'[r].etape = "fini"
    BY <1>4, <1>5, <1>7
  <2> QED BY <1>1, <1>2, <1>5, <1>6, <2>1, PasSansVerrou
<1>8. CASE e = "lignes"
  <2>1. /\ req'[r].etape = "lignes" /\ req'[r].faits = {} /\ req'[r].prise = Rien
        /\ req'[r].jour \in Jours
    BY <1>4, <1>5, <1>8
  <2>2. \A p \in Produits : req'[r].prise[p] = 0
    BY <2>1, Constantes
  <2> QED BY <1>1, <1>2, <1>5, <1>6, <2>1, <2>2, PasDansTransaction
<1> QED BY <1>7, <1>8

(* One more line of a cart, read under its lock.                            *)
LEMMA PasVendreLigne ==
  ASSUME IInv, NEW r \in Ids, VendreLigne(r)
  PROVE  IInv'
<1>0. TypeOK /\ req[r] \in Requete
  BY DEF IInv, TypeOK
<1>1. PICK p \in Produits \ req[r].faits :
        /\ req[r].panier[p] > 0
        /\ produits[p].etat = "actif" /\ ProduitLibre(p)
        /\ req' = [req EXCEPT ![r] =
                     [req[r] EXCEPT !.faits = req[r].faits \cup {p},
                               !.lu = [req[r].lu EXCEPT ![p] = produits[p].stock],
                               !.prise = [req[r].prise EXCEPT
                                            ![p] = Moindre(req[r].panier[p], produits[p].stock)]]]
  BY Zenon DEF VendreLigne
<1>2. /\ UNCHANGED <<varsJournee, cle, produits, retranche, rendu, saisi, clesStock>>
      /\ req[r].etape = "lignes"
  BY DEF VendreLigne
<1>3. UNCHANGED lignes
  BY <1>2 DEF varsJournee
<1> DEFINE n == produits[p].stock
           a == Moindre(req[r].panier[p], n)
           fs == req[r].faits \cup {p}
           l == [req[r].lu EXCEPT ![p] = n]
           k == [req[r].prise EXCEPT ![p] = a]
           q == [req[r] EXCEPT !.faits = fs, !.lu = l, !.prise = k]
<1>4. n \in Nat /\ a \in Nat /\ a <= n
  <2>1. n \in Nat /\ req[r].panier[p] \in Nat
    BY <1>0 DEF TypeOK, Produit, Requete
  <2> QED BY <2>1 DEF Moindre
<1>5. /\ req[r].lu \in [Produits -> Nat] /\ req[r].prise \in [Produits -> Nat]
      /\ req[r].faits \in SUBSET Produits
  BY <1>0 DEF Requete
<1>6. l \in [Produits -> Nat] /\ k \in [Produits -> Nat] /\ fs \in SUBSET Produits
  <2> HIDE DEF n, a
  <2> QED BY <1>4, <1>5
<1>7. q \in Requete
  <2> HIDE DEF l, k, fs
  <2> QED BY <1>0, <1>6, Zenon DEF Requete
<1>8. req' = [req EXCEPT ![r] = q]
  BY <1>0, <1>1 DEF TypeOK
<1>9. req' \in [Ids -> Requete] /\ req'[r] = q /\ Ailleurs(r)
  <2> HIDE DEF q
  <2> QED BY <1>0, <1>7, <1>8, EffetRequete
<1>10. TypeOK'
  BY <1>0, <1>2, <1>9 DEF TypeOK, TypeJournee, varsJournee
<1>11. /\ req'[r].etape = "lignes" /\ req'[r].jour = req[r].jour
       /\ req'[r].faits = fs /\ req'[r].lu = l /\ req'[r].prise = k
  <2> HIDE DEF l, k, fs
  <2>1. /\ q.etape = req[r].etape /\ q.jour = req[r].jour
        /\ q.faits = fs /\ q.lu = l /\ q.prise = k
    BY <1>0 DEF Requete
  <2> QED BY <1>2, <1>9, <2>1
<1>12. ASSUME NEW x \in Produits
       PROVE  /\ x \in fs =>
                   /\ \A s \in Ids \ {r} : ~Verrouille(s, x)
                   /\ l[x] = produits[x].stock
                   /\ produits[x].etat \in {"actif", "inactif"}
              /\ IF x \in fs THEN k[x] <= l[x] ELSE k[x] = 0
  <2>1. CASE x = p
    <3>1. l[x] = n /\ k[x] = a
      <4> HIDE DEF n, a
      <4> QED BY <2>1, <1>5
    <3> QED BY <2>1, <3>1, <1>1, <1>4 DEF ProduitLibre
  <2>2. CASE x # p
    <3>1. l[x] = req[r].lu[x] /\ k[x] = req[r].prise[x]
      <4> HIDE DEF n, a
      <4> QED BY <2>2, <1>5
    <3>2. x \in fs <=> x \in req[r].faits
      BY <2>2
    <3>3. x \in fs => Verrouille(r, x)
      BY <3>2, <1>2 DEF Verrouille
    <3> QED BY <3>1, <3>2, <3>3, <1>2 DEF IInv, LuSousVerrou, VerrousProduits, PriseVente
  <2> QED BY <2>1, <2>2
<1>13. req[r].jour \in Jours
  BY <1>2 DEF IInv, JourFixe
<1> QED
  <2> HIDE DEF l, k, fs
  <2> QED BY <1>2, <1>3, <1>9, <1>10, <1>11, <1>12, <1>13, PasDansTransaction

(* The UPDATE of the status takes the row lock and reads what to restore.   *)
LEMMA PasMarquerStatut ==
  ASSUME IInv, NEW r \in Ids, MarquerStatut(r)
  PROVE  IInv'
<1>0. TypeOK /\ req[r] \in Requete /\ req[r].cible \in Ids
  BY DEF IInv, TypeOK, Requete
<1> DEFINE t == req[r].cible
           v == lignes[t].statut # req[r].statut
           k == IF Restitue(r) THEN [p \in Produits |-> Net(t, p)] ELSE Rien
           q == [req[r] EXCEPT !.etape = "rendre", !.verrou = v, !.prise = k]
<1>1. /\ UNCHANGED <<varsJournee, cle, produits, retranche, rendu, saisi, clesStock>>
      /\ req[r].etape = "marquer"
      /\ ~v \/ LigneLibre(t)
      /\ req' = [req EXCEPT ![r] = q]
  BY <1>0, Zenon DEF MarquerStatut, TypeOK
<1>2. UNCHANGED lignes
  BY <1>1 DEF varsJournee
<1>3. k \in [Produits -> Nat]
  <2>1. ASSUME NEW p \in Produits PROVE Net(t, p) \in Nat
    <3>1. Net(t, p) \in Int /\ Net(t, p) >= 0
      BY <1>0, NetEntier DEF IInv, RestitutionJuste
    <3> QED BY <3>1
  <2> QED BY <2>1, Constantes
<1>4. q \in Requete
  <2>1. v \in BOOLEAN
    OBVIOUS
  <2> HIDE DEF v, k
  <2> QED BY <1>0, <1>3, <2>1, Zenon DEF Requete
<1>5. req' \in [Ids -> Requete] /\ req'[r] = q /\ Ailleurs(r)
  <2> HIDE DEF q
  <2> QED BY <1>0, <1>1, <1>4, EffetRequete
<1>6. TypeOK'
  BY <1>0, <1>1, <1>5 DEF TypeOK, TypeJournee, varsJournee
<1>7. req[r].faits = {}
  BY <1>1 DEF IInv, SansVerrou
<1>8. /\ req'[r].etape = "rendre" /\ req'[r].cible = t /\ req'[r].faits = {}
      /\ req'[r].verrou = v /\ req'[r].prise = k /\ req'[r].statut = req[r].statut
  <2> HIDE DEF v, k
  <2>1. /\ q.etape = "rendre" /\ q.cible = t /\ q.faits = req[r].faits
        /\ q.verrou = v /\ q.prise = k /\ q.statut = req[r].statut
    BY <1>0 DEF Requete
  <2> QED BY <1>5, <1>7, <2>1
<1>9. Existe(t)
  BY <1>1 DEF IInv, CibleExiste
<1>10. v => \A s \in Ids \ {r} :
              ~(req[s].etape = "rendre" /\ req[s].verrou /\ req[s].cible = t)
  BY <1>1 DEF LigneLibre
<1>11. ASSUME NEW p \in Produits, produits[p].etat # "supprime"
       PROVE  /\ k[p] > 0 => v /\ k[p] = Net(t, p)
              /\ v /\ req[r].statut = "annulee" => k[p] = Net(t, p)
  <2>1. Net(t, p) \in Int
    BY <1>0, NetEntier
  <2>2. CASE Restitue(r)
    <3>1. k[p] = Net(t, p) /\ req[r].statut = "annulee"
      BY <2>2 DEF Restitue
    <3>2. ~v => Net(t, p) = 0
      BY <1>0, <1>11, <3>1 DEF IInv, RestitutionJuste
    <3> QED BY <3>1, <3>2, <2>1
  <2>3. CASE ~Restitue(r)
    <3>1. k[p] = 0
      BY <2>3, Constantes
    <3>2. req[r].statut = "annulee" => Net(t, p) = 0
      BY <2>3, <1>1, <1>11 DEF Restitue, IInv, DejaRendu
    <3> QED BY <3>1, <3>2
  <2> QED BY <2>2, <2>3
<1> QED
  <2> HIDE DEF v, k, t
  <2> QED BY <1>1, <1>2, <1>5, <1>6, <1>8, <1>9, <1>10, <1>11, PasDansTransaction

(* One more product to restore, read under its lock.                        *)
LEMMA PasRendreLigne ==
  ASSUME IInv, NEW r \in Ids, RendreLigne(r)
  PROVE  IInv'
<1>0. TypeOK /\ req[r] \in Requete /\ req[r].cible \in Ids
  BY DEF IInv, TypeOK, Requete
<1>1. PICK p \in ARendre(r) :
        /\ ProduitLibre(p)
        /\ req' = [req EXCEPT ![r] =
                     [req[r] EXCEPT !.faits = req[r].faits \cup {p},
                               !.lu = [req[r].lu EXCEPT ![p] = produits[p].stock]]]
  BY Zenon DEF RendreLigne
<1>2. /\ UNCHANGED <<varsJournee, cle, produits, retranche, rendu, saisi, clesStock>>
      /\ req[r].etape = "rendre"
  BY DEF RendreLigne
<1>3. UNCHANGED lignes
  BY <1>2 DEF varsJournee
<1>a. p \in Produits \ req[r].faits /\ req[r].prise[p] > 0 /\ produits[p].etat # "supprime"
  BY <1>1 DEF ARendre
<1> DEFINE n == produits[p].stock
           fs == req[r].faits \cup {p}
           l == [req[r].lu EXCEPT ![p] = n]
           q == [req[r] EXCEPT !.faits = fs, !.lu = l]
<1>4. n \in Nat
  BY <1>0, <1>a DEF TypeOK, Produit
<1>5. /\ req[r].lu \in [Produits -> Nat] /\ req[r].faits \in SUBSET Produits
  BY <1>0 DEF Requete
<1>6. l \in [Produits -> Nat] /\ fs \in SUBSET Produits
  <2> HIDE DEF n
  <2> QED BY <1>a, <1>4, <1>5
<1>7. q \in Requete
  <2> HIDE DEF l, fs
  <2> QED BY <1>0, <1>6, Zenon DEF Requete
<1>8. req' = [req EXCEPT ![r] = q]
  BY <1>0, <1>1 DEF TypeOK
<1>9. req' \in [Ids -> Requete] /\ req'[r] = q /\ Ailleurs(r)
  <2> HIDE DEF q
  <2> QED BY <1>0, <1>7, <1>8, EffetRequete
<1>10. TypeOK'
  BY <1>0, <1>2, <1>9 DEF TypeOK, TypeJournee, varsJournee
<1>11. /\ req'[r].etape = "rendre" /\ req'[r].cible = req[r].cible
       /\ req'[r].statut = req[r].statut /\ req'[r].verrou = req[r].verrou
       /\ req'[r].faits = fs /\ req'[r].lu = l /\ req'[r].prise = req[r].prise
  <2> HIDE DEF l, fs
  <2>1. /\ q.etape = req[r].etape /\ q.cible = req[r].cible
        /\ q.statut = req[r].statut /\ q.verrou = req[r].verrou
        /\ q.faits = fs /\ q.lu = l /\ q.prise = req[r].prise
    BY <1>0 DEF Requete
  <2> QED BY <1>2, <1>9, <2>1
<1>12. Existe(req[r].cible)
  BY <1>2 DEF IInv, CibleExiste
<1>b. produits[p].etat \in {"actif", "inactif"}
  <2>1. Net(req[r].cible, p) # 0
    BY <1>2, <1>a DEF IInv, PriseRendue
  <2>2. produits[p] \in Produit
    BY <1>0, <1>a DEF TypeOK
  <2> QED BY <2>1, <2>2, <1>0, <1>a DEF IInv, Inexistants, Produit
<1>13. ASSUME NEW x \in Produits, x \in fs
       PROVE  /\ \A s \in Ids \ {r} : ~Verrouille(s, x)
              /\ l[x] = produits[x].stock
              /\ produits[x].etat \in {"actif", "inactif"}
  <2>1. CASE x = p
    <3>1. l[x] = n
      <4> HIDE DEF n
      <4> QED BY <2>1, <1>5
    <3> QED BY <2>1, <3>1, <1>1, <1>b DEF ProduitLibre
  <2>2. CASE x # p
    <3>1. l[x] = req[r].lu[x]
      <4> HIDE DEF n
      <4> QED BY <2>2, <1>5
    <3>2. Verrouille(r, x)
      BY <2>2, <1>13, <1>2 DEF Verrouille
    <3> QED BY <1>2, <3>1, <3>2 DEF IInv, LuSousVerrou, VerrousProduits
  <2> QED BY <2>1, <2>2
<1>14. req[r].verrou =>
         \A s \in Ids \ {r} : ~(/\ req[s].etape = "rendre" /\ req[s].verrou
                                 /\ req[s].cible = req[r].cible)
  BY <1>2 DEF IInv, VerrousLignes
<1>15. ASSUME NEW x \in Produits
       PROVE  /\ produits[x].etat # "supprime" =>
                   /\ req[r].prise[x] > 0 =>
                        req[r].verrou /\ req[r].prise[x] = Net(req[r].cible, x)
                   /\ x \in fs => req[r].prise[x] > 0
              /\ req[r].verrou /\ req[r].statut = "annulee" =>
                   req[r].prise[x] = Net(req[r].cible, x) \/ produits[x].etat = "supprime"
  BY <1>2, <1>a DEF IInv, PriseRendue, RenduComplet
<1> QED
  <2> HIDE DEF l, fs
  <2>1. /\ req[r].etape # "fini" /\ req'[r].etape \in {"lignes", "rendre"}
        /\ req'[r].etape # "lignes" /\ Existe(req'[r].cible)
    BY <1>2, <1>11, <1>12
  <2>2. \A x \in Produits : x \in req'[r].faits =>
          /\ \A s \in Ids \ {r} : ~Verrouille(s, x)
          /\ req'[r].lu[x] = produits[x].stock
          /\ produits[x].etat \in {"actif", "inactif"}
    BY <1>11, <1>13
  <2>3. req'[r].verrou =>
          \A s \in Ids \ {r} : ~(/\ req[s].etape = "rendre" /\ req[s].verrou
                                  /\ req[s].cible = req'[r].cible)
    BY <1>11, <1>14
  <2>4. \A x \in Produits :
          /\ produits[x].etat # "supprime" =>
               /\ req'[r].prise[x] > 0 =>
                    req'[r].verrou /\ req'[r].prise[x] = Net(req'[r].cible, x)
               /\ x \in req'[r].faits => req'[r].prise[x] > 0
          /\ req'[r].verrou /\ req'[r].statut = "annulee" =>
               req'[r].prise[x] = Net(req'[r].cible, x) \/ produits[x].etat = "supprime"
    BY <1>11, <1>15
  <2> QED BY <1>2, <1>3, <1>9, <1>10, <2>1, <2>2, <2>3, <2>4, PasDansTransaction

(* The UPDATE of a keyed write takes the lock of its product.               *)
LEMMA EffetMettreAJour ==
  ASSUME TypeOK, NEW r \in Ids, MettreAJour(r)
  PROVE  /\ req' \in [Ids -> Requete] /\ Ailleurs(r)
         /\ req'[r].etape = "ecrire" /\ req'[r].faits = AEcrire(r)
         /\ req'[r].cle = req[r].cle /\ req'[r].issue = req[r].issue
<1>0. req[r] \in Requete
  BY DEF TypeOK
<1> DEFINE fs == AEcrire(r)
           q == [req[r] EXCEPT !.etape = "ecrire", !.faits = fs]
<1>1. req' = [req EXCEPT ![r] = q] /\ fs \in SUBSET Produits
  BY <1>0 DEF MettreAJour, AEcrire, Requete
<1>2. q \in Requete
  <2> HIDE DEF fs
  <2> QED BY <1>0, <1>1, Zenon DEF Requete
<1>3. q.etape = "ecrire" /\ q.faits = fs /\ q.cle = req[r].cle /\ q.issue = req[r].issue
  <2> HIDE DEF fs
  <2> QED BY <1>0 DEF Requete
<1> HIDE DEF q
<1> QED BY <1>1, <1>2, <1>3, EffetRequete

LEMMA PasMettreAJour ==
  ASSUME IInv, NEW r \in Ids, MettreAJour(r)
  PROVE  IInv'
<1>0. TypeOK
  BY DEF IInv
<1>1. /\ UNCHANGED <<varsJournee, cle, produits, retranche, rendu, saisi, clesStock>>
      /\ req[r].etape = "cle"
      /\ \A p \in AEcrire(r) : ProduitLibre(p) /\ produits[p].etat \in {"actif", "inactif"}
  BY DEF MettreAJour, AEcrire
<1>2. /\ req' \in [Ids -> Requete] /\ Ailleurs(r)
      /\ req'[r].etape = "ecrire" /\ req'[r].faits = AEcrire(r)
  BY <1>0, EffetMettreAJour
<1>3. UNCHANGED lignes /\ TypeOK'
  BY <1>0, <1>1, <1>2 DEF TypeOK, TypeJournee, varsJournee
<1>4. \A p \in Produits : p \in req'[r].faits =>
        /\ \A s \in Ids \ {r} : ~Verrouille(s, p)
        /\ produits[p].etat \in {"actif", "inactif"}
  BY <1>1, <1>2 DEF ProduitLibre
<1> QED BY <1>1, <1>2, <1>3, <1>4, PasDansTransaction

----------------------------------------------------------------------------
(* The commits.                                                             *)

(* Replacing the stock of a product by a natural keeps its type.            *)
LEMMA StockType ==
  ASSUME NEW q \in Produit, NEW n \in Nat
  PROVE  /\ [q EXCEPT !.stock = n] \in Produit
         /\ [q EXCEPT !.stock = n].stock = n
         /\ [q EXCEPT !.stock = n].etat = q.etat
<1>1. [q EXCEPT !.stock = n] \in Produit
  BY Zenon DEF Produit
<1> QED BY <1>1 DEF Produit

(* COMMIT of a keyed write of the stock.                                    *)
LEMMA EffetValiderStock ==
  ASSUME TypeOK, NEW r \in Ids, ValiderStock(r)
  PROVE  /\ req' \in [Ids -> Requete] /\ Ailleurs(r)
         /\ req'[r].etape = "fini" /\ req'[r].cle = req[r].cle
         /\ req'[r].issue \in {"ecrite", "sans_objet"}
<1>0. req[r] \in Requete
  BY DEF TypeOK
<1> DEFINE is == IF req[r].faits = {} THEN "sans_objet" ELSE "ecrite"
           q == [req[r] EXCEPT !.etape = "fini", !.issue = is]
<1>1. req' = [req EXCEPT ![r] = q] /\ is \in {"ecrite", "sans_objet"}
  BY DEF ValiderStock
<1>2. q \in Requete
  <2> HIDE DEF is
  <2> QED BY <1>0, <1>1, Zenon DEF Requete
<1>3. q.etape = "fini" /\ q.cle = req[r].cle /\ q.issue = is
  <2> HIDE DEF is
  <2> QED BY <1>0 DEF Requete
<1> HIDE DEF q, is
<1> QED BY <1>1, <1>2, <1>3, EffetRequete

LEMMA PasValiderStock ==
  ASSUME IInv, NEW r \in Ids, ValiderStock(r)
  PROVE  IInv'
<1>0. TypeOK /\ req[r] \in Requete
  BY DEF IInv, TypeOK
<1> DEFINE fs == req[r].faits
           b == req[r].panier
<1>1. /\ UNCHANGED <<varsJournee, cle, retranche, rendu>> /\ req[r].etape = "ecrire"
      /\ clesStock' = clesStock \cup {req[r].cle}
      /\ produits' = [p \in Produits |-> IF p \in fs THEN [produits[p] EXCEPT !.stock = b[p]]
                                         ELSE produits[p]]
      /\ saisi' = [p \in Produits |-> IF p \in fs THEN saisi[p] + b[p] - produits[p].stock
                                      ELSE saisi[p]]
  BY Zenon DEF ValiderStock
<1>2. /\ req' \in [Ids -> Requete] /\ Ailleurs(r) /\ req'[r].etape = "fini"
  BY <1>0, EffetValiderStock
<1>3. /\ b \in [Produits -> Nat] /\ fs \in SUBSET Produits
      /\ \A p \in Produits : /\ produits[p] \in Produit /\ produits[p].stock \in Nat
                              /\ saisi[p] \in Int /\ b[p] \in Nat
  BY <1>0 DEF TypeOK, Requete, Produit
<1>4. \A p \in Produits :
        /\ produits'[p] \in Produit /\ saisi'[p] \in Int
        /\ IF p \in fs
           THEN /\ produits'[p].stock - produits[p].stock = saisi'[p] - saisi[p]
                /\ produits'[p].etat = produits[p].etat
           ELSE produits'[p] = produits[p] /\ saisi'[p] = saisi[p]
  <2> SUFFICES ASSUME NEW p \in Produits
               PROVE  /\ produits'[p] \in Produit /\ saisi'[p] \in Int
                      /\ IF p \in fs
                         THEN /\ produits'[p].stock - produits[p].stock = saisi'[p] - saisi[p]
                              /\ produits'[p].etat = produits[p].etat
                         ELSE produits'[p] = produits[p] /\ saisi'[p] = saisi[p]
    OBVIOUS
  <2>1. CASE p \in fs
    <3> DEFINE q == [produits[p] EXCEPT !.stock = b[p]]
    <3>1. produits'[p] = q /\ saisi'[p] = saisi[p] + b[p] - produits[p].stock
      BY <1>1, <2>1
    <3>2. q \in Produit /\ q.stock = b[p] /\ q.etat = produits[p].etat
      BY <1>3, StockType
    <3> HIDE DEF q, b
    <3> QED BY <1>3, <2>1, <3>1, <3>2
  <2>2. CASE p \notin fs
    BY <1>1, <1>3, <2>2
  <2> QED BY <2>1, <2>2
<1>5. \A p \in fs : /\ \A s \in Ids \ {r} : ~Verrouille(s, p)
                    /\ produits[p].etat \in {"actif", "inactif"}
  <2>1. \A p \in fs : p \in Produits /\ Verrouille(r, p)
    BY <1>1, <1>3 DEF Verrouille
  <2> QED BY <2>1 DEF IInv, VerrousProduits, LuSousVerrou
<1>6. UNCHANGED lignes /\ TypeOK'
  <2>1. /\ produits' \in [Produits -> Produit] /\ saisi' \in [Produits -> Int]
        /\ req[r].cle \in Cles \cup {SansCle}
    BY <1>0, <1>1, <1>4 DEF Requete
  <2> QED BY <1>0, <1>1, <1>2, <2>1 DEF TypeOK, TypeJournee, varsJournee
<1> HIDE DEF fs, b
<1> QED BY <1>1, <1>2, <1>3, <1>4, <1>5, <1>6, PasProduit

(* COMMIT of a sale: the stock loses exactly what the ledger gains.         *)
LEMMA PasValiderVente ==
  ASSUME IInv, NEW r \in Ids, ValiderVente(r)
  PROVE  IInv'
<1>0. TypeOK /\ req[r] \in Requete
  BY DEF IInv, TypeOK
<1> DEFINE fs == req[r].faits
           l == req[r].lu
           k == req[r].prise
           nl == NouvelleLigne("vente", req[r].montant, req[r].jour)
<1>1. /\ UNCHANGED <<aujourdhui, sessions, journal, guichets, rendu, saisi, clesStock>>
      /\ req[r].etape = "lignes" /\ Etape(r, "fini")
      /\ lignes' = [lignes EXCEPT ![r] = nl]
      /\ cle' = [cle EXCEPT ![r] = req[r].cle]
      /\ retranche' = [retranche EXCEPT ![r] = k]
      /\ produits' = [p \in Produits |->
                        IF p \in fs THEN [produits[p] EXCEPT !.stock = l[p] - k[p]]
                        ELSE produits[p]]
  BY Zenon DEF ValiderVente
<1>2. /\ l \in [Produits -> Nat] /\ k \in [Produits -> Nat] /\ fs \in SUBSET Produits
      /\ req[r].cle \in Cles \cup {SansCle} /\ req[r].montant \in Nat
  BY <1>0 DEF Requete
<1>3. \A p \in Produits : produits[p] \in Produit /\ produits[p].stock \in Nat
  BY <1>0 DEF TypeOK, Produit
<1>4. \A p \in Produits :
        IF p \in fs
        THEN /\ Verrouille(r, p) /\ l[p] = produits[p].stock /\ k[p] <= l[p]
             /\ produits[p].etat \in {"actif", "inactif"}
        ELSE k[p] = 0
  BY <1>1 DEF IInv, LuSousVerrou, PriseVente, Verrouille
<1>5. nl \in Ligne /\ nl.type = "vente" /\ nl.statut = "validee"
  <2>1. req[r].jour \in Jours /\ "vente" \in Natures
    BY <1>1 DEF IInv, JourFixe, Natures, Entrees
  <2>2. nl \in Ligne
    BY <2>1, <1>2, NouvelleLigneType
  <2> QED BY <2>2 DEF NouvelleLigne
<1>6. ASSUME NEW p \in Produits
      PROVE  /\ produits'[p] \in Produit
             /\ produits'[p].etat = produits[p].etat
             /\ produits'[p].stock = produits[p].stock - k[p]
             /\ p \notin fs => produits'[p] = produits[p]
  <2>1. CASE p \in fs
    <3>1. l[p] - k[p] \in Nat
      BY <2>1, <1>2, <1>4
    <3>2. produits'[p] = [produits[p] EXCEPT !.stock = l[p] - k[p]]
      BY <2>1, <1>1
    <3> HIDE DEF l, k, fs
    <3> QED BY <2>1, <3>1, <3>2, <1>3, <1>4, StockType
  <2>2. CASE p \notin fs
    BY <2>2, <1>1, <1>3, <1>4
  <2> QED BY <2>1, <2>2
<1>7. /\ req' \in [Ids -> Requete] /\ Ailleurs(r) /\ req'[r].etape = "fini"
  BY <1>0, <1>1, EffetEtape DEF Etapes
<1>8. lignes' \in [Ids -> Ligne] /\ lignes'[r] = nl
      /\ \A t \in Ids \ {r} : lignes'[t] = lignes[t]
  <2> HIDE DEF nl
  <2> QED BY <1>0, <1>1, <1>5 DEF TypeOK, TypeJournee
<1>9. /\ retranche' \in [Ids -> [Produits -> Nat]] /\ retranche'[r] = k
      /\ \A t \in Ids \ {r} : retranche'[t] = retranche[t]
  <2> HIDE DEF k
  <2> QED BY <1>0, <1>1, <1>2 DEF TypeOK
<1>10. TypeOK'
  <2>1. cle' \in [Ids -> Cles \cup {SansCle}]
    BY <1>0, <1>1, <1>2 DEF TypeOK
  <2>2. produits' \in [Produits -> Produit]
    <3>1. produits' = [p \in Produits |-> produits'[p]]
      <4> HIDE DEF l, k, fs
      <4> QED BY <1>1
    <3> QED BY <3>1, <1>6
  <2> QED BY <1>0, <1>1, <1>7, <1>8, <1>9, <2>1, <2>2 DEF TypeOK, TypeJournee
<1>a. ~Existe(r)
  BY <1>1 DEF IInv, LigneFinie
<1>b. \A i \in Ids, p \in Produits :
        /\ i # r => Net(i, p)' = Net(i, p)
        /\ Net(r, p) = 0 /\ Net(r, p)' = k[p]
  <2>1. retranche[r] = Rien /\ rendu[r] = Rien /\ rendu' = rendu
    BY <1>1, <1>a DEF IInv, LedgerVide
  <2>2. \A p \in Produits : Net(r, p) = 0
    BY <2>1, Constantes DEF Net
  <2>3. \A p \in Produits : Net(r, p)' = k[p]
    <3> HIDE DEF k
    <3> QED BY <2>1, <1>2, <1>9, Constantes DEF Net
  <2> QED BY <2>1, <2>2, <2>3, <1>9 DEF Net
<1>c. \A s \in Ids, p \in Produits :
        Verrouille(s, p)' => s # r /\ Verrouille(s, p) /\ p \notin fs
  <2>1. \A s \in Ids, p \in Produits : Verrouille(s, p)' => s # r /\ Verrouille(s, p)
    BY <1>7 DEF Verrouille, Ailleurs
  <2> QED BY <2>1, <1>4 DEF IInv, VerrousProduits
<1>d. \A t \in Ids : Existe(t) => t # r /\ Existe(t)' /\ lignes'[t] = lignes[t]
  BY <1>a, <1>8 DEF Existe
<1> HIDE DEF fs, l, k, nl
<1>11. StockConserve'
  <2> SUFFICES ASSUME NEW p \in Produits, produits'[p].etat # "supprime"
               PROVE  produits'[p].stock = saisi'[p] - Sorties(p)'
    BY DEF StockConserve
  <2>1. produits[p].stock = saisi[p] - Sorties(p)
    BY <1>6 DEF IInv, StockConserve
  <2>2. Sorties(p)' = Sorties(p) - Net(r, p) + Net(r, p)'
    <3>1. \A i \in Ids \ {r} : retranche'[i] = retranche[i] /\ rendu'[i] = rendu[i]
      BY <1>1, <1>9
    <3> QED BY <1>0, <1>10, <3>1, SortiesMiseAJour
  <2>3. Sorties(p) \in Int /\ saisi[p] \in Int /\ saisi' = saisi
    BY <1>0, <1>1, NetEntier DEF TypeOK
  <2> QED BY <2>1, <2>2, <2>3, <1>2, <1>3, <1>6, <1>b
<1>12. RestitutionJuste'
  <2>1. \A t \in Ids, p \in Produits : Net(t, p)' >= 0
    BY <1>2, <1>b DEF IInv, RestitutionJuste
  <2>2. ASSUME NEW t \in Ids, lignes'[t].statut = "annulee", NEW p \in Produits
        PROVE  Net(t, p)' = 0 \/ produits'[p].etat = "supprime"
    <3>1. t # r /\ lignes[t].statut = "annulee"
      BY <2>2, <1>5, <1>8
    <3> QED BY <3>1, <1>b, <1>6 DEF IInv, RestitutionJuste
  <2> QED BY <2>1, <2>2 DEF RestitutionJuste
<1>13. LigneFinie'
  BY <1>7, <1>8 DEF IInv, LigneFinie, Existe, Ailleurs
<1>14. LedgerVide'
  BY <1>1, <1>5, <1>8, <1>9 DEF IInv, LedgerVide, Existe
<1>15. CibleExiste'
  BY <1>7, <1>d DEF IInv, CibleExiste, Ailleurs, TypeOK, Requete
<1>16. JourFixe' /\ SansVerrou' /\ PriseVente' /\ VerrousLignes'
  BY <1>7 DEF IInv, JourFixe, SansVerrou, PriseVente, VerrousLignes, Ailleurs
<1>17. VerrousProduits' /\ LuSousVerrou'
  BY <1>7, <1>c, <1>6 DEF IInv, VerrousProduits, LuSousVerrou, Ailleurs
<1>18. ASSUME NEW s \in Ids, NEW p \in Produits,
              req'[s].etape \in {"a_controler", "marquer", "rendre"}
       PROVE  /\ s # r /\ req'[s] = req[s]
              /\ Net(req[s].cible, p)' = Net(req[s].cible, p)
              /\ produits'[p].etat = produits[p].etat
  <2>1. s # r /\ req[s].cible \in Ids /\ req'[s] = req[s]
    BY <1>18, <1>7, <1>0 DEF Ailleurs, TypeOK, Requete
  <2>2. Existe(req[s].cible)
    BY <2>1, <1>18 DEF IInv, CibleExiste
  <2> QED BY <2>1, <2>2, <1>a, <1>b, <1>6
<1>19. PriseRendue'
  <2> SUFFICES ASSUME NEW s \in Ids, NEW p \in Produits,
                      req'[s].etape = "rendre", produits'[p].etat # "supprime"
               PROVE  /\ req'[s].prise[p] > 0 =>
                           req'[s].verrou /\ req'[s].prise[p] = Net(req[s].cible, p)'
                      /\ p \in req'[s].faits => req'[s].prise[p] > 0
    BY Zenon DEF PriseRendue
  <2> QED BY <1>18 DEF IInv, PriseRendue
<1>20. RenduComplet'
  <2> SUFFICES ASSUME NEW s \in Ids, NEW p \in Produits,
                      req'[s].etape = "rendre", req'[s].verrou, req'[s].statut = "annulee"
               PROVE  req'[s].prise[p] = Net(req[s].cible, p)' \/ produits'[p].etat = "supprime"
    BY Zenon DEF RenduComplet
  <2> QED BY <1>18 DEF IInv, RenduComplet
<1>21. DejaRendu'
  <2> SUFFICES ASSUME NEW s \in Ids, NEW p \in Produits,
                      req'[s].etape \in {"a_controler", "marquer"}, req'[s].avant = "annulee"
               PROVE  Net(req[s].cible, p)' = 0 \/ produits'[p].etat = "supprime"
    BY Zenon DEF DejaRendu
  <2> QED BY <1>18 DEF IInv, DejaRendu
<1>22. Inexistants'
  <2> SUFFICES ASSUME NEW p \in Produits, produits'[p].etat = "inexistant"
               PROVE  produits'[p].stock = 0 /\ \A i \in Ids : Net(i, p)' = 0
    BY DEF Inexistants
  <2>1. k[p] = 0
    BY <1>4, <1>6
  <2>2. produits[p].stock = 0 /\ \A i \in Ids : Net(i, p) = 0
    BY <1>6 DEF IInv, Inexistants
  <2> QED BY <2>1, <2>2, <1>6, <1>b
<1> QED
  BY <1>10, <1>11, <1>12, <1>13, <1>14, <1>15, <1>16, <1>17, <1>19, <1>20, <1>21, <1>22 DEF IInv

(* COMMIT of a change of status: what comes back is what the ledger owes.   *)
LEMMA PasValiderStatut ==
  ASSUME IInv, NEW r \in Ids, ValiderStatut(r)
  PROVE  IInv'
<1>0. TypeOK /\ req[r] \in Requete /\ req[r].cible \in Ids
  BY DEF IInv, TypeOK, Requete
<1>t. PICK t \in Ids : t = req[r].cible
  BY <1>0
<1> DEFINE fs == req[r].faits
           l == req[r].lu
           k == req[r].prise
           rd == [p \in Produits |-> IF p \in fs THEN rendu[t][p] + k[p] ELSE rendu[t][p]]
<1>1. /\ UNCHANGED <<aujourdhui, sessions, journal, guichets, cle, retranche, saisi, clesStock>>
      /\ req[r].etape = "rendre" /\ ARendre(r) = {} /\ Etape(r, "fini")
      /\ lignes' = IF req[r].verrou THEN [lignes EXCEPT ![t].statut = req[r].statut] ELSE lignes
      /\ produits' = [p \in Produits |->
                        IF p \in fs THEN [produits[p] EXCEPT !.stock = l[p] + k[p]]
                        ELSE produits[p]]
  BY <1>t, Zenon DEF ValiderStatut
<1>2. rendu' = [rendu EXCEPT ![t] = rd]
  BY <1>0, <1>t DEF ValiderStatut, TypeOK
<1>3. /\ l \in [Produits -> Nat] /\ k \in [Produits -> Nat] /\ fs \in SUBSET Produits
      /\ req[r].statut \in Statuts
  BY <1>0 DEF Requete
<1>4. \A p \in Produits : /\ produits[p] \in Produit /\ produits[p].stock \in Nat
                          /\ rendu[t][p] \in Nat /\ retranche[t][p] \in Nat
  BY <1>0 DEF TypeOK, Produit
<1>5. \A p \in Produits : p \in fs =>
        /\ Verrouille(r, p) /\ l[p] = produits[p].stock
        /\ produits[p].etat \in {"actif", "inactif"}
        /\ req[r].verrou /\ k[p] = Net(t, p)
  <2>1. \A p \in Produits : p \in fs =>
          /\ Verrouille(r, p) /\ l[p] = produits[p].stock
          /\ produits[p].etat \in {"actif", "inactif"}
    BY <1>1 DEF IInv, LuSousVerrou, Verrouille
  <2> QED BY <2>1, <1>1, <1>t DEF IInv, PriseRendue
<1>6. ASSUME NEW p \in Produits
      PROVE  /\ produits'[p] \in Produit
             /\ produits'[p].etat = produits[p].etat
             /\ produits'[p].stock = IF p \in fs THEN produits[p].stock + Net(t, p)
                                                 ELSE produits[p].stock
             /\ p \notin fs => produits'[p] = produits[p]
  <2>1. CASE p \in fs
    <3>1. l[p] + k[p] \in Nat
      BY <2>1, <1>3
    <3>2. produits'[p] = [produits[p] EXCEPT !.stock = l[p] + k[p]]
      BY <2>1, <1>1
    <3>3. l[p] = produits[p].stock /\ k[p] = Net(t, p)
      BY <2>1, <1>5
    <3> HIDE DEF l, k, fs
    <3> QED BY <2>1, <3>1, <3>2, <3>3, <1>4, StockType
  <2>2. CASE p \notin fs
    BY <2>2, <1>1, <1>4
  <2> QED BY <2>1, <2>2
<1>7. /\ req' \in [Ids -> Requete] /\ Ailleurs(r) /\ req'[r].etape = "fini"
  BY <1>0, <1>1, EffetEtape DEF Etapes
<1>8. /\ lignes' \in [Ids -> Ligne]
      /\ \A i \in Ids : lignes'[i].type = lignes[i].type
      /\ \A i \in Ids \ {t} : lignes'[i] = lignes[i]
      /\ lignes'[t].statut = IF req[r].verrou THEN req[r].statut ELSE lignes[t].statut
  <2>1. CASE req[r].verrou
    <3> DEFINE st == req[r].statut
               nl == [lignes[t] EXCEPT !.statut = st]
    <3>1. lignes[t] \in Ligne
      BY <1>0 DEF TypeOK, TypeJournee
    <3>2. nl \in Ligne
      <4> HIDE DEF st
      <4> QED BY <3>1, <1>3, Zenon DEF Ligne, st
    <3>3. nl.type = lignes[t].type /\ nl.statut = st
      BY <3>1 DEF Ligne
    <3>4. lignes' = [lignes EXCEPT ![t] = nl]
      BY <2>1, <1>1
    <3> HIDE DEF nl
    <3> QED BY <2>1, <3>2, <3>3, <3>4, <1>0 DEF TypeOK, TypeJournee
  <2>2. CASE ~req[r].verrou
    BY <2>2, <1>0, <1>1 DEF TypeOK, TypeJournee
  <2> QED BY <2>1, <2>2
<1>9. /\ rendu' \in [Ids -> [Produits -> Nat]]
      /\ \A i \in Ids \ {t} : rendu'[i] = rendu[i]
      /\ rendu'[t] = rd
  <2>1. rd \in [Produits -> Nat]
    BY <1>3, <1>4
  <2> HIDE DEF rd
  <2> QED BY <2>1, <1>0, <1>2 DEF TypeOK
<1>10. TypeOK'
  <2>1. produits' \in [Produits -> Produit]
    <3>1. produits' = [p \in Produits |-> produits'[p]]
      <4> HIDE DEF l, k, fs
      <4> QED BY <1>1
    <3> QED BY <3>1, <1>6
  <2> QED BY <1>0, <1>1, <1>7, <1>8, <1>9, <2>1 DEF TypeOK, TypeJournee
<1>b. \A i \in Ids, p \in Produits :
        Net(i, p)' = IF i = t /\ p \in fs THEN 0 ELSE Net(i, p)
  <2>1. ASSUME NEW p \in Produits
        PROVE  Net(t, p)' = IF p \in fs THEN 0 ELSE Net(t, p)
    BY <2>1, <1>0, <1>1, <1>4, <1>5, <1>9 DEF Net
  <2>2. \A i \in Ids \ {t}, p \in Produits : Net(i, p)' = Net(i, p)
    BY <1>1, <1>9 DEF Net
  <2> QED BY <2>1, <2>2
<1>c. \A s \in Ids, p \in Produits :
        Verrouille(s, p)' => s # r /\ Verrouille(s, p) /\ p \notin fs
  <2>1. \A s \in Ids, p \in Produits : Verrouille(s, p)' => s # r /\ Verrouille(s, p)
    BY <1>7 DEF Verrouille, Ailleurs
  <2> QED BY <2>1, <1>5 DEF IInv, VerrousProduits
<1>d. \A i \in Ids : Existe(i)' <=> Existe(i)
  BY <1>8 DEF Existe
<1>e. Existe(t)
  BY <1>1, <1>t DEF IInv, CibleExiste
<1>f. \A i \in Ids, p \in Produits : Net(i, p) \in Int /\ Net(i, p) >= 0
  BY <1>0, NetEntier DEF IInv, RestitutionJuste
<1>g. req[r].verrou \/ fs = {}
  BY <1>3, <1>5
<1>h. req[r].verrou /\ req[r].statut = "annulee" =>
        \A p \in Produits : p \in fs \/ Net(t, p) = 0 \/ produits[p].etat = "supprime"
  <2> SUFFICES ASSUME req[r].verrou, req[r].statut = "annulee", NEW p \in Produits,
                      p \notin fs, produits[p].etat # "supprime"
               PROVE  Net(t, p) = 0
    OBVIOUS
  <2>1. k[p] = Net(t, p)
    BY <1>1, <1>t DEF IInv, RenduComplet
  <2>2. ~(k[p] > 0)
    BY <1>1 DEF ARendre
  <2> QED BY <2>1, <2>2, <1>f
<1> HIDE DEF fs, l, k, rd
<1>11. StockConserve'
  <2> SUFFICES ASSUME NEW p \in Produits, produits'[p].etat # "supprime"
               PROVE  produits'[p].stock = saisi'[p] - Sorties(p)'
    BY DEF StockConserve
  <2>1. produits[p].stock = saisi[p] - Sorties(p)
    BY <1>6 DEF IInv, StockConserve
  <2>2. Sorties(p)' = Sorties(p) - Net(t, p) + Net(t, p)'
    <3>1. \A i \in Ids \ {t} : retranche'[i] = retranche[i] /\ rendu'[i] = rendu[i]
      BY <1>1, <1>9
    <3> QED BY <1>0, <1>10, <3>1, SortiesMiseAJour
  <2>3. Sorties(p) \in Int /\ saisi[p] \in Int /\ saisi' = saisi /\ t \in Ids
    BY <1>0, <1>1, NetEntier DEF TypeOK
  <2>4. CASE p \in fs
    <3>1. Net(t, p)' = 0 /\ produits'[p].stock = produits[p].stock + Net(t, p)
      BY <2>3, <2>4, <1>6, <1>b
    <3> QED BY <2>1, <2>2, <2>3, <3>1, <1>f, <1>4
  <2>5. CASE p \notin fs
    <3>1. Net(t, p)' = Net(t, p) /\ produits'[p].stock = produits[p].stock
      BY <2>3, <2>5, <1>6, <1>b
    <3> QED BY <2>1, <2>2, <2>3, <3>1, <1>f, <1>4
  <2> QED BY <2>4, <2>5
<1>12. RestitutionJuste'
  <2>1. \A i \in Ids, p \in Produits : Net(i, p)' >= 0
    BY <1>b, <1>f
  <2>2. ASSUME NEW i \in Ids, lignes'[i].statut = "annulee", NEW p \in Produits
        PROVE  Net(i, p)' = 0 \/ produits'[p].etat = "supprime"
    <3>1. CASE lignes[i].statut = "annulee"
      BY <3>1, <1>b, <1>6 DEF IInv, RestitutionJuste
    <3>2. CASE lignes[i].statut # "annulee"
      <4>1. i = t /\ req[r].verrou /\ req[r].statut = "annulee"
        BY <2>2, <3>2, <1>8
      <4> QED BY <4>1, <1>b, <1>6, <1>h
    <3> QED BY <3>1, <3>2
  <2> QED BY <2>1, <2>2 DEF RestitutionJuste
<1>13. LigneFinie'
  BY <1>7, <1>d DEF IInv, LigneFinie, Ailleurs
<1>14. LedgerVide'
  BY <1>1, <1>9, <1>d, <1>e DEF IInv, LedgerVide
<1>15. CibleExiste'
  <2> SUFFICES ASSUME NEW s \in Ids, req'[s].etape \in {"a_controler", "marquer", "rendre"}
               PROVE  Existe(req[s].cible)'
    BY Zenon DEF CibleExiste
  <2>1. s # r /\ req'[s] = req[s] /\ req[s].cible \in Ids
    BY <1>7, <1>0 DEF Ailleurs, TypeOK, Requete
  <2>2. Existe(req[s].cible)
    BY <2>1 DEF IInv, CibleExiste
  <2> QED BY <2>1, <2>2, <1>8 DEF Existe
<1>16. JourFixe' /\ SansVerrou' /\ PriseVente' /\ VerrousLignes'
  BY <1>7 DEF IInv, JourFixe, SansVerrou, PriseVente, VerrousLignes, Ailleurs
<1>17. VerrousProduits' /\ LuSousVerrou'
  BY <1>7, <1>c, <1>6 DEF IInv, VerrousProduits, LuSousVerrou, Ailleurs
<1>18. ASSUME NEW s \in Ids, NEW p \in Produits,
              req'[s].etape \in {"a_controler", "marquer", "rendre"}
       PROVE  /\ s # r /\ req'[s] = req[s]
              /\ Net(req[s].cible, p)' = 0 \/ Net(req[s].cible, p)' = Net(req[s].cible, p)
              /\ req[s].etape = "rendre" /\ req[s].verrou =>
                   Net(req[s].cible, p)' = Net(req[s].cible, p)
              /\ produits'[p].etat = produits[p].etat
  <2>1. s # r /\ req[s].cible \in Ids /\ req'[s] = req[s]
    BY <1>18, <1>7, <1>0 DEF Ailleurs, TypeOK, Requete
  <2>2. ASSUME req[s].etape = "rendre", req[s].verrou, req[s].cible = t PROVE fs = {}
    BY <2>1, <2>2, <1>1, <1>g, <1>t DEF IInv, VerrousLignes
  <2>3. Net(req[s].cible, p)' =
          IF req[s].cible = t /\ p \in fs THEN 0 ELSE Net(req[s].cible, p)
    BY <2>1, <1>b
  <2> QED BY <2>1, <2>2, <2>3, <1>6
<1>19. PriseRendue'
  <2> SUFFICES ASSUME NEW s \in Ids, NEW p \in Produits,
                      req'[s].etape = "rendre", produits'[p].etat # "supprime"
               PROVE  /\ req'[s].prise[p] > 0 =>
                           req'[s].verrou /\ req'[s].prise[p] = Net(req[s].cible, p)'
                      /\ p \in req'[s].faits => req'[s].prise[p] > 0
    BY Zenon DEF PriseRendue
  <2> QED BY <1>18 DEF IInv, PriseRendue
<1>20. RenduComplet'
  <2> SUFFICES ASSUME NEW s \in Ids, NEW p \in Produits,
                      req'[s].etape = "rendre", req'[s].verrou, req'[s].statut = "annulee"
               PROVE  req'[s].prise[p] = Net(req[s].cible, p)' \/ produits'[p].etat = "supprime"
    BY Zenon DEF RenduComplet
  <2> QED BY <1>18 DEF IInv, RenduComplet
<1>21. DejaRendu'
  <2> SUFFICES ASSUME NEW s \in Ids, NEW p \in Produits,
                      req'[s].etape \in {"a_controler", "marquer"}, req'[s].avant = "annulee"
               PROVE  Net(req[s].cible, p)' = 0 \/ produits'[p].etat = "supprime"
    BY Zenon DEF DejaRendu
  <2> QED BY <1>18 DEF IInv, DejaRendu
<1>22. Inexistants'
  <2> SUFFICES ASSUME NEW p \in Produits, produits'[p].etat = "inexistant"
               PROVE  produits'[p].stock = 0 /\ \A i \in Ids : Net(i, p)' = 0
    BY DEF Inexistants
  <2>1. p \notin fs
    BY <1>5, <1>6
  <2>2. produits[p].stock = 0 /\ \A i \in Ids : Net(i, p) = 0
    BY <1>6 DEF IInv, Inexistants
  <2> QED BY <2>1, <2>2, <1>6, <1>b
<1> QED
  BY <1>10, <1>11, <1>12, <1>13, <1>14, <1>15, <1>16, <1>17, <1>19, <1>20, <1>21, <1>22 DEF IInv

----------------------------------------------------------------------------
(* The theorems.                                                            *)

(* A server that has received nothing satisfies the invariant.              *)
LEMMA DebutInv == Init => IInv
<1> SUFFICES ASSUME Init PROVE IInv
  OBVIOUS
<1>1. /\ req = [r \in Ids |-> RequeteLibre(r)]
      /\ cle = [r \in Ids |-> SansCle]
      /\ produits \in [Produits -> [etat : {"inexistant"}, stock : {0}]
                                   \cup [etat : {"actif"}, stock : Quantites]]
      /\ retranche = [r \in Ids |-> Rien]
      /\ rendu = [r \in Ids |-> Rien]
      /\ saisi = [p \in Produits |-> produits[p].stock]
      /\ clesStock = {}
      /\ lignes = [i \in Ids |-> LigneAbsente]
  BY DEF Init, InitJournee
<1>2. \A p \in Produits : /\ produits[p] \in Produit /\ produits[p].stock \in Nat
                          /\ produits[p].etat = "inexistant" => produits[p].stock = 0
  <2>1. \A p \in Produits : produits[p] \in [etat : {"inexistant"}, stock : {0}]
                                         \cup [etat : {"actif"}, stock : Quantites]
    BY <1>1
  <2>2. Quantites \subseteq Nat
    BY CaisseConstantes
  <2>3. ASSUME NEW p \in Produits
        PROVE  /\ produits[p] \in Produit /\ produits[p].stock \in Nat
               /\ produits[p].etat = "inexistant" => produits[p].stock = 0
    <3>1. CASE produits[p] \in [etat : {"inexistant"}, stock : {0}]
      BY <3>1 DEF Produit
    <3>2. CASE produits[p] \in [etat : {"actif"}, stock : Quantites]
      BY <3>2, <2>2 DEF Produit
    <3> QED BY <2>1, <3>1, <3>2
  <2> QED BY <2>3
<1>3. \A r \in Ids : /\ req[r].etape = "libre"
                     /\ ~Existe(r) /\ lignes[r].statut = "validee"
  BY <1>1 DEF RequeteLibre, Existe, LigneAbsente
<1>4. TypeOK
  <2>1. TypeJournee
    <3>1. GuichetLibre \in Guichet
      BY Constantes DEF GuichetLibre, Guichet
    <3>2. <<>> \in Seq(Entree)
      OBVIOUS
    <3> QED BY <1>1, <3>1, <3>2, Constantes DEF Init, InitJournee, TypeJournee
  <2>2. req \in [Ids -> Requete]
    BY <1>1, Constantes
  <2>3. produits \in [Produits -> Produit]
    BY <1>1, <1>2
  <2>4. saisi \in [Produits -> Int]
    BY <1>1, <1>2
  <2> QED BY <1>1, <2>1, <2>2, <2>3, <2>4, Constantes DEF TypeOK
<1>5. \A i \in Ids, p \in Produits : Net(i, p) = 0
  BY <1>1, Constantes DEF Net
<1>6. StockConserve
  <2> SUFFICES ASSUME NEW p \in Produits PROVE produits[p].stock = saisi[p] - Sorties(p)
    BY DEF StockConserve
  <2> DEFINE f == [i \in Ids |-> Net(i, p)]
  <2>1. \A i \in Ids : f[i] = 0
    BY <1>5
  <2>2. SumFunctionOnSet(f, Ids) = 0
    <3> HIDE DEF f
    <3> QED BY <2>1, IdsFini, SommeNulle
  <2>3. Sorties(p) = 0 /\ saisi[p] = produits[p].stock
    BY <1>1, <2>2 DEF Sorties
  <2> QED BY <1>2, <2>3
<1>7. RestitutionJuste /\ LigneFinie /\ LedgerVide
  BY <1>1, <1>3, <1>5 DEF RestitutionJuste, LigneFinie, LedgerVide
<1>8. /\ CibleExiste /\ JourFixe /\ SansVerrou /\ VerrousProduits /\ LuSousVerrou
      /\ PriseVente /\ VerrousLignes
  BY <1>3 DEF CibleExiste, JourFixe, SansVerrou, VerrousProduits, LuSousVerrou, Verrouille,
     PriseVente, VerrousLignes
<1>9. PriseRendue /\ RenduComplet /\ DejaRendu
  BY <1>3 DEF PriseRendue, RenduComplet, DejaRendu
<1>10. Inexistants
  BY <1>2, <1>5 DEF Inexistants
<1> QED
  BY <1>4, <1>6, <1>7, <1>8, <1>9, <1>10 DEF IInv

(* Every step keeps it, one case per action.                                *)
LEMMA PasInv == IInv /\ [Next]_vars => IInv'
<1> SUFFICES ASSUME IInv, [Next]_vars PROVE IInv'
  OBVIOUS
<1>1. ASSUME NEW r \in Ids, Requetes(r) PROVE IInv'
  <2>1. CASE RecevoirVente(r) \/ RecevoirDepense(r)
    BY <2>1, PasRecevoir
  <2>2. CASE EcrireDirecte(r)
    BY <2>2, PasInserer
  <2>3. CASE LireAnnulation(r) \/ LireAdmin(r)
    BY <2>3, PasLire
  <2>4. CASE EcrireStock(r) \/ CreerProduit(r) \/ RetirerProduit(r) \/ SupprimerProduit(r)
    BY <2>4, PasEcran
  <2>5. CASE PoserCle(r)
    BY <2>5, PasPoserCle
  <2> QED BY <1>1, <2>1, <2>2, <2>3, <2>4, <2>5 DEF Requetes
<1>2. ASSUME NEW r \in Ids, Avance(r) PROVE IInv'
  <2>1. CASE ControlerJournee(r) \/ ControlerAnnulation(r)
    BY <2>1, PasControler
  <2>2. CASE AssurerSession(r)
    BY <2>2, PasAssurer
  <2>3. CASE InsererVente(r)
    BY <2>3, PasInsererVente
  <2>4. CASE VendreLigne(r)
    BY <2>4, PasVendreLigne
  <2>5. CASE ValiderVente(r)
    BY <2>5, PasValiderVente
  <2>6. CASE InsererDepense(r)
    BY <2>6, PasInserer
  <2>7. CASE MarquerStatut(r)
    BY <2>7, PasMarquerStatut
  <2>8. CASE RendreLigne(r)
    BY <2>8, PasRendreLigne
  <2>9. CASE ValiderStatut(r)
    BY <2>9, PasValiderStatut
  <2>10. CASE MettreAJour(r)
    BY <2>10, PasMettreAJour
  <2>11. CASE ValiderStock(r)
    BY <2>11, PasValiderStock
  <2> QED
    BY <1>2, <2>1, <2>2, <2>3, <2>4, <2>5, <2>6, <2>7, <2>8, <2>9, <2>10, <2>11 DEF Avance
<1>3. ASSUME NEW r \in Ids, Abandonner(r) \/ Interblocage(r) PROVE IInv'
  BY <1>3, PasControler
<1>4. CASE (\E g \in Guichets : GuichetOuvre(g) \/ GuichetAvance(g)) \/ NouveauJour
  BY <1>4, PasGuichet
<1>5. CASE UNCHANGED vars
  <2>1. UNCHANGED <<varsJournee, varsCaisse>>
    BY <1>5 DEF vars
  <2>2. TypeOK'
    BY <2>1 DEF IInv, TypeOK, TypeJournee, varsJournee, varsCaisse
  <2>3. UNCHANGED lignes
    BY <2>1 DEF varsJournee
  <2> QED BY <2>1, <2>2, <2>3, PasJournee
<1> QED
  BY <1>1, <1>2, <1>3, <1>4, <1>5 DEF Next

(* The inductive invariant holds in every reachable state.                  *)
THEOREM Invariant == Spec => []IInv
BY DebutInv, PasInv, PTL DEF Spec

(* Every table and every handler stays within its type, the stock of every  *)
(* product in particular never negative.                                    *)
THEOREM TypeCorrect == Spec => []TypeOK
<1>1. IInv => TypeOK
  BY DEF IInv
<1> QED BY <1>1, Invariant, PTL

(* I1: whatever sales, replays, cancellations, stock writes and rollbacks   *)
(* overlap, the stock is what was typed minus the net of the ledger.        *)
THEOREM StockToujoursConserve == Spec => []StockConserve
<1>1. IInv => StockConserve
  BY DEF IInv
<1> QED BY <1>1, Invariant, PTL

(* A sale never gives back more than it took, and a cancelled sale has      *)
(* given everything back, whoever cancels it and however often.             *)
THEOREM RestitutionToujoursJuste == Spec => []RestitutionJuste
<1>1. IInv => RestitutionJuste
  BY DEF IInv
<1> QED BY <1>1, Invariant, PTL

----------------------------------------------------------------------------
(* The idempotency keys.                                                    *)

(* A request that has written no row has recorded no key.                   *)
CleVide == \A r \in Ids : ~Existe(r) => cle[r] = SansCle

(* The key of an open transaction is not recorded, and nobody else has it.  *)
CleReservee ==
  \A r \in Ids : req[r].etape = "lignes" => req[r].op = "vente" /\ ~CleConnue(req[r].cle)

CleExclusive ==
  \A r, s \in Ids :
    /\ req[r].etape = "lignes" /\ req[s].etape = "lignes"
    /\ req[r].cle = req[s].cle /\ req[r].cle # SansCle
    => r = s

ICle == CleVide /\ CleReservee /\ CleExclusive /\ UneLigneParCle

----------------------------------------------------------------------------
(* A step that inserts no row and opens no transaction.                     *)
LEMMA PasSansInsertion ==
  ASSUME ICle, UNCHANGED cle,
         \A i \in Ids : lignes'[i].type = lignes[i].type,
         \A s \in Ids : req'[s].etape = "lignes" =>
           /\ req[s].etape = "lignes"
           /\ req'[s].op = req[s].op /\ req'[s].cle = req[s].cle
  PROVE  ICle'
<1>1. \A i \in Ids : Existe(i)' <=> Existe(i)
  BY DEF Existe
<1>2. CleVide' /\ UneLigneParCle'
  BY <1>1 DEF ICle, CleVide, UneLigneParCle
<1>3. CleReservee'
  BY <1>1 DEF ICle, CleReservee, CleConnue
<1>4. CleExclusive'
  BY DEF ICle, CleExclusive
<1> QED
  BY <1>2, <1>3, <1>4 DEF ICle

(* A step that changes request r alone, which is then in no transaction.    *)
LEMMA PasSeul ==
  ASSUME ICle, UNCHANGED cle, NEW r \in Ids, Ailleurs(r), req'[r].etape # "lignes",
         \A i \in Ids : lignes'[i].type = lignes[i].type
  PROVE  ICle'
<1>1. \A s \in Ids : req'[s].etape = "lignes" =>
        /\ req[s].etape = "lignes"
        /\ req'[s].op = req[s].op /\ req'[s].cle = req[s].cle
  BY DEF Ailleurs
<1> QED
  BY <1>1, PasSansInsertion

(* A row is inserted under a key that is neither recorded nor reserved by   *)
(* another request, or under no key.                                        *)
LEMMA PasInsertion ==
  ASSUME ICle, NEW r \in Ids, Ailleurs(r), req'[r].etape # "lignes", ~Existe(r),
         \A i \in Ids \ {r} : lignes'[i].type = lignes[i].type /\ cle'[i] = cle[i],
         lignes'[r].type # "absente",
         cle'[r] # SansCle =>
           /\ \A i \in Ids : Existe(i) => cle[i] # cle'[r]
           /\ \A s \in Ids \ {r} : req[s].etape = "lignes" => req[s].cle # cle'[r]
  PROVE  ICle'
<1>1. \A i \in Ids : Existe(i)' <=> (i = r \/ Existe(i))
  BY DEF Existe
<1>2. CleVide' /\ UneLigneParCle'
  BY <1>1 DEF ICle, CleVide, UneLigneParCle
<1>3. CleReservee'
  <2> SUFFICES ASSUME NEW s \in Ids, req'[s].etape = "lignes"
               PROVE  req'[s].op = "vente" /\ ~CleConnue(req[s].cle)'
    BY DEF CleReservee, CleConnue, Ailleurs
  <2>1. s # r /\ req'[s] = req[s]
    BY DEF Ailleurs
  <2>2. req[s].op = "vente" /\ ~CleConnue(req[s].cle)
    BY <2>1 DEF ICle, CleReservee
  <2> QED BY <1>1, <2>1, <2>2 DEF CleConnue
<1>4. CleExclusive'
  BY DEF ICle, CleExclusive, Ailleurs
<1> QED
  BY <1>2, <1>3, <1>4 DEF ICle

(* The INSERT of a sale: the index reserves the key.                        *)
LEMMA ClesInsererVente ==
  ASSUME IInv, ICle, NEW r \in Ids, InsererVente(r)
  PROVE  ICle'
<1>0. TypeOK /\ req[r] \in Requete
  BY DEF IInv, TypeOK
<1> DEFINE j == JourComptable(r)
           e == IF CleConnue(req[r].cle) THEN "fini" ELSE "lignes"
           q == [req[r] EXCEPT !.jour = j, !.etape = e]
<1>1. /\ UNCHANGED <<varsJournee, cle>>
      /\ req[r].op = "vente" /\ ~CleEnAttente(r) /\ req' = [req EXCEPT ![r] = q]
  BY <1>0 DEF InsererVente, TypeOK
<1>2. /\ q.etape = e /\ q.op = req[r].op /\ q.cle = req[r].cle
  BY <1>0 DEF Requete
<1>3. req'[r] = q /\ Ailleurs(r) /\ lignes' = lignes
  <2> HIDE DEF q
  <2> QED BY <1>0, <1>1 DEF Ailleurs, TypeOK, varsJournee
<1> HIDE DEF q, j
<1>4. CASE e = "fini"
  BY <1>1, <1>2, <1>3, <1>4, PasSeul
<1>5. CASE e = "lignes"
  <2>1. ~CleConnue(req[r].cle)
    BY <1>5
  <2>2. \A s \in Ids \ {r} :
          req[s].etape = "lignes" /\ req[r].cle # SansCle => req[s].cle # req[r].cle
    BY <1>1 DEF CleEnAttente, ICle, CleReservee
  <2>3. CleVide' /\ UneLigneParCle'
    BY <1>1, <1>3 DEF ICle, CleVide, UneLigneParCle, Existe
  <2>4. CleReservee'
    <3> SUFFICES ASSUME NEW s \in Ids, req'[s].etape = "lignes"
                 PROVE  req'[s].op = "vente" /\ ~CleConnue(req[s].cle)
      BY <1>1, <1>2, <1>3 DEF CleReservee, CleConnue, Existe, Ailleurs
    <3> QED BY <1>1, <1>2, <1>3, <2>1 DEF ICle, CleReservee, Ailleurs
  <2>5. CleExclusive'
    BY <1>2, <1>3, <2>2 DEF ICle, CleExclusive, Ailleurs
  <2> QED BY <2>3, <2>4, <2>5 DEF ICle
<1> QED
  BY <1>4, <1>5

(* The three ways a row is written.                                         *)
LEMMA ClesEcrire ==
  ASSUME IInv, ICle, NEW r \in Ids,
         ValiderVente(r) \/ InsererDepense(r) \/ EcrireDirecte(r)
  PROVE  ICle'
<1>0. TypeOK
  BY DEF IInv
<1>1. req[r].etape # "fini" /\ Etape(r, "fini")
  BY DEF ValiderVente, InsererDepense, EcrireDirecte, Demarre
<1>2. ~Existe(r)
  BY <1>1 DEF IInv, LigneFinie
<1>3. Ailleurs(r) /\ req'[r].etape # "lignes"
  BY <1>0, <1>1, EffetEtape DEF Etapes
<1>4. cle \in [Ids -> Cles \cup {SansCle}] /\ lignes \in [Ids -> Ligne] /\ cle[r] = SansCle
  BY <1>0, <1>2 DEF TypeOK, TypeJournee, ICle, CleVide
<1>5. CASE UNCHANGED <<lignes, cle>>
  BY <1>3, <1>5, PasSeul
<1>6. ASSUME NEW t \in Natures, NEW m, NEW j,
             lignes' = [lignes EXCEPT ![r] = NouvelleLigne(t, m, j)],
             \/ cle' = cle
             \/ cle' = [cle EXCEPT ![r] = req[r].cle],
             cle'[r] # SansCle =>
               /\ ~CleConnue(req[r].cle)
               /\ \A s \in Ids \ {r} : req[s].etape = "lignes" => req[s].cle # req[r].cle
      PROVE  ICle'
  <2>1. /\ lignes'[r].type # "absente"
        /\ \A i \in Ids \ {r} : lignes'[i].type = lignes[i].type /\ cle'[i] = cle[i]
    BY <1>4, <1>6 DEF NouvelleLigne, Natures, Entrees
  <2>2. cle'[r] # SansCle => cle'[r] = req[r].cle
    BY <1>4, <1>6
  <2>3. cle'[r] # SansCle => \A i \in Ids : Existe(i) => cle[i] # cle'[r]
    BY <1>6, <2>2 DEF CleConnue
  <2>4. cle'[r] # SansCle => \A s \in Ids \ {r} : req[s].etape = "lignes" => req[s].cle # cle'[r]
    BY <1>6, <2>2
  <2> QED BY <1>2, <1>3, <2>1, <2>3, <2>4, PasInsertion
<1>7. CASE ValiderVente(r)
  <2>1. /\ lignes' = [lignes EXCEPT ![r] = NouvelleLigne("vente", req[r].montant, req[r].jour)]
        /\ cle' = [cle EXCEPT ![r] = req[r].cle] /\ req[r].etape = "lignes"
    BY <1>7 DEF ValiderVente
  <2>2. cle'[r] = req[r].cle
    BY <1>4, <2>1
  <2>3. "vente" \in Natures
    BY DEF Natures, Entrees
  <2>4. cle'[r] # SansCle =>
          /\ ~CleConnue(req[r].cle)
          /\ \A s \in Ids \ {r} : req[s].etape = "lignes" => req[s].cle # req[r].cle
    BY <2>1, <2>2 DEF ICle, CleReservee, CleExclusive
  <2> QED BY <2>1, <2>3, <2>4, <1>6
<1>8. CASE InsererDepense(r)
  <2>1. CASE CleConnue(req[r].cle)
    BY <1>5, <1>8, <2>1 DEF InsererDepense
  <2>2. CASE ~CleConnue(req[r].cle)
    <3>1. /\ lignes' = [lignes EXCEPT ![r] =
                          NouvelleLigne("depense", req[r].montant, JourComptable(r))]
          /\ cle' = [cle EXCEPT ![r] = req[r].cle] /\ ~CleEnAttente(r)
      BY <1>8, <2>2 DEF InsererDepense
    <3>2. cle'[r] = req[r].cle
      BY <1>4, <3>1
    <3>3. "depense" \in Natures
      BY DEF Natures
    <3>4. cle'[r] # SansCle =>
            \A s \in Ids \ {r} : req[s].etape = "lignes" => req[s].cle # req[r].cle
      BY <3>1, <3>2 DEF CleEnAttente, ICle, CleReservee
    <3> QED BY <2>2, <3>1, <3>3, <3>4, <1>6
  <2> QED BY <2>1, <2>2
<1>9. CASE EcrireDirecte(r)
  <2>1. PICK m \in Montants, t \in {"depense", "autre"} :
          lignes' = [lignes EXCEPT ![r] = NouvelleLigne(t, m, aujourdhui)]
    BY <1>9, Zenon DEF EcrireDirecte
  <2>2. cle' = cle /\ t \in Natures
    BY <1>9 DEF EcrireDirecte, Natures
  <2> QED BY <2>1, <2>2, <1>4, <1>6
<1> QED
  BY <1>7, <1>8, <1>9

(* Steps of a request that write no row.                                    *)
LEMMA ClesAutres ==
  ASSUME IInv, ICle, NEW r \in Ids,
         \/ RecevoirVente(r) \/ RecevoirDepense(r) \/ LireAnnulation(r) \/ LireAdmin(r)
         \/ EcrireStock(r) \/ CreerProduit(r) \/ RetirerProduit(r) \/ SupprimerProduit(r)
         \/ PoserCle(r) \/ MettreAJour(r) \/ ValiderStock(r) \/ ControlerJournee(r) \/ AssurerSession(r) \/ ControlerAnnulation(r)
         \/ MarquerStatut(r) \/ VendreLigne(r) \/ RendreLigne(r) \/ ValiderStatut(r)
         \/ Abandonner(r) \/ Interblocage(r)
  PROVE  ICle'
<1>0. TypeOK /\ req[r] \in Requete
  BY DEF IInv, TypeOK
<1>1. UNCHANGED cle
  BY Zenon DEF RecevoirVente, RecevoirDepense, Recevoir, LireAnnulation, LireAdmin, EcrireStock,
     CreerProduit, RetirerProduit, SupprimerProduit, ControlerJournee, AssurerSession,
     ControlerAnnulation, MarquerStatut, VendreLigne, RendreLigne, ValiderStatut, Abandonner,
     Interblocage, PoserCle, MettreAJour, ValiderStock
<1>2. \A i \in Ids : lignes'[i].type = lignes[i].type
  <2>1. CASE ValiderStatut(r)
    <3> DEFINE c == req[r].cible
               nl == [lignes[c] EXCEPT !.statut = req[r].statut]
    <3>1. lignes' = lignes \/ lignes' = [lignes EXCEPT ![c] = nl]
      BY <2>1, Zenon DEF ValiderStatut
    <3>2. lignes \in [Ids -> Ligne] /\ c \in Ids
      BY <1>0 DEF TypeOK, TypeJournee, Requete
    <3>3. nl.type = lignes[c].type
      BY <3>2 DEF Ligne
    <3> HIDE DEF nl
    <3> QED BY <3>1, <3>2, <3>3
  <2>2. CASE UNCHANGED lignes
    BY <2>2
  <2> QED
    BY <2>1, <2>2, Zenon DEF RecevoirVente, RecevoirDepense, Recevoir, LireAnnulation, LireAdmin,
       EcrireStock, CreerProduit, RetirerProduit, SupprimerProduit, ControlerJournee,
       AssurerSession, ControlerAnnulation, MarquerStatut, VendreLigne, RendreLigne,
       Abandonner, Interblocage, PoserCle, MettreAJour, ValiderStock, varsJournee
<1>3. /\ Ailleurs(r)
      /\ req'[r].etape = "lignes" =>
           /\ req[r].etape = "lignes"
           /\ req'[r].op = req[r].op /\ req'[r].cle = req[r].cle
  <2>1. CASE RecevoirVente(r) \/ RecevoirDepense(r)
    BY <2>1, <1>0, EffetRecevoir DEF RecevoirVente, RecevoirDepense
  <2>2. CASE LireAnnulation(r) \/ LireAdmin(r)
    <3>1. PICK t \in Ids, op \in Ops, st \in Statuts, e \in {"a_controler", "marquer"} :
            Viser(r, op, t, st, e)
      BY <2>2, CaisseConstantes, Zenon DEF LireAnnulation, LireAdmin, Ops, Statuts
    <3> QED BY <3>1, <1>0, EffetViser DEF Etapes
  <2>3. CASE PoserCle(r) \/ MettreAJour(r) \/ ValiderStock(r)
    BY <2>3, <1>0, EffetPoserCle, EffetMettreAJour, EffetValiderStock
  <2>4. ASSUME NEW e \in Etapes, e # "lignes", Etape(r, e) PROVE <1>3
    BY <2>4, <1>0, EffetEtape
  <2>5. CASE \/ EcrireStock(r) \/ CreerProduit(r) \/ RetirerProduit(r)
             \/ SupprimerProduit(r) \/ ControlerJournee(r) \/ AssurerSession(r) \/ ControlerAnnulation(r)
             \/ ValiderStatut(r) \/ Abandonner(r) \/ Interblocage(r)
    <3>1. PICK e \in {"fini", "assurer", "inserer", "marquer"} : Etape(r, e)
      BY <2>5, Zenon DEF EcrireStock, CreerProduit, RetirerProduit, SupprimerProduit, ControlerJournee,
         AssurerSession, ControlerAnnulation, ValiderStatut, Abandonner, Interblocage
    <3> QED BY <3>1, <2>4 DEF Etapes
  <2>6. CASE MarquerStatut(r)
    <3>1. PICK v, k : req' = [req EXCEPT ![r] =
                               [req[r] EXCEPT !.etape = "rendre", !.verrou = v, !.prise = k]]
      BY <2>6, Zenon DEF MarquerStatut
    <3> QED BY <3>1, <1>0 DEF Ailleurs, TypeOK, Requete
  <2>7. CASE VendreLigne(r)
    <3>1. PICK p \in Produits \ req[r].faits :
            req' = [req EXCEPT ![r] =
                     [req[r] EXCEPT
                        !.faits = req[r].faits \cup {p},
                        !.lu = [req[r].lu EXCEPT ![p] = produits[p].stock],
                        !.prise = [req[r].prise EXCEPT
                                     ![p] = Moindre(req[r].panier[p], produits[p].stock)]]]
      BY <2>7, Zenon DEF VendreLigne
    <3> QED BY <3>1, <1>0 DEF Ailleurs, TypeOK, Requete
  <2>8. CASE RendreLigne(r)
    <3>1. PICK fs, l : req' = [req EXCEPT ![r] = [req[r] EXCEPT !.faits = fs, !.lu = l]]
      BY <2>8, Zenon DEF RendreLigne
    <3> QED BY <3>1, <1>0 DEF Ailleurs, TypeOK, Requete
  <2> QED BY <2>1, <2>2, <2>3, <2>5, <2>6, <2>7, <2>8
<1>4. \A s \in Ids : req'[s].etape = "lignes" =>
        /\ req[s].etape = "lignes"
        /\ req'[s].op = req[s].op /\ req'[s].cle = req[s].cle
  BY <1>3 DEF Ailleurs
<1> QED
  BY <1>1, <1>2, <1>4, PasSansInsertion

(* Every step keeps ICle.                                                   *)
LEMMA PasCles == IInv /\ ICle /\ [Next]_vars => ICle'
<1> SUFFICES ASSUME IInv, ICle, [Next]_vars PROVE ICle'
  OBVIOUS
<1>1. ASSUME NEW r \in Ids, Requetes(r) \/ Avance(r) \/ Abandonner(r) \/ Interblocage(r)
      PROVE  ICle'
  <2>1. CASE ValiderVente(r) \/ InsererDepense(r) \/ EcrireDirecte(r)
    BY <2>1, ClesEcrire
  <2>2. CASE InsererVente(r)
    BY <2>2, ClesInsererVente
  <2> QED BY <1>1, <2>1, <2>2, ClesAutres DEF Requetes, Avance
<1>2. CASE UNCHANGED <<lignes, req, cle>>
  BY <1>2, PasSansInsertion
<1>3. CASE (\E g \in Guichets : GuichetOuvre(g) \/ GuichetAvance(g)) \/ NouveauJour
  <2>1. UNCHANGED <<lignes, varsCaisse>>
    BY <1>3 DEF GuichetOuvre, GuichetAvance, NouveauJour, LireSession, Minuit, EtapeGuichet,
       CreerJournee, DeclarerFond, Rouvrir, CorrigerFond, JournaliserFond, SommerJournee,
       FermerJournee
  <2> QED BY <1>2, <2>1 DEF varsCaisse
<1>4. CASE UNCHANGED vars
  BY <1>2, <1>4 DEF vars, varsJournee, varsCaisse
<1> QED
  BY <1>1, <1>3, <1>4 DEF Next

(* I2: replays, races and rollbacks included, an idempotency key records    *)
(* one row of caisse_transactions, sale or expense.                         *)
THEOREM ClesUniques == Spec => []UneLigneParCle
<1>1. Init => ICle
  BY DEF Init, InitJournee, ICle, CleVide, CleReservee, CleExclusive, UneLigneParCle, Existe,
     LigneAbsente, RequeteLibre
<1>2. ICle => UneLigneParCle
  BY DEF ICle
<1> QED
  BY <1>1, <1>2, PasCles, Invariant, PTL DEF Spec

----------------------------------------------------------------------------
(* The keyed writes of the stock, and the commit of a restitution.          *)

(* A stock write is answered by the step that ends its request.             *)
IssueFinie == \A r \in Ids : req[r].issue # "aucune" => req[r].etape = "fini"

(* The key of an open stock write is not recorded, and nobody else has it.  *)
CleStockReservee ==
  \A r \in Ids : req[r].etape \in {"cle", "ecrire"} => req[r].cle \in Cles \ clesStock

CleStockExclusive ==
  \A r, s \in Ids :
    /\ req[r].etape \in {"cle", "ecrire"} /\ req[s].etape \in {"cle", "ecrire"}
    /\ req[r].cle = req[s].cle
    => r = s

(* Only a change of status to annulee has goods to give back.               *)
PriseDeAnnulation ==
  \A r \in Ids, p \in Produits :
    req[r].etape = "rendre" /\ req[r].prise[p] > 0 => req[r].statut = "annulee"

IEcriture ==
  IssueFinie /\ CleStockReservee /\ CleStockExclusive /\ CleUneEcriture /\ PriseDeAnnulation

Keyee(r) == PoserCle(r) \/ MettreAJour(r) \/ ValiderStock(r)

(* A request that moves was not over; but for the steps of a keyed write it *)
(* answers no stock write and opens none, and it restores what MarquerStatut*)
(* summed.                                                                  *)
LEMMA OpReste ==
  ASSUME IInv, NEW r \in Ids, Requetes(r) \/ Avance(r) \/ Abandonner(r) \/ Interblocage(r),
         ~Keyee(r)
  PROVE  /\ Ailleurs(r) /\ req[r].etape # "fini" /\ UNCHANGED clesStock
         /\ req'[r].issue \in {req[r].issue, "aucune"}
         /\ req'[r].etape \notin {"cle", "ecrire"}
         /\ req'[r].etape = "rendre" =>
              \/ MarquerStatut(r)
              \/ /\ req[r].etape = "rendre" /\ req'[r].prise = req[r].prise
                 /\ req'[r].statut = req[r].statut
<1>0. TypeOK /\ req[r] \in Requete /\ req \in [Ids -> Requete]
  BY DEF IInv, TypeOK
<1>u. UNCHANGED clesStock
  BY Zenon DEF Keyee, Requetes, Avance, RecevoirVente, RecevoirDepense, Recevoir,
     LireAnnulation, LireAdmin, EcrireStock, EcrireDirecte, CreerProduit, RetirerProduit,
     SupprimerProduit, ControlerJournee, AssurerSession, ControlerAnnulation, InsererVente,
     InsererDepense, ValiderVente, MarquerStatut, VendreLigne, RendreLigne, ValiderStatut,
     Abandonner, Interblocage
<1>1. CASE RecevoirVente(r) \/ RecevoirDepense(r)
  <2>1. PICK op \in {"vente", "depense"} : Recevoir(r, op)
    BY <1>1 DEF RecevoirVente, RecevoirDepense
  <2>2. PICK k \in Cles \cup {SansCle}, m \in Montants, d \in DatesOperation, b \in Paniers :
          req' = [req EXCEPT ![r] =
                   [RequeteLibre(r) EXCEPT
                      !.op = op, !.cle = k, !.montant = m, !.jour = d,
                      !.panier = IF op = "vente" THEN b ELSE Rien,
                      !.etape = IF CleConnue(k) THEN "fini" ELSE "controle"]]
    BY <2>1, Zenon DEF Recevoir
  <2>3. req'[r].issue = "aucune"
    BY <1>0, <2>2 DEF RequeteLibre
  <2> QED BY <1>u, <1>0, <2>1, <2>3, EffetRecevoir DEF Recevoir, Demarre
<1>2. CASE LireAnnulation(r) \/ LireAdmin(r)
  <2>1. PICK t \in Ids, op \in Ops, st \in Statuts, e \in {"a_controler", "marquer"} :
          Viser(r, op, t, st, e)
    BY <1>2, CaisseConstantes, Zenon DEF LireAnnulation, LireAdmin, Ops, Statuts
  <2>2. /\ Ailleurs(r) /\ req'[r].etape = e
    BY <1>0, <2>1, EffetViser DEF Etapes
  <2>3. req'[r].issue = "aucune"
    BY <1>0, <2>1 DEF Viser, RequeteLibre
  <2> QED BY <1>u, <1>2, <2>1, <2>2, <2>3 DEF LireAnnulation, LireAdmin, Demarre
<1>3. ASSUME NEW e \in Etapes \ {"rendre", "cle", "ecrire"}, Etape(r, e), req[r].etape # "fini"
      PROVE  /\ Ailleurs(r) /\ req'[r].issue = req[r].issue
             /\ req'[r].etape \notin {"rendre", "cle", "ecrire"}
  <2>1. Ailleurs(r) /\ req'[r] = [req[r] EXCEPT !.etape = e] /\ req'[r].etape = e
    BY <1>0, <1>3, EffetEtape
  <2> QED BY <1>0, <2>1 DEF Requete
<1>4. CASE \/ EcrireDirecte(r) \/ EcrireStock(r) \/ CreerProduit(r) \/ RetirerProduit(r)
           \/ SupprimerProduit(r) \/ ControlerJournee(r) \/ AssurerSession(r) \/ ValiderVente(r) \/ InsererDepense(r)
           \/ ControlerAnnulation(r) \/ ValiderStatut(r) \/ Abandonner(r)
  <2>1. PICK e \in {"fini", "assurer", "inserer", "marquer"} : Etape(r, e)
    BY <1>4, Zenon DEF EcrireDirecte, EcrireStock, CreerProduit, RetirerProduit, SupprimerProduit,
       ControlerJournee, AssurerSession, ValiderVente, InsererDepense, ControlerAnnulation,
       ValiderStatut, Abandonner
  <2>2. req[r].etape # "fini"
    BY <1>4 DEF EcrireDirecte, EcrireStock, CreerProduit, RetirerProduit, SupprimerProduit,
       ControlerJournee, AssurerSession, ValiderVente, InsererDepense, ControlerAnnulation,
       ValiderStatut, Abandonner, Demarre
  <2> QED BY <1>u, <1>3, <2>1, <2>2 DEF Etapes
<1>5. CASE Interblocage(r)
  <2>1. req[r].etape # "fini"
    BY <1>5 DEF Interblocage, Attend
  <2> QED BY <1>u, <1>3, <1>5, <2>1 DEF Interblocage, Etapes
<1>6. CASE InsererVente(r)
  <2> DEFINE e == IF CleConnue(req[r].cle) THEN "fini" ELSE "lignes"
             q == [req[r] EXCEPT !.jour = JourComptable(r), !.etape = e]
  <2>1. req' = [req EXCEPT ![r] = q] /\ req[r].etape = "inserer"
    BY <1>0, <1>6 DEF InsererVente
  <2>2. q.issue = req[r].issue /\ q.etape = e /\ e \notin {"rendre", "cle", "ecrire"}
    BY <1>0 DEF Requete
  <2> HIDE DEF q
  <2> QED BY <1>u, <1>0, <2>1, <2>2 DEF Ailleurs
<1>7. CASE VendreLigne(r)
  <2>1. PICK p \in Produits \ req[r].faits :
          req' = [req EXCEPT ![r] =
                   [req[r] EXCEPT
                      !.faits = req[r].faits \cup {p},
                      !.lu = [req[r].lu EXCEPT ![p] = produits[p].stock],
                      !.prise = [req[r].prise EXCEPT
                                   ![p] = Moindre(req[r].panier[p], produits[p].stock)]]]
    BY <1>7, Zenon DEF VendreLigne
  <2>2. req[r].etape = "lignes"
    BY <1>7 DEF VendreLigne
  <2> QED BY <1>u, <1>0, <2>1, <2>2 DEF Ailleurs, Requete
<1>8. CASE MarquerStatut(r)
  <2>1. PICK v, k : req' = [req EXCEPT ![r] =
                              [req[r] EXCEPT !.etape = "rendre", !.verrou = v, !.prise = k]]
    BY <1>8, Zenon DEF MarquerStatut
  <2>2. req[r].etape = "marquer"
    BY <1>8 DEF MarquerStatut
  <2> QED BY <1>u, <1>0, <1>8, <2>1, <2>2 DEF Ailleurs, Requete
<1>9. CASE RendreLigne(r)
  <2>1. PICK fs, l : req' = [req EXCEPT ![r] = [req[r] EXCEPT !.faits = fs, !.lu = l]]
    BY <1>9, Zenon DEF RendreLigne
  <2>2. req[r].etape = "rendre"
    BY <1>9 DEF RendreLigne
  <2> QED BY <1>u, <1>0, <2>1, <2>2 DEF Ailleurs, Requete
<1> QED
  BY <1>1, <1>2, <1>4, <1>5, <1>6, <1>7, <1>8, <1>9 DEF Requetes, Avance, Keyee

(* A step that answers no stock write and opens none.                       *)
LEMMA EcrituresPas ==
  ASSUME IInv, IEcriture, NEW r \in Ids,
         Requetes(r) \/ Avance(r) \/ Abandonner(r) \/ Interblocage(r), ~Keyee(r)
  PROVE  IEcriture'
<1>0. TypeOK /\ req[r] \in Requete /\ req \in [Ids -> Requete]
  BY DEF IInv, TypeOK
<1>1. /\ Ailleurs(r) /\ req[r].etape # "fini" /\ UNCHANGED clesStock
      /\ req'[r].issue \in {req[r].issue, "aucune"} /\ req'[r].etape \notin {"cle", "ecrire"}
      /\ req'[r].etape = "rendre" =>
           \/ MarquerStatut(r)
           \/ /\ req[r].etape = "rendre" /\ req'[r].prise = req[r].prise
              /\ req'[r].statut = req[r].statut
  BY OpReste
<1>2. req[r].issue = "aucune" /\ req'[r].issue = "aucune"
  BY <1>1 DEF IEcriture, IssueFinie
<1>3. IssueFinie' /\ CleStockReservee' /\ CleStockExclusive'
  BY <1>1, <1>2 DEF IEcriture, IssueFinie, CleStockReservee, CleStockExclusive, Ailleurs
<1>4. CleUneEcriture'
  BY <1>1, <1>2 DEF IEcriture, CleUneEcriture, Appliquee, Ailleurs
<1>5. ASSUME MarquerStatut(r), NEW p \in Produits, req'[r].prise[p] > 0
      PROVE  req'[r].statut = "annulee"
  <2> DEFINE k == IF Restitue(r) THEN [q \in Produits |-> Net(req[r].cible, q)] ELSE Rien
  <2>1. PICK v : req' = [req EXCEPT ![r] =
                           [req[r] EXCEPT !.etape = "rendre", !.verrou = v, !.prise = k]]
    BY <1>5, Zenon DEF MarquerStatut
  <2>2. req'[r].prise = k /\ req'[r].statut = req[r].statut
    <3> HIDE DEF k
    <3> QED BY <1>0, <2>1 DEF Requete
  <2>3. Restitue(r)
    BY <1>5, <2>2 DEF Rien
  <2> QED BY <2>2, <2>3 DEF Restitue
<1>6. PriseDeAnnulation'
  BY <1>1, <1>5 DEF IEcriture, PriseDeAnnulation, Ailleurs
<1> QED BY <1>3, <1>4, <1>6 DEF IEcriture

(* The INSERT of a key waits for an open one and finds a recorded one; the  *)
(* COMMIT records it with the write.                                        *)
LEMMA EcrituresCle ==
  ASSUME IInv, IEcriture, NEW r \in Ids, Keyee(r)
  PROVE  IEcriture'
<1>0. TypeOK
  BY DEF IInv
<1>1. CASE PoserCle(r)
  <2>1. /\ Ailleurs(r) /\ UNCHANGED clesStock
        /\ req[r].etape = "libre"
        /\ req'[r].cle \in Cles /\ CleStockLibre(req'[r].cle)
        /\ IF req'[r].cle \in clesStock
           THEN req'[r].etape = "fini" /\ req'[r].issue = "rejouee"
           ELSE req'[r].etape = "cle" /\ req'[r].issue = "aucune"
    BY <1>0, <1>1, EffetPoserCle DEF PoserCle, Demarre
  <2>2. req[r].issue = "aucune"
    BY <2>1 DEF IEcriture, IssueFinie
  <2>3. IssueFinie' /\ CleStockReservee' /\ PriseDeAnnulation'
    BY <2>1 DEF IEcriture, IssueFinie, CleStockReservee, PriseDeAnnulation, Ailleurs
  <2>4. CleStockExclusive'
    BY <2>1 DEF IEcriture, CleStockExclusive, CleStockLibre, Ailleurs
  <2>5. CleUneEcriture'
    BY <2>1, <2>2 DEF IEcriture, CleUneEcriture, Appliquee, Ailleurs
  <2> QED BY <2>3, <2>4, <2>5 DEF IEcriture
<1>2. CASE MettreAJour(r)
  <2>1. /\ Ailleurs(r) /\ UNCHANGED clesStock
        /\ req[r].etape = "cle" /\ req'[r].etape = "ecrire"
        /\ req'[r].cle = req[r].cle /\ req'[r].issue = req[r].issue
    BY <1>0, <1>2, EffetMettreAJour DEF MettreAJour
  <2>2. req[r].issue = "aucune"
    BY <2>1 DEF IEcriture, IssueFinie
  <2>3. IssueFinie' /\ CleStockReservee' /\ CleStockExclusive' /\ PriseDeAnnulation'
    BY <2>1, <2>2 DEF IEcriture, IssueFinie, CleStockReservee, CleStockExclusive,
       PriseDeAnnulation, Ailleurs
  <2>4. CleUneEcriture'
    BY <2>1, <2>2 DEF IEcriture, CleUneEcriture, Appliquee, Ailleurs
  <2> QED BY <2>3, <2>4 DEF IEcriture
<1>3. CASE ValiderStock(r)
  <2>1. /\ Ailleurs(r) /\ clesStock' = clesStock \cup {req[r].cle}
        /\ req[r].etape = "ecrire" /\ req'[r].etape = "fini"
        /\ req'[r].cle = req[r].cle /\ req'[r].issue \in {"ecrite", "sans_objet"}
    BY <1>0, <1>3, EffetValiderStock DEF ValiderStock
  <2>2. /\ req[r].issue = "aucune" /\ req[r].cle \in Cles \ clesStock
        /\ \A s \in Ids \ {r} : req[s].etape \in {"cle", "ecrire"} => req[s].cle # req[r].cle
    BY <2>1 DEF IEcriture, IssueFinie, CleStockReservee, CleStockExclusive
  <2>3. IssueFinie' /\ CleStockReservee' /\ CleStockExclusive' /\ PriseDeAnnulation'
    BY <2>1, <2>2 DEF IEcriture, IssueFinie, CleStockReservee, CleStockExclusive,
       PriseDeAnnulation, Ailleurs
  <2>4. \A k \in Cles, s \in Ids :
          Appliquee(s, k)' <=> Appliquee(s, k) \/ (s = r /\ k = req[r].cle)
    BY <2>1, <2>2 DEF Appliquee, Ailleurs
  <2>5. \A s \in Ids : ~Appliquee(s, req[r].cle)
    BY <2>2 DEF IEcriture, CleUneEcriture
  <2>6. CleUneEcriture'
    BY <2>1, <2>2, <2>4, <2>5 DEF IEcriture, CleUneEcriture, Ailleurs
  <2> QED BY <2>3, <2>6 DEF IEcriture
<1> QED BY <1>1, <1>2, <1>3 DEF Keyee

LEMMA EcrituresNext == IInv /\ IEcriture /\ [Next]_vars => IEcriture'
<1> SUFFICES ASSUME IInv, IEcriture, [Next]_vars PROVE IEcriture'
  OBVIOUS
<1>1. ASSUME NEW r \in Ids, Requetes(r) \/ Avance(r) \/ Abandonner(r) \/ Interblocage(r)
      PROVE  IEcriture'
  BY <1>1, EcrituresPas, EcrituresCle
<1>2. CASE UNCHANGED <<req, clesStock>>
  BY <1>2 DEF IEcriture, IssueFinie, CleStockReservee, CleStockExclusive, CleUneEcriture,
     Appliquee, PriseDeAnnulation
<1>3. CASE \/ \E g \in Guichets : GuichetOuvre(g) \/ GuichetAvance(g)
           \/ NouveauJour
           \/ UNCHANGED vars
  BY <1>2, <1>3 DEF GuichetOuvre, GuichetAvance, NouveauJour, vars, varsCaisse
<1> QED BY <1>1, <1>3 DEF Next

LEMMA Ecritures == Spec => []IEcriture
<1>1. Init => IEcriture
  <2> SUFFICES ASSUME Init PROVE IEcriture
    OBVIOUS
  <2>1. /\ clesStock = {}
        /\ \A r \in Ids : req[r].etape = "libre" /\ req[r].issue = "aucune"
    BY DEF Init, RequeteLibre
  <2>2. CleUneEcriture
    BY <2>1 DEF CleUneEcriture, Appliquee
  <2> QED
    BY <2>1, <2>2 DEF IEcriture, IssueFinie, CleStockReservee, CleStockExclusive,
       PriseDeAnnulation
<1> QED BY <1>1, EcrituresNext, Invariant, PTL DEF Spec

(* H11: through waits, replays, deletions and rollbacks, a recorded key of  *)
(* the stock has exactly one request that wrote, and a phone told that its  *)
(* write was a replay is told so after that write was committed.            *)
THEOREM EcrituresUniques == Spec => []CleUneEcriture
<1>1. IEcriture => CleUneEcriture
  BY DEF IEcriture
<1> QED BY <1>1, Ecritures, PTL

(* The ledger of a sale gives goods back in the commit that cancels it.     *)
LEMMA RendreEtAnnuler ==
  ASSUME IInv, PriseDeAnnulation, NEW r \in Ids, ValiderStatut(r), NEW t \in Ids,
         rendu'[t] # rendu[t]
  PROVE  lignes[t].statut # "annulee" /\ lignes'[t].statut = "annulee"
<1> DEFINE c == req[r].cible
           fs == req[r].faits
           pr == req[r].prise
           nr == [p \in Produits |-> IF p \in fs THEN rendu[c][p] + pr[p] ELSE rendu[c][p]]
<1>0. /\ TypeOK /\ c \in Ids /\ rendu \in [Ids -> [Produits -> Nat]] /\ fs \subseteq Produits
      /\ lignes \in [Ids -> Ligne] /\ pr \in [Produits -> Nat]
  BY DEF IInv, TypeOK, TypeJournee, Requete
<1>1. /\ rendu' = [rendu EXCEPT ![c] = nr] /\ req[r].etape = "rendre"
      /\ lignes' = IF req[r].verrou THEN [lignes EXCEPT ![c].statut = req[r].statut] ELSE lignes
  BY Zenon DEF ValiderStatut
<1> HIDE DEF nr
<1>2. t = c
  BY <1>0, <1>1
<1>3. rendu'[c] = nr
  BY <1>0, <1>1
<1>4. PICK p \in fs : TRUE
  <2> SUFFICES ASSUME fs = {} PROVE FALSE
    OBVIOUS
  <2>1. nr = [p \in Produits |-> rendu[c][p]]
    BY DEF nr
  <2>2. nr = rendu[c]
    BY <1>0, <2>1
  <2> QED BY <1>2, <1>3, <2>2
<1>5. p \in Produits /\ Verrouille(r, p)
  BY <1>0, <1>1, <1>4 DEF Verrouille
<1>6. produits[p].etat # "supprime"
  BY <1>5 DEF IInv, LuSousVerrou
<1>7. pr[p] > 0 /\ req[r].verrou /\ pr[p] = Net(c, p)
  BY <1>1, <1>4, <1>5, <1>6 DEF IInv, PriseRendue
<1>8. req[r].statut = "annulee"
  BY <1>1, <1>5, <1>7 DEF PriseDeAnnulation
<1>9. lignes[c].statut # "annulee"
  BY <1>0, <1>5, <1>6, <1>7 DEF IInv, RestitutionJuste
<1>10. lignes'[c].statut = "annulee"
  BY <1>0, <1>1, <1>7, <1>8 DEF Ligne
<1> QED BY <1>2, <1>9, <1>10

(* Goods come back to stock in the very commit that cancels their sale:     *)
(* restituerStock runs on the manager of the change of status, and a sale   *)
(* that reads as cancelled gives nothing back.                              *)
THEOREM RestitutionDansAnnulation == Spec => RestitutionAvecAnnulation
<1> DEFINE A == \A t \in Ids : rendu'[t] # rendu[t] =>
                  lignes[t].statut # "annulee" /\ lignes'[t].statut = "annulee"
<1>1. IInv /\ IEcriture /\ [Next]_vars => A
  <2> SUFFICES ASSUME IInv, IEcriture, [Next]_vars, NEW t \in Ids, rendu'[t] # rendu[t]
               PROVE  lignes[t].statut # "annulee" /\ lignes'[t].statut = "annulee"
    OBVIOUS
  <2>1. ASSUME NEW r \in Ids, Requetes(r) \/ Avance(r) \/ Abandonner(r) \/ Interblocage(r)
        PROVE  UNCHANGED rendu \/ ValiderStatut(r)
    BY <2>1, Zenon DEF Requetes, Avance, RecevoirVente, RecevoirDepense, Recevoir,
       LireAnnulation, LireAdmin, EcrireStock, EcrireDirecte, CreerProduit, RetirerProduit,
       SupprimerProduit, ControlerJournee, AssurerSession, ControlerAnnulation, InsererVente,
       InsererDepense, ValiderVente, MarquerStatut, VendreLigne, RendreLigne, Abandonner,
       Interblocage, PoserCle, MettreAJour, ValiderStock
  <2>2. CASE \/ \E g \in Guichets : GuichetOuvre(g) \/ GuichetAvance(g)
             \/ NouveauJour
             \/ UNCHANGED vars
    BY <2>2 DEF GuichetOuvre, GuichetAvance, NouveauJour, vars, varsCaisse
  <2>3. ASSUME NEW r \in Ids, Requetes(r) \/ Avance(r) \/ Abandonner(r) \/ Interblocage(r)
        PROVE  lignes[t].statut # "annulee" /\ lignes'[t].statut = "annulee"
    BY <2>1, <2>3, RendreEtAnnuler DEF IEcriture
  <2> QED BY <2>2, <2>3 DEF Next
<1>2. IInv /\ IEcriture /\ [Next]_vars => [A]_vars
  BY <1>1
<1> HIDE DEF A
<1>3. Spec => [][A]_vars
  BY <1>2, Invariant, Ecritures, PTL DEF Spec
<1> QED BY <1>3 DEF RestitutionAvecAnnulation, A

----------------------------------------------------------------------------
(* What a step of the session routes may do to a closed day.                *)

(* Handler g moves: its record is not what it was.                          *)
LEMMA GuichetBouge ==
  ASSUME TypeOK, NEW g \in Guichets, EtapeGuichet(g),
         NEW j \in Jours, sessions[j].etat = "fermee", sessions'[j].etat # "fermee"
  PROVE  guichets[g].geste = "ouvrir" /\ guichets'[g] # guichets[g]
<1> DEFINE r == guichets[g]
<1>1. /\ sessions \in [Jours -> Session] /\ guichets \in [Guichets -> Guichet]
      /\ r.jour \in Jours /\ r \in Guichet
  BY DEF TypeOK, TypeJournee, Guichet
<1>2. ASSUME NEW e, Vers(g, e), r.etape # e PROVE guichets'[g] # guichets[g]
  BY <1>1, <1>2 DEF Vers, Guichet
<1>3. CASE DeclarerFond(g)
  BY <1>2, <1>3 DEF DeclarerFond
<1>4. CASE Rouvrir(g)
  BY <1>2, <1>4 DEF Rouvrir
<1>5. CASE CreerJournee(g)
  BY <1>1, <1>5 DEF CreerJournee
<1>6. CASE CorrigerFond(g)
  <2>1. sessions' = [sessions EXCEPT ![r.jour] = [sessions[r.jour] EXCEPT !.fond = r.montant,
                                                                       !.declare = TRUE]]
    BY <1>6 DEF CorrigerFond
  <2>2. [sessions[r.jour] EXCEPT !.fond = r.montant, !.declare = TRUE].etat
          = sessions[r.jour].etat
    BY <1>1 DEF Session
  <2> QED BY <1>1, <2>1, <2>2
<1>7. CASE JournaliserFond(g) \/ SommerJournee(g)
  BY <1>7 DEF JournaliserFond, SommerJournee
<1>8. CASE FermerJournee(g)
  BY <1>1, <1>8 DEF FermerJournee, Session
<1> QED
  BY <1>3, <1>4, <1>5, <1>6, <1>7, <1>8 DEF EtapeGuichet

(* No sale, expense or cancellation reopens a closed day: only a handler of *)
(* POST session/ouvrir does.                                                *)
THEOREM ReouvertureParOuvrir == Spec => ReouvertureExplicite
<1> DEFINE A == \A j \in Jours :
                  sessions[j].etat = "fermee" /\ sessions'[j].etat # "fermee" =>
                    \E g \in Guichets : guichets[g].geste = "ouvrir" /\ guichets'[g] # guichets[g]
<1>1. IInv /\ [Next]_vars => A
  <2> SUFFICES ASSUME IInv, [Next]_vars, NEW j \in Jours,
                      sessions[j].etat = "fermee", sessions'[j].etat # "fermee"
               PROVE  \E g \in Guichets : guichets[g].geste = "ouvrir" /\ guichets'[g] # guichets[g]
    OBVIOUS
  <2>0. TypeOK /\ aujourdhui \in Jours /\ sessions \in [Jours -> Session]
    BY DEF IInv, TypeOK, TypeJournee
  <2>1. ASSUME NEW r \in Ids, AssurerSession(r) PROVE FALSE
    BY <2>0, <2>1 DEF AssurerSession, EnsureSession
  <2>2. ASSUME NEW r \in Ids, Requetes(r) \/ Avance(r) \/ Abandonner(r) \/ Interblocage(r)
        PROVE  FALSE
    <3>1. UNCHANGED sessions \/ AssurerSession(r)
      BY <2>2, Zenon DEF Requetes, Avance, RecevoirVente, RecevoirDepense, Recevoir,
         LireAnnulation, LireAdmin, EcrireStock, EcrireDirecte, CreerProduit, RetirerProduit,
         SupprimerProduit, ControlerJournee, ControlerAnnulation, InsererVente, InsererDepense,
         ValiderVente, MarquerStatut, VendreLigne, RendreLigne, ValiderStatut, Abandonner,
         Interblocage, PoserCle, MettreAJour, ValiderStock, varsJournee
    <3> QED BY <3>1, <2>1
  <2>3. ASSUME NEW g \in Guichets, GuichetAvance(g)
        PROVE  guichets[g].geste = "ouvrir" /\ guichets'[g] # guichets[g]
    BY <2>0, <2>3, GuichetBouge DEF GuichetAvance
  <2>4. ASSUME \/ \E g \in Guichets : GuichetOuvre(g)
               \/ NouveauJour
               \/ UNCHANGED vars
        PROVE  FALSE
    BY <2>4 DEF GuichetOuvre, LireSession, NouveauJour, Minuit, vars, varsJournee
  <2> QED BY <2>2, <2>3, <2>4 DEF Next
<1>2. IInv /\ [Next]_vars => [A]_vars
  BY <1>1
<1> HIDE DEF A
<1>3. Spec => [][A]_vars
  BY <1>2, Invariant, PTL DEF Spec
<1> QED
  BY <1>3 DEF ReouvertureExplicite, A

----------------------------------------------------------------------------
(* The figures of a day, handlers overlapping or not.                       *)

(* A closing in progress had read its day open.                             *)
FermeVueOuverte ==
  \A g \in Guichets :
    /\ guichets[g].etape = "somme" => guichets[g].geste = "fermer"
    /\ guichets[g].etape \in {"lu", "somme"} /\ guichets[g].geste = "fermer" =>
         guichets[g].vu.etat = "ouverte"

(* A day that a handler has read exists for good.                           *)
VuExiste ==
  \A g \in Guichets :
    guichets[g].etape \in {"lu", "somme"} /\ guichets[g].vu.etat # "absente" =>
      sessions[guichets[g].jour].etat # "absente"

(* A day that does not exist has no declared fund.                          *)
AbsenteNeuve == \A j \in Jours : sessions[j].etat = "absente" => ~sessions[j].declare

IGuichet == FermeVueOuverte /\ VuExiste /\ AbsenteNeuve

(* Of the requests, only the opening by ensureSession writes the day.       *)
LEMMA PasSessions ==
  ASSUME NEW r \in Ids, Requetes(r) \/ Avance(r) \/ Abandonner(r) \/ Interblocage(r)
  PROVE  (UNCHANGED sessions \/ AssurerSession(r)) /\ UNCHANGED guichets
BY Zenon DEF Requetes, Avance, RecevoirVente, RecevoirDepense, Recevoir,
   LireAnnulation, LireAdmin, EcrireStock, EcrireDirecte, CreerProduit, RetirerProduit,
   SupprimerProduit, ControlerJournee, ControlerAnnulation, InsererVente, InsererDepense,
   ValiderVente, MarquerStatut, VendreLigne, RendreLigne, ValiderStatut, Abandonner,
   Interblocage, PoserCle, MettreAJour, ValiderStock, AssurerSession, varsJournee

(* A day that exists goes on existing, one without a declared fund is new.  *)
LEMMA JourneesRestent ==
  ASSUME IInv, IGuichet, [Next]_vars
  PROVE  /\ \A j \in Jours : sessions[j].etat # "absente" => sessions'[j].etat # "absente"
         /\ AbsenteNeuve'
<1>0. aujourdhui \in Jours /\ sessions \in [Jours -> Session]
  BY DEF IInv, TypeOK, TypeJournee
<1>1. CASE UNCHANGED sessions
  BY <1>1 DEF IGuichet, AbsenteNeuve
<1>2. ASSUME NEW r \in Ids, AssurerSession(r)
      PROVE  /\ \A j \in Jours : sessions[j].etat # "absente" => sessions'[j].etat # "absente"
             /\ AbsenteNeuve'
  BY <1>0, <1>2 DEF AssurerSession, EnsureSession, IGuichet, AbsenteNeuve, SessionAbsente
<1>3. ASSUME NEW g \in Guichets, EtapeGuichet(g)
      PROVE  /\ \A j \in Jours : sessions[j].etat # "absente" => sessions'[j].etat # "absente"
             /\ AbsenteNeuve'
  <2> DEFINE r == guichets[g]
  <2>0. r \in Guichet /\ r.jour \in Jours /\ sessions[r.jour] \in Session
    BY <1>0 DEF IInv, TypeOK, TypeJournee, Guichet
  <2>1. CASE CreerJournee(g)
    <3> DEFINE n == [SessionAbsente EXCEPT !.etat = "ouverte", !.declare = TRUE, !.fond = r.montant]
    <3>1. n.etat = "ouverte"
      BY DEF SessionAbsente
    <3>2. sessions' = sessions \/ sessions' = [sessions EXCEPT ![r.jour] = n]
      BY <2>1 DEF CreerJournee
    <3> HIDE DEF n
    <3> QED BY <1>0, <3>1, <3>2 DEF IGuichet, AbsenteNeuve
  <2>2. CASE DeclarerFond(g)
    BY <1>0, <2>0, <2>2 DEF DeclarerFond, IGuichet, AbsenteNeuve, Session
  <2>3. CASE Rouvrir(g)
    BY <1>0, <2>0, <2>3 DEF Rouvrir, IGuichet, AbsenteNeuve, Session
  <2>4. CASE CorrigerFond(g)
    <3>1. sessions[r.jour].etat # "absente"
      BY <2>4 DEF CorrigerFond, IGuichet, VuExiste
    <3> QED BY <1>0, <2>0, <2>4, <3>1 DEF CorrigerFond, IGuichet, AbsenteNeuve, Session
  <2>5. CASE JournaliserFond(g) \/ SommerJournee(g)
    BY <1>1, <2>5 DEF JournaliserFond, SommerJournee
  <2>6. CASE FermerJournee(g)
    BY <1>0, <2>0, <2>6 DEF FermerJournee, IGuichet, AbsenteNeuve, Session
  <2> QED BY <1>3, <2>1, <2>2, <2>3, <2>4, <2>5, <2>6 DEF EtapeGuichet
<1>4. \/ UNCHANGED sessions
      \/ \E r \in Ids : AssurerSession(r)
      \/ \E g \in Guichets : EtapeGuichet(g)
  <2>1. CASE \/ \E g \in Guichets : GuichetOuvre(g)
             \/ NouveauJour \/ UNCHANGED vars
    BY <2>1 DEF GuichetOuvre, LireSession, NouveauJour, Minuit, vars, varsJournee
  <2> QED BY <2>1, PasSessions DEF Next, GuichetAvance
<1> QED BY <1>1, <1>2, <1>3, <1>4

(* A session handler reads its day in one step and keeps it to the end.     *)
LEMMA VuDuGuichet ==
  ASSUME IInv, IGuichet, [Next]_vars, NEW g \in Guichets,
         guichets'[g].etape \in {"lu", "somme"}
  PROVE  /\ guichets'[g].etape = "somme" => guichets'[g].geste = "fermer"
         /\ guichets'[g].geste = "fermer" => guichets'[g].vu.etat = "ouverte"
         /\ guichets'[g].vu.etat # "absente" => sessions[guichets'[g].jour].etat # "absente"
         /\ guichets'[g].jour \in Jours
<1>0. /\ aujourdhui \in Jours /\ sessions \in [Jours -> Session]
      /\ guichets \in [Guichets -> Guichet]
      /\ guichets[g] \in Guichet /\ guichets[g].jour \in Jours
  BY DEF IInv, TypeOK, TypeJournee, Guichet
<1>1. CASE guichets'[g] = guichets[g]
  BY <1>0, <1>1 DEF IGuichet, FermeVueOuverte, VuExiste
<1>2. CASE GuichetOuvre(g)
  <2>1. PICK geste \in Gestes : LireSession(g, geste)
    BY <1>2 DEF GuichetOuvre
  <2>2. PICK m \in Fonds :
          guichets' = [guichets EXCEPT ![g] =
                         [geste |-> geste, etape |-> "lu", jour |-> aujourdhui, montant |-> m,
                          vu |-> sessions[aujourdhui], theorique |-> 0]]
    BY <2>1 DEF LireSession
  <2> QED BY <1>0, <2>1, <2>2 DEF LireSession, Fermable
<1>3. ASSUME NEW e \in {"fini", "journal"}, Vers(g, e)
      PROVE  FALSE
  BY <1>0, <1>3 DEF Vers, Guichet
<1>4. CASE SommerJournee(g)
  <2>1. PICK t : guichets' = [guichets EXCEPT ![g] =
                                [guichets[g] EXCEPT !.theorique = t, !.etape = "somme"]]
    BY <1>4, Zenon DEF SommerJournee
  <2>2. /\ guichets'[g].vu = guichets[g].vu /\ guichets'[g].jour = guichets[g].jour
        /\ guichets'[g].geste = guichets[g].geste
    BY <1>0, <2>1 DEF Guichet
  <2>3. guichets[g].etape = "lu" /\ guichets[g].geste = "fermer"
    BY <1>4 DEF SommerJournee
  <2> QED BY <1>0, <2>2, <2>3 DEF IGuichet, FermeVueOuverte, VuExiste
<1>5. CASE EtapeGuichet(g)
  <2>1. SommerJournee(g) \/ Vers(g, "journal") \/ Vers(g, "fini")
    BY <1>5, Zenon DEF EtapeGuichet, CreerJournee, DeclarerFond, Rouvrir, CorrigerFond,
       JournaliserFond, FermerJournee
  <2> QED BY <1>3, <1>4, <2>1
<1>6. ASSUME NEW h \in Guichets, h # g, GuichetOuvre(h) \/ GuichetAvance(h)
      PROVE  guichets'[g] = guichets[g]
  BY <1>0, <1>6 DEF GuichetOuvre, GuichetAvance, LireSession, EtapeGuichet, CreerJournee,
     DeclarerFond, Rouvrir, CorrigerFond, JournaliserFond, SommerJournee, FermerJournee, Vers
<1>7. \/ UNCHANGED guichets
      \/ \E h \in Guichets : GuichetOuvre(h) \/ GuichetAvance(h)
  BY PasSessions DEF Next, NouveauJour, Minuit, vars, varsJournee
<1> QED BY <1>1, <1>2, <1>5, <1>6, <1>7 DEF GuichetAvance

LEMMA InvariantGuichet == Spec => []IGuichet
<1>1. Init => IGuichet
  BY DEF Init, InitJournee, IGuichet, FermeVueOuverte, VuExiste, AbsenteNeuve,
     GuichetLibre, SessionAbsente
<1>2. IInv /\ IGuichet /\ [Next]_vars => IGuichet'
  <2> SUFFICES ASSUME IInv, IGuichet, [Next]_vars PROVE IGuichet'
    OBVIOUS
  <2>1. /\ \A j \in Jours : sessions[j].etat # "absente" => sessions'[j].etat # "absente"
        /\ AbsenteNeuve'
    BY JourneesRestent
  <2>2. ASSUME NEW g \in Guichets
        PROVE  /\ guichets'[g].etape = "somme" => guichets'[g].geste = "fermer"
               /\ guichets'[g].etape \in {"lu", "somme"} /\ guichets'[g].geste = "fermer" =>
                    guichets'[g].vu.etat = "ouverte"
               /\ guichets'[g].etape \in {"lu", "somme"} /\ guichets'[g].vu.etat # "absente" =>
                    sessions'[guichets'[g].jour].etat # "absente"
    BY <2>1, VuDuGuichet
  <2> QED BY <2>1, <2>2 DEF IGuichet, FermeVueOuverte, VuExiste
<1> QED BY <1>1, <1>2, Invariant, PTL DEF Spec

(* What a step may do to the figures and to the fund of a day.              *)
LEMMA PasFigures ==
  ASSUME IInv, IGuichet, [Next]_vars, NEW j \in Jours
  PROVE  /\ /\ sessions[j].etat = "fermee" /\ sessions'[j].etat = "fermee"
            /\ \/ sessions'[j].theorique # sessions[j].theorique
               \/ sessions'[j].comptage # sessions[j].comptage
            => \E g \in Guichets :
                 /\ guichets[g].geste = "fermer" /\ guichets[g].vu.etat = "ouverte"
                 /\ guichets'[g] # guichets[g]
         /\ sessions[j].declare /\ sessions'[j].fond # sessions[j].fond =>
              \E g \in Guichets :
                /\ \/ guichets[g].geste = "corriger"
                   \/ guichets[g].geste = "ouvrir" /\ ~guichets[g].vu.declare
                /\ guichets'[g] # guichets[g]
<1>0. aujourdhui \in Jours /\ sessions \in [Jours -> Session] /\ sessions[j] \in Session
  BY DEF IInv, TypeOK, TypeJournee
<1>2. ASSUME NEW r \in Ids, AssurerSession(r)
      PROVE  \/ sessions'[j] = sessions[j]
             \/ ~sessions[j].declare /\ sessions[j].etat # "fermee"
  BY <1>0, <1>2 DEF AssurerSession, EnsureSession, IGuichet, AbsenteNeuve
<1>3. ASSUME NEW g \in Guichets, EtapeGuichet(g)
      PROVE  /\ /\ sessions[j].etat = "fermee" /\ sessions'[j].etat = "fermee"
                /\ \/ sessions'[j].theorique # sessions[j].theorique
                   \/ sessions'[j].comptage # sessions[j].comptage
                => /\ guichets[g].geste = "fermer" /\ guichets[g].vu.etat = "ouverte"
                   /\ guichets'[g] # guichets[g]
             /\ sessions[j].declare /\ sessions'[j].fond # sessions[j].fond =>
                  /\ \/ guichets[g].geste = "corriger"
                     \/ guichets[g].geste = "ouvrir" /\ ~guichets[g].vu.declare
                  /\ guichets'[g] # guichets[g]
  <2> DEFINE r == guichets[g]
  <2>0. /\ guichets \in [Guichets -> Guichet] /\ r \in Guichet /\ r.jour \in Jours
        /\ sessions[r.jour] \in Session
    BY <1>0 DEF IInv, TypeOK, TypeJournee, Guichet
  <2>1. CASE CreerJournee(g)
    BY <1>0, <2>0, <2>1 DEF CreerJournee, IGuichet, AbsenteNeuve
  <2>2. CASE DeclarerFond(g)
    <3>1. guichets'[g] # guichets[g]
      BY <2>0, <2>2 DEF DeclarerFond, Vers, Guichet
    <3> QED BY <1>0, <2>0, <2>2, <3>1 DEF DeclarerFond, Session
  <2>3. CASE Rouvrir(g)
    BY <1>0, <2>0, <2>3 DEF Rouvrir, Session
  <2>4. CASE CorrigerFond(g)
    <3>1. guichets'[g] # guichets[g]
      BY <2>0, <2>4 DEF CorrigerFond, Vers, Guichet
    <3>2. sessions'[j].theorique = sessions[j].theorique
            /\ sessions'[j].comptage = sessions[j].comptage
      BY <1>0, <2>0, <2>4 DEF CorrigerFond, Session
    <3> QED BY <3>1, <3>2, <2>4 DEF CorrigerFond
  <2>5. CASE JournaliserFond(g) \/ SommerJournee(g)
    BY <2>5 DEF JournaliserFond, SommerJournee
  <2>6. CASE FermerJournee(g)
    <3>1. r.geste = "fermer" /\ r.vu.etat = "ouverte"
      BY <2>6 DEF FermerJournee, IGuichet, FermeVueOuverte
    <3>2. sessions'[j].fond = sessions[j].fond
      BY <1>0, <2>0, <2>6 DEF FermerJournee, Session
    <3>3. guichets'[g] # guichets[g]
      BY <2>0, <2>6 DEF FermerJournee, Vers, Guichet
    <3> QED BY <3>1, <3>2, <3>3
  <2> QED BY <1>3, <2>1, <2>2, <2>3, <2>4, <2>5, <2>6 DEF EtapeGuichet
<1>4. \/ UNCHANGED sessions
      \/ \E r \in Ids : AssurerSession(r)
      \/ \E g \in Guichets : EtapeGuichet(g)
  <2>1. CASE \/ \E g \in Guichets : GuichetOuvre(g)
             \/ NouveauJour \/ UNCHANGED vars
    BY <2>1 DEF GuichetOuvre, LireSession, NouveauJour, Minuit, vars, varsJournee
  <2> QED BY <2>1, PasSessions DEF Next, GuichetAvance
<1>5. CASE \E r \in Ids : AssurerSession(r)
  BY <1>2, <1>5
<1>6. CASE \E g \in Guichets : EtapeGuichet(g)
  <2>1. PICK g \in Guichets : EtapeGuichet(g)
    BY <1>6
  <2> QED BY <1>3, <2>1, Zenon
<1>7. CASE UNCHANGED sessions
  BY <1>7
<1> QED BY <1>4, <1>5, <1>6, <1>7

(* CAI-10, with handlers that overlap: the figures of a closed day are      *)
(* overwritten only by a closing that had itself found the day open.        *)
THEOREM ConstatToujoursGrave == Spec => ConstatGrave
<1> DEFINE A == \A j \in Jours :
       /\ sessions[j].etat = "fermee" /\ sessions'[j].etat = "fermee"
       /\ \/ sessions'[j].theorique # sessions[j].theorique
          \/ sessions'[j].comptage # sessions[j].comptage
       => \E g \in Guichets :
            /\ guichets[g].geste = "fermer" /\ guichets[g].vu.etat = "ouverte"
            /\ guichets'[g] # guichets[g]
<1>1. IInv /\ IGuichet /\ [Next]_vars => [A]_vars
  BY PasFigures
<1> HIDE DEF A
<1>2. Spec => [][A]_vars
  BY <1>1, Invariant, InvariantGuichet, PTL DEF Spec
<1> QED BY <1>2 DEF ConstatGrave, A

(* ouvrirSession, case 3, with handlers that overlap: a declared fund is    *)
(* changed by PATCH session/fond, or by an opening that had read the day    *)
(* before its fund was declared, and by nothing else.                       *)
THEOREM FondToujoursConserve == Spec => FondDeclareConserve
<1> DEFINE A == \A j \in Jours :
       sessions[j].declare /\ sessions'[j].fond # sessions[j].fond =>
         \E g \in Guichets :
           /\ \/ guichets[g].geste = "corriger"
              \/ guichets[g].geste = "ouvrir" /\ ~guichets[g].vu.declare
           /\ guichets'[g] # guichets[g]
<1>1. IInv /\ IGuichet /\ [Next]_vars => [A]_vars
  BY PasFigures
<1> HIDE DEF A
<1>2. Spec => [][A]_vars
  BY <1>1, Invariant, InvariantGuichet, PTL DEF Spec
<1> QED BY <1>2 DEF FondDeclareConserve, A
=============================================================================

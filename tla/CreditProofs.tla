----------------------------- MODULE CreditProofs -----------------------------
(***************************************************************************)
(* For any set of requests, clients, keys and amounts: a credit never takes *)
(* more than its total, what it says was paid is in the till, a client owes *)
(* what her credits leave to pay, a paid credit has one settlement row, and *)
(* the transactions of Credit implement the debts of Dette.                 *)
(*                                                                          *)
(* A request writes at its COMMIT what it computed when it locked the       *)
(* credit.  The invariant says what holds in between: locks exclude, and    *)
(* what is left to pay cannot have changed (Paiement); a credit that is     *)
(* being created is seen by nobody (Creation); a key that passed the index  *)
(* is nobody else's (CleFraiche).                                           *)
(***************************************************************************)
EXTENDS Credit, SommesTheorems

Types ==
  /\ aujourdhui \in Jours
  /\ lignes \in [Ids -> Ligne]
  /\ req \in [Ids -> Requete]
  /\ credits \in [Ids -> Credit]
  /\ du \in [Clients -> Nat]
  /\ cle \in [Ids -> Cle]
  /\ audit \in [Ids -> SUBSET Ids]

Actif(r) == req[r].etape \notin {"libre", "fini"}

(* Request r holds the row of its credit.                                   *)
Tient(r) == req[r].etape \in {"client", "inserer", "valider"}

(* Request r will commit a payment: it passed the index.                    *)
Paiera(r) == req[r].etape = "valider" /\ req[r].montant > 0

(* What a creation in progress says of its credit.                          *)
Creation(r) == Cree(r) /\ Actif(r) =>
  /\ req[r].credit = r
  /\ req[r].total > 0 /\ req[r].montant <= req[r].total /\ req[r].reste = req[r].total
  /\ req[r].etape \notin {"commencer", "client"}

(* What a payment in progress knows of its credit.                          *)
Paiement(r) == ~Cree(r) /\ Actif(r) =>
  /\ req[r].etape # "upsert"
  /\ ReelCredit(req[r].credit) /\ req[r].client = credits[req[r].credit].client
  /\ req[r].montant > 0
  /\ Tient(r) => req[r].reste = Reste(req[r].credit) /\ req[r].montant <= req[r].reste

CleFraiche(r) ==
  /\ Actif(r) /\ req[r].montant > 0 => req[r].cle # AucuneCle
  /\ Paiera(r) => \A i \in Ids : Existe(i) => cle[i] # req[r].cle

(* A request that has not ended has written nothing.                        *)
Vierge(r) == req[r].etape # "fini" => audit[r] = {} /\ ~Existe(r) /\ ~ReelCredit(r)

Locale(r) == Creation(r) /\ Paiement(r) /\ CleFraiche(r) /\ Vierge(r)

Exclusion == \A r \in Ids, s \in Ids : r # s =>
  /\ Tient(r) /\ Tient(s) => req[r].credit # req[s].credit
  /\ Paiera(r) /\ Paiera(s) => req[r].cle # req[s].cle

(* A credit that does not exist owes nothing.                               *)
Etats == \A c \in Ids :
  IF ReelCredit(c) THEN credits[c].total > 0
  ELSE credits[c].total = 0 /\ credits[c].acompte = 0

Bilan == Etats /\ DetteBornee /\ EncaissementTrace /\ MontantDuExact /\ NatureJuste

ICredit == Types /\ Exclusion /\ Bilan /\ \A r \in Ids : Locale(r)

----------------------------------------------------------------------------
(* Steps that write only the record of one request.                         *)

tables == <<lignes, credits, du, cle, audit>>

LEMMA BilanInchange ==
  ASSUME Bilan, UNCHANGED tables
  PROVE  Bilan'
BY DEF Bilan, Etats, ReelCredit, Reste, DetteBornee, EncaissementTrace, Encaissements,
   MontantDuExact, NatureJuste, tables

(* Request r moves to q, and touches no table.                              *)
LEMMA PasRequete ==
  ASSUME ICredit, NEW r \in Ids, NEW q \in Requete, req' = [req EXCEPT ![r] = q],
         aujourdhui' \in Jours, UNCHANGED tables, Locale(r)',
         \A s \in Ids \ {r} : (Tient(r)' /\ Tient(s) => q.credit # req[s].credit)
                              /\ (Paiera(r)' /\ Paiera(s) => q.cle # req[s].cle)
  PROVE  ICredit'
<1>1. Types /\ Types'
  BY DEF ICredit, Types, tables
<1>2. \A s \in Ids : s # r => req'[s] = req[s]
  BY <1>1 DEF Types
<1>3. req'[r] = q
  BY <1>1 DEF Types
<1>4. \A s \in Ids : Locale(s)'
  <2> SUFFICES ASSUME NEW s \in Ids, s # r PROVE Locale(s)'
    OBVIOUS
  <2>1. Locale(s) /\ req'[s] = req[s]
    BY <1>2 DEF ICredit
  <2> QED
    BY <2>1 DEF Locale, Creation, Paiement, CleFraiche, Vierge, Cree, Actif, Tient, Paiera,
       ReelCredit, Reste, Existe, tables
<1>5. Exclusion'
  <2> SUFFICES ASSUME NEW a \in Ids, NEW b \in Ids, a # b
               PROVE  /\ Tient(a)' /\ Tient(b)' => req'[a].credit # req'[b].credit
                      /\ Paiera(a)' /\ Paiera(b)' => req'[a].cle # req'[b].cle
    BY DEF Exclusion
  <2>1. CASE a # r /\ b # r
    BY <2>1, <1>2 DEF ICredit, Exclusion, Tient, Paiera
  <2>2. CASE a = r
    BY <2>2, <1>2, <1>3 DEF Tient, Paiera
  <2>3. CASE b = r
    BY <2>3, <1>2, <1>3 DEF Tient, Paiera
  <2> QED
    BY <2>1, <2>2, <2>3
<1>6. Bilan'
  BY BilanInchange DEF ICredit
<1> QED
  BY <1>1, <1>4, <1>5, <1>6 DEF ICredit

(* The same, for a step to q that holds no credit.                          *)
LEMMA PasSansVerrou ==
  ASSUME ICredit, NEW r \in Ids, NEW q \in Requete, req' = [req EXCEPT ![r] = q],
         q.etape \notin {"client", "inserer", "valider"},
         aujourdhui' \in Jours, UNCHANGED tables, Locale(r)'
  PROVE  ICredit'
<1>1. req'[r] = q
  BY DEF ICredit, Types
<1> QED
  BY <1>1, PasRequete DEF Tient, Paiera

(* The fields of a request.                                                 *)
LEMMA Champs ==
  ASSUME ICredit, NEW r \in Ids
  PROVE  /\ req[r] \in Requete
         /\ req[r].credit \in Ids /\ req[r].client \in Clients
         /\ req[r].total \in Nat /\ req[r].montant \in Nat /\ req[r].reste \in Nat
         /\ req[r].cle \in Cle /\ req[r].jour \in Jours
         /\ credits[r] \in Credit
         /\ credits[r].client \in Clients /\ credits[r].total \in Nat /\ credits[r].acompte \in Nat
BY DEF ICredit, Types, Requete, Credit

LEMMA ChampsDe ==
  ASSUME NEW q \in Requete
  PROVE  /\ q.credit \in Ids /\ q.client \in Clients
         /\ q.total \in Nat /\ q.montant \in Nat /\ q.reste \in Nat
         /\ q.cle \in Cle /\ q.jour \in Jours
BY DEF Requete

LEMMA Demande ==
  ASSUME NEW op \in {"creer", "payer", "acompte"},
         NEW e \in {"upsert", "commencer", "controle"},
         NEW c \in Ids, NEW x \in Clients, NEW t \in Nat, NEW m \in Nat, NEW t2 \in Nat,
         NEW k \in Cle, NEW j \in Jours
  PROVE  [op |-> op, etape |-> e, credit |-> c, client |-> x, total |-> t, montant |-> m,
          reste |-> t2, jour |-> j, cle |-> k] \in Requete
BY DEF Requete

LEMMA CleDerivee ==
  ASSUME NEW route \in {"creation", "reglement", "acompte"}, NEW k \in Cles \cup {SansCle},
         NEW c \in Ids
  PROVE  Derivee(route, k, c) \in Cle /\ Derivee(route, k, c) # AucuneCle
<1>1. (IF k = SansCle THEN c ELSE k) \in Cles \cup Ids
  BY CreditConstantes
<1> DEFINE de == IF k = SansCle THEN c ELSE k
           x == [route |-> route, de |-> de]
<1>2. Derivee(route, k, c) = x
  BY DEF Derivee
<1>3. de \in Cles \cup Ids
  BY <1>1
<1> HIDE DEF de
<1>4. x \in Cle
  BY <1>3 DEF Cle
<1>5. x.route # "aucune"
  OBVIOUS
<1>6. AucuneCle.route = "aucune"
  BY DEF AucuneCle
<1>7. x # AucuneCle
  BY <1>5, <1>6
<1> QED
  BY <1>2, <1>4, <1>7

LEMMA PasRecevoirCreation ==
  ASSUME ICredit, NEW r \in Ids, RecevoirCreation(r)
  PROVE  ICredit'
<1>1. PICK x \in Clients, t \in Totaux, m \in Versements \cup {0}, k \in Cles \cup {SansCle} :
        /\ m <= t
        /\ req' = [req EXCEPT ![r] =
             [op |-> "creer", etape |-> "upsert", credit |-> r, client |-> x, total |-> t,
              montant |-> m, reste |-> t, jour |-> aujourdhui,
              cle |-> IF m > 0 THEN Derivee("creation", k, r) ELSE AucuneCle]]
  BY DEF RecevoirCreation
<1> DEFINE kk == IF m > 0 THEN Derivee("creation", k, r) ELSE AucuneCle
           q == [op |-> "creer", etape |-> "upsert", credit |-> r, client |-> x, total |-> t,
                 montant |-> m, reste |-> t, jour |-> aujourdhui, cle |-> kk]
<1>2. AucuneCle \in Cle
  BY DEF AucuneCle, Cle
<1>3. kk \in Cle /\ (m > 0 => kk # AucuneCle)
  BY <1>2, CleDerivee
<1>4. t \in Nat /\ t > 0 /\ m \in Nat
  BY CreditConstantes
<1>5. aujourdhui \in Jours
  BY DEF ICredit, Types
<1>t. UNCHANGED tables /\ aujourdhui' = aujourdhui
  BY DEF RecevoirCreation, tables, varsJournee
<1>v. Locale(r) /\ req[r].etape = "libre"
  BY DEF ICredit, RecevoirCreation, Demarre
<1>w. ~ReelCredit(r)
  BY <1>v DEF Locale, Vierge
<1> HIDE DEF kk
<1>6. q \in Requete
  BY <1>3, <1>4, <1>5, Demande
<1>7. req'[r] = q
  BY <1>1 DEF ICredit, Types, kk
<1>8. Locale(r)'
  BY <1>1, <1>3, <1>4, <1>7, <1>t, <1>v, <1>w DEF Locale, Creation, Paiement, CleFraiche, Vierge,
     Cree, Actif, Tient, Paiera, ReelCredit, Existe, tables
<1> QED
  BY <1>1, <1>5, <1>6, <1>8, <1>t, PasSansVerrou DEF kk

LEMMA PasLireReste ==
  ASSUME ICredit, NEW r \in Ids, LireReste(r)
  PROVE  ICredit'
<1>1. PICK c \in Ids, k \in Cles \cup {SansCle} :
        /\ ReelCredit(c) /\ Reste(c) > 0
        /\ req' = [req EXCEPT ![r] =
             [op |-> "payer", etape |-> "commencer", credit |-> c,
              client |-> credits[c].client, total |-> 0, montant |-> Reste(c),
              reste |-> 0, jour |-> aujourdhui, cle |-> Derivee("reglement", k, c)]]
  BY DEF LireReste
<1> DEFINE q == [op |-> "payer", etape |-> "commencer", credit |-> c,
                 client |-> credits[c].client, total |-> 0, montant |-> Reste(c),
                 reste |-> 0, jour |-> aujourdhui, cle |-> Derivee("reglement", k, c)]
<1>2. Reste(c) \in Nat /\ Reste(c) > 0 /\ credits[c].client \in Clients
  BY <1>1, Champs DEF Reste
<1>3. Derivee("reglement", k, c) \in Cle /\ Derivee("reglement", k, c) # AucuneCle
  BY CleDerivee
<1>5. aujourdhui \in Jours
  BY DEF ICredit, Types
<1>t. UNCHANGED tables /\ aujourdhui' = aujourdhui
  BY DEF LireReste, tables, varsJournee
<1>v. Locale(r) /\ req[r].etape = "libre"
  BY DEF ICredit, LireReste, Demarre
<1>6. q \in Requete
  BY <1>2, <1>3, <1>5, Demande
<1>7. req'[r] = q
  BY <1>1 DEF ICredit, Types
<1>8. Locale(r)'
  BY <1>1, <1>2, <1>3, <1>7, <1>t, <1>v DEF Locale, Creation, Paiement, CleFraiche, Vierge,
     Cree, Actif, Tient, Paiera, ReelCredit, Existe, tables
<1> QED
  BY <1>1, <1>5, <1>6, <1>8, <1>t, PasSansVerrou

LEMMA PasRecevoirAcompte ==
  ASSUME ICredit, NEW r \in Ids, RecevoirAcompte(r)
  PROVE  ICredit'
<1>1. PICK c \in Ids, k \in Cles, m \in Versements :
        /\ ReelCredit(c)
        /\ req' = [req EXCEPT ![r] =
             [op |-> "acompte", etape |-> "controle", credit |-> c,
              client |-> credits[c].client, total |-> 0, montant |-> m,
              reste |-> 0, jour |-> aujourdhui, cle |-> Derivee("acompte", k, c)]]
  BY DEF RecevoirAcompte
<1> DEFINE q == [op |-> "acompte", etape |-> "controle", credit |-> c,
                 client |-> credits[c].client, total |-> 0, montant |-> m,
                 reste |-> 0, jour |-> aujourdhui, cle |-> Derivee("acompte", k, c)]
<1>2. m \in Nat /\ m > 0 /\ credits[c].client \in Clients
  BY Champs, CreditConstantes
<1>3. Derivee("acompte", k, c) \in Cle /\ Derivee("acompte", k, c) # AucuneCle
  BY CleDerivee
<1>5. aujourdhui \in Jours
  BY DEF ICredit, Types
<1>t. UNCHANGED tables /\ aujourdhui' = aujourdhui
  BY DEF RecevoirAcompte, tables, varsJournee
<1>v. Locale(r) /\ req[r].etape = "libre"
  BY DEF ICredit, RecevoirAcompte, Demarre
<1>6. q \in Requete
  BY <1>2, <1>3, <1>5, Demande
<1>7. req'[r] = q
  BY <1>1 DEF ICredit, Types
<1>8. Locale(r)'
  BY <1>1, <1>2, <1>3, <1>7, <1>t, <1>v DEF Locale, Creation, Paiement, CleFraiche, Vierge,
     Cree, Actif, Tient, Paiera, ReelCredit, Existe, tables
<1> QED
  BY <1>1, <1>5, <1>6, <1>8, <1>t, PasSansVerrou

(* The steps that only move on, and give up.                                *)
LEMMA EtapeType ==
  ASSUME NEW q \in Requete,
         NEW e \in {"libre", "upsert", "commencer", "controle", "credit", "client",
                     "inserer", "valider", "fini"}
  PROVE  [q EXCEPT !.etape = e] \in Requete
BY Zenon DEF Requete

LEMMA DateType ==
  ASSUME NEW q \in Requete, NEW j \in Jours
  PROVE  [q EXCEPT !.etape = "controle", !.jour = j] \in Requete
BY SMT, Zenon DEF Requete

LEMMA PasAbandonner ==
  ASSUME ICredit, NEW r \in Ids, NEW e, e = "fini", req[r].etape # "libre", Etape(r, e),
         UNCHANGED <<varsJournee, credits, du, cle, audit>>
  PROVE  ICredit'
<1> DEFINE q == [req[r] EXCEPT !.etape = "fini"]
<1>1. req' = [req EXCEPT ![r] = q]
  BY Champs DEF Etape
<1>2. q \in Requete
  BY Champs, EtapeType
<1>3. req'[r] = q /\ q.etape = "fini"
  BY <1>1, Champs DEF ICredit, Types, Requete
<1>4. Locale(r)'
  BY <1>3 DEF Locale, Creation, Paiement, CleFraiche, Vierge, Actif, Paiera
<1>5. aujourdhui' \in Jours /\ UNCHANGED tables
  BY DEF ICredit, Types, tables, varsJournee
<1> QED
  BY <1>1, <1>2, <1>3, <1>4, <1>5, PasSansVerrou

LEMMA PasInsererDette ==
  ASSUME ICredit, NEW r \in Ids, InsererDette(r)
  PROVE  ICredit'
<1> DEFINE q == [req[r] EXCEPT !.etape = IF req[r].montant > 0 THEN "controle" ELSE "valider"]
<1>1. req' = [req EXCEPT ![r] = q]
  BY Champs DEF Etape, InsererDette
<1>2. q \in Requete
  BY Champs, EtapeType
<1>3. /\ req'[r] = q /\ q.etape = IF req[r].montant > 0 THEN "controle" ELSE "valider"
      /\ q.op = req[r].op /\ q.credit = req[r].credit /\ q.total = req[r].total
      /\ q.montant = req[r].montant /\ q.reste = req[r].reste /\ q.cle = req[r].cle
  BY <1>1, Champs DEF ICredit, Types, Requete
<1>5. aujourdhui' \in Jours /\ UNCHANGED tables
  BY DEF ICredit, Types, tables, varsJournee, InsererDette
<1>v. Locale(r) /\ req[r].etape = "upsert" /\ Cree(r)
  BY DEF ICredit, InsererDette, Locale, Paiement, Actif
<1> HIDE DEF q
<1>4. Locale(r)'
  BY <1>3, <1>5, <1>v, Champs DEF Locale, Creation, Paiement, CleFraiche, Vierge, Actif, Paiera, Cree,
     ReelCredit, Existe, tables
<1>6. q.credit = r /\ ~Paiera(r)'
  BY <1>3, <1>v DEF Locale, Creation, Actif, Paiera
<1>7. \A s \in Ids \ {r} : Tient(s) => r # req[s].credit
  BY <1>v DEF ICredit, Locale, Creation, Paiement, Vierge, Tient, Actif
<1> QED
  BY <1>1, <1>2, <1>4, <1>5, <1>6, <1>7, PasRequete

LEMMA PasCommencer ==
  ASSUME ICredit, NEW r \in Ids, CommencerReglement(r)
  PROVE  ICredit'
<1> DEFINE q == [req[r] EXCEPT !.etape = "controle", !.jour = aujourdhui]
<1>1. req' = [req EXCEPT ![r] = q]
  BY Champs DEF CommencerReglement
<1>5. aujourdhui \in Jours /\ aujourdhui' = aujourdhui /\ UNCHANGED tables
  BY DEF ICredit, Types, tables, varsJournee, CommencerReglement
<1>2. q \in Requete
  BY <1>5, Champs, DateType
<1>3. /\ req'[r] = q /\ q.etape = "controle"
      /\ q.op = req[r].op /\ q.credit = req[r].credit /\ q.client = req[r].client
      /\ q.montant = req[r].montant /\ q.cle = req[r].cle
  BY <1>1, Champs DEF ICredit, Types, Requete
<1>v. Locale(r) /\ req[r].etape = "commencer" /\ ~Cree(r)
  BY DEF ICredit, CommencerReglement, Locale, Creation, Actif
<1> HIDE DEF q
<1>4. Locale(r)'
  BY <1>3, <1>5, <1>v DEF Locale, Creation, Paiement, CleFraiche, Vierge, Actif, Paiera, Cree,
     ReelCredit, Existe, Tient, tables
<1> QED
  BY <1>1, <1>2, <1>3, <1>4, <1>5, PasSansVerrou

LEMMA PasControler ==
  ASSUME ICredit, NEW r \in Ids, ControlerJournee(r)
  PROVE  ICredit'
<1>1. CASE JourneeFermee
  BY <1>1, PasAbandonner DEF ControlerJournee
<1>2. CASE ~JourneeFermee
  <2> DEFINE q == [req[r] EXCEPT !.etape = "credit"]
  <2>1. req' = [req EXCEPT ![r] = q]
    BY <1>2, Champs DEF Etape, ControlerJournee
  <2>2. q \in Requete
    BY Champs, EtapeType
  <2>3. /\ req'[r] = q /\ q.etape = "credit" /\ q.op = req[r].op
        /\ q.credit = req[r].credit /\ q.client = req[r].client /\ q.total = req[r].total
        /\ q.montant = req[r].montant /\ q.reste = req[r].reste /\ q.cle = req[r].cle
    BY <2>1, Champs DEF ICredit, Types, Requete
  <2>5. aujourdhui' \in Jours /\ UNCHANGED tables
    BY DEF ICredit, Types, tables, varsJournee, ControlerJournee
  <2>v. Locale(r) /\ req[r].etape = "controle"
    BY DEF ICredit, ControlerJournee
  <2> HIDE DEF q
  <2>4. Locale(r)'
    BY <2>3, <2>5, <2>v DEF Locale, Creation, Paiement, CleFraiche, Vierge, Actif, Paiera, Cree,
       ReelCredit, Existe, Tient, tables
  <2> QED
    BY <2>1, <2>2, <2>3, <2>4, <2>5, PasSansVerrou
<1> QED
  BY <1>1, <1>2

LEMMA RejeuType ==
  ASSUME NEW q \in Requete, NEW e \in {"valider", "fini"}
  PROVE  [q EXCEPT !.montant = 0, !.cle = AucuneCle, !.etape = e] \in Requete
<1>1. AucuneCle \in Cle
  BY DEF AucuneCle, Cle
<1> QED
  BY <1>1, SMT, Zenon DEF Requete

LEMMA ResteType ==
  ASSUME NEW q \in Requete, NEW n \in Nat, NEW e \in {"inserer", "client", "fini"}
  PROVE  [q EXCEPT !.reste = n, !.etape = e] \in Requete
BY SMT, Zenon DEF Requete

(* A key that is recorded: a creation keeps its debt, a payment ends.       *)
LEMMA PasRejeu ==
  ASSUME ICredit, NEW r \in Ids, VerrouillerCredit(r), CleConnue(req[r].cle)
  PROVE  ICredit'
<1> DEFINE e == IF Cree(r) THEN "valider" ELSE "fini"
           q == [req[r] EXCEPT !.montant = 0, !.cle = AucuneCle, !.etape = e]
<1>1. req' = [req EXCEPT ![r] = q]
  BY Champs DEF VerrouillerCredit
<1>2. q \in Requete
  BY Champs, RejeuType
<1>3. /\ req'[r] = q /\ q.etape = e /\ q.op = req[r].op /\ q.credit = req[r].credit
      /\ q.total = req[r].total /\ q.montant = 0 /\ q.reste = req[r].reste
  BY <1>1, Champs DEF ICredit, Types, Requete
<1>5. aujourdhui' \in Jours /\ UNCHANGED tables
  BY DEF ICredit, Types, tables, varsJournee, VerrouillerCredit
<1>v. Locale(r) /\ req[r].etape = "credit"
  BY DEF ICredit, VerrouillerCredit
<1> HIDE DEF q
<1>4. Locale(r)'
  BY <1>3, <1>5, <1>v, Champs DEF Locale, Creation, Paiement, CleFraiche, Vierge, Actif, Paiera, Cree,
     ReelCredit, Existe, Tient, tables
<1>6. ~Paiera(r)' /\ (Tient(r)' => q.credit = r)
  BY <1>3, <1>v DEF Locale, Creation, Actif, Paiera, Tient
<1>7. \A s \in Ids \ {r} : Tient(s) => r # req[s].credit
  BY <1>v DEF ICredit, Locale, Creation, Paiement, Vierge, Tient, Actif
<1> QED
  BY <1>1, <1>2, <1>4, <1>5, <1>6, <1>7, PasRequete

LEMMA PasVerrouillerCredit ==
  ASSUME ICredit, NEW r \in Ids, VerrouillerCredit(r), ~CleConnue(req[r].cle)
  PROVE  ICredit'
<1> DEFINE reste == IF Cree(r) THEN req[r].total ELSE Reste(req[r].credit)
           suite == IF Cree(r) THEN "inserer" ELSE "client"
           e == IF Acceptable(req[r].montant, reste) THEN suite ELSE "fini"
           q == [req[r] EXCEPT !.reste = reste, !.etape = e]
<1>v. Locale(r) /\ req[r].etape = "credit"
  BY DEF ICredit, VerrouillerCredit
<1>1. req' = [req EXCEPT ![r] = q]
  BY Champs DEF VerrouillerCredit
<1>0. reste \in Nat
  <2>1. CASE Cree(r)
    BY <2>1, Champs
  <2>2. CASE ~Cree(r)
    <3>1. PICK c \in Ids : c = req[r].credit /\ ReelCredit(c)
      BY <1>v, <2>2, Champs DEF Locale, Paiement, Actif
    <3>2. credits[c].acompte <= credits[c].total
      BY <3>1 DEF ICredit, Bilan, DetteBornee
    <3> QED
      BY <2>2, <3>1, <3>2, Champs DEF Reste
  <2> QED
    BY <2>1, <2>2
<1> HIDE DEF reste
<1>2. q \in Requete
  BY <1>0, Champs, ResteType
<1>3. /\ req'[r] = q /\ q.etape = e /\ q.op = req[r].op
      /\ q.credit = req[r].credit /\ q.client = req[r].client /\ q.total = req[r].total
      /\ q.montant = req[r].montant /\ q.reste = reste /\ q.cle = req[r].cle
  BY <1>1, Champs DEF ICredit, Types, Requete
<1>5. aujourdhui' \in Jours /\ UNCHANGED tables
  BY DEF ICredit, Types, tables, varsJournee, VerrouillerCredit
<1>m. e # "fini" => req[r].montant <= reste
  BY DEF Acceptable
<1> HIDE DEF q
<1>4. Locale(r)'
  <2>1. CASE Cree(r)
    BY <2>1, <1>3, <1>5, <1>v DEF Locale, Creation, Paiement, CleFraiche, Vierge, Actif, Paiera,
       Cree, ReelCredit, Existe, Tient, tables, reste
  <2>2. CASE ~Cree(r)
    BY <2>2, <1>3, <1>5, <1>m, <1>v DEF Locale, Creation, Paiement, CleFraiche, Vierge, Actif, Paiera,
       Cree, ReelCredit, Existe, Tient, Reste, tables, reste
  <2> QED
    BY <2>1, <2>2
<1>6. ~Paiera(r)'
  BY <1>3 DEF Paiera
<1>7. \A s \in Ids \ {r} : Tient(s) => q.credit # req[s].credit
  <2>1. CASE Cree(r)
    <3>1. q.credit = r
      BY <2>1, <1>3, <1>v DEF Locale, Creation, Actif
    <3> QED
      BY <3>1, <1>v DEF ICredit, Locale, Creation, Paiement, Vierge, Tient, Actif
  <2>2. CASE ~Cree(r)
    BY <2>2, <1>3 DEF VerrouillerCredit, CreditLibre, Tient
  <2> QED
    BY <2>1, <2>2
<1> QED
  BY <1>1, <1>2, <1>4, <1>5, <1>6, <1>7, PasRequete

LEMMA PasVerrouillerClient ==
  ASSUME ICredit, NEW r \in Ids, VerrouillerClient(r)
  PROVE  ICredit'
<1> DEFINE q == [req[r] EXCEPT !.etape = "inserer"]
<1>1. req' = [req EXCEPT ![r] = q]
  BY Champs DEF Etape, VerrouillerClient
<1>2. q \in Requete
  BY Champs, EtapeType
<1>3. /\ req'[r] = q /\ q.etape = "inserer" /\ q.op = req[r].op
      /\ q.credit = req[r].credit /\ q.client = req[r].client
      /\ q.montant = req[r].montant /\ q.reste = req[r].reste /\ q.cle = req[r].cle
  BY <1>1, Champs DEF ICredit, Types, Requete
<1>5. aujourdhui' \in Jours /\ UNCHANGED tables
  BY DEF ICredit, Types, tables, varsJournee, VerrouillerClient
<1>v. Locale(r) /\ req[r].etape = "client" /\ ~Cree(r)
  BY DEF ICredit, VerrouillerClient, Locale, Creation, Actif
<1> HIDE DEF q
<1>4. Locale(r)'
  BY <1>3, <1>5, <1>v DEF Locale, Creation, Paiement, CleFraiche, Vierge, Actif, Paiera, Cree,
     ReelCredit, Existe, Tient, Reste, tables
<1>6. ~Paiera(r)'
  BY <1>3 DEF Paiera
<1>7. \A s \in Ids \ {r} : Tient(s) => q.credit # req[s].credit
  BY <1>3, <1>v DEF ICredit, Exclusion, Tient
<1> QED
  BY <1>1, <1>2, <1>4, <1>5, <1>6, <1>7, PasRequete

LEMMA PasInsererLigne ==
  ASSUME ICredit, NEW r \in Ids, InsererLigne(r)
  PROVE  ICredit'
<1>1. CASE CleConnue(req[r].cle)
  BY <1>1, PasAbandonner DEF InsererLigne
<1>2. CASE ~CleConnue(req[r].cle)
  <2> DEFINE q == [req[r] EXCEPT !.etape = "valider"]
  <2>1. req' = [req EXCEPT ![r] = q]
    BY <1>2, Champs DEF Etape, InsererLigne
  <2>2. q \in Requete
    BY Champs, EtapeType
  <2>3. /\ req'[r] = q /\ q.etape = "valider" /\ q.op = req[r].op
        /\ q.credit = req[r].credit /\ q.client = req[r].client /\ q.total = req[r].total
        /\ q.montant = req[r].montant /\ q.reste = req[r].reste /\ q.cle = req[r].cle
    BY <2>1, Champs DEF ICredit, Types, Requete
  <2>5. aujourdhui' \in Jours /\ UNCHANGED tables
    BY DEF ICredit, Types, tables, varsJournee, InsererLigne
  <2>v. Locale(r) /\ req[r].etape = "inserer"
    BY DEF ICredit, InsererLigne
  <2> HIDE DEF q
  <2>6. req[r].montant > 0 => \A i \in Ids : Existe(i) => cle[i] # req[r].cle
    BY <1>2, <2>v DEF Locale, CleFraiche, Actif, CleConnue
  <2>4. Locale(r)'
    BY <2>3, <2>5, <2>6, <2>v DEF Locale, Creation, Paiement, CleFraiche, Vierge, Actif, Paiera, Cree,
       ReelCredit, Existe, Tient, Reste, tables
  <2>7. \A s \in Ids \ {r} : Tient(s) => q.credit # req[s].credit
    BY <2>3, <2>v DEF ICredit, Exclusion, Tient
  <2>8. \A s \in Ids \ {r} : Paiera(s) => q.cle # req[s].cle
    BY <2>3 DEF InsererLigne, CleEnAttente, Paiera
  <2> QED
    BY <2>1, <2>2, <2>4, <2>5, <2>7, <2>8, PasRequete
<1> QED
  BY <1>1, <1>2

----------------------------------------------------------------------------
(* The COMMIT.                                                              *)

(* Total and cash of the credit of request r before its payment.            *)
TotalDe(r) == IF Cree(r) THEN req[r].total ELSE credits[req[r].credit].total
AcompteDe(r) == IF Cree(r) THEN 0 ELSE credits[req[r].credit].acompte

LEMMA Avant ==
  ASSUME ICredit, NEW r \in Ids, req[r].etape = "valider"
  PROVE  /\ Locale(r) /\ Tient(r)
         /\ Cree(r) => req[r].credit = r /\ ~ReelCredit(r) /\ credits[r].total = 0
                          /\ credits[r].acompte = 0
         /\ ~Cree(r) => ReelCredit(req[r].credit) /\ req[r].client = credits[req[r].credit].client
                          /\ req[r].montant > 0 /\ credits[req[r].credit].etat = "en_cours"
         /\ TotalDe(r) \in Nat /\ TotalDe(r) > 0 /\ AcompteDe(r) \in Nat
         /\ AcompteDe(r) = credits[req[r].credit].acompte
         /\ req[r].montant <= TotalDe(r) - AcompteDe(r)
         /\ req[r].reste = TotalDe(r) - AcompteDe(r)
<1>1. Locale(r) /\ Actif(r) /\ Tient(r)
  BY DEF ICredit, Actif, Tient
<1>2. CASE Cree(r)
  <2>1. /\ req[r].credit = r /\ ~ReelCredit(r)
        /\ req[r].total > 0 /\ req[r].montant <= req[r].total /\ req[r].reste = req[r].total
    BY <1>1, <1>2 DEF Locale, Creation, Vierge, Actif
  <2>2. credits[r].total = 0 /\ credits[r].acompte = 0
    BY <2>1 DEF ICredit, Bilan, Etats
  <2> QED
    BY <1>1, <1>2, <2>1, <2>2, Champs DEF TotalDe, AcompteDe
<1>3. CASE ~Cree(r)
  <2>1. PICK c \in Ids : c = req[r].credit
    BY Champs
  <2>2. /\ ReelCredit(c) /\ req[r].client = credits[c].client
        /\ req[r].montant > 0 /\ req[r].reste = Reste(c) /\ req[r].montant <= req[r].reste
    BY <1>1, <1>3, <2>1 DEF Locale, Paiement
  <2>3. credits[c].total > 0 /\ (credits[c].etat = "paye" <=> credits[c].acompte = credits[c].total)
    BY <2>2 DEF ICredit, Bilan, Etats, DetteBornee
  <2>4. credits[c].etat \in {"absent", "en_cours", "paye"}
        /\ credits[c].total \in Nat /\ credits[c].acompte \in Nat
    BY DEF ICredit, Types, Credit
  <2>5. req[r].montant \in Nat
    BY Champs
  <2>6. credits[c].etat = "en_cours"
    BY <2>2, <2>3, <2>4, <2>5 DEF Reste, ReelCredit
  <2> QED
    BY <1>1, <1>3, <2>1, <2>2, <2>3, <2>4, <2>6 DEF TotalDe, AcompteDe, Reste
<1> QED
  BY <1>2, <1>3

LEMMA Apres ==
  ASSUME ICredit, NEW r \in Ids, req[r].etape = "valider"
  PROVE  /\ CreditApres(r) \in Credit
         /\ CreditApres(r).client = req[r].client
         /\ CreditApres(r).total = TotalDe(r)
         /\ CreditApres(r).acompte = AcompteDe(r) + req[r].montant
         /\ CreditApres(r).etat # "absent"
         /\ CreditApres(r).etat = "paye" <=> AcompteDe(r) + req[r].montant = TotalDe(r)
<1>a. /\ TotalDe(r) \in Nat /\ TotalDe(r) > 0 /\ AcompteDe(r) \in Nat
      /\ req[r].montant \in Nat /\ req[r].client \in Clients
      /\ req[r].reste = TotalDe(r) - AcompteDe(r)
  BY Avant, Champs
<1> DEFINE avant == IF Cree(r)
                    THEN [etat |-> "en_cours", client |-> req[r].client,
                          total |-> req[r].total, acompte |-> 0]
                    ELSE credits[req[r].credit]
<1>1. /\ avant \in Credit /\ avant.client = req[r].client
      /\ avant.total = TotalDe(r) /\ avant.acompte = AcompteDe(r)
      /\ avant.etat = "en_cours"
  <2>1. CASE Cree(r)
    BY <2>1, Champs DEF TotalDe, AcompteDe, Credit
  <2>2. CASE ~Cree(r)
    <3>1. credits[req[r].credit] \in Credit
      BY Champs
    <3> QED
      BY <2>2, <3>1, Avant DEF TotalDe, AcompteDe
  <2> QED
    BY <2>1, <2>2
<1>2. CreditApres(r) = IF req[r].montant = 0 THEN avant
                       ELSE [avant EXCEPT !.acompte = @ + req[r].montant,
                                          !.etat = IF Solde(r) THEN "paye" ELSE @]
  BY DEF CreditApres
<1>s. Solde(r) <=> AcompteDe(r) + req[r].montant = TotalDe(r)
  BY <1>a DEF Solde
<1> HIDE DEF avant
<1>3. CASE req[r].montant = 0
  <2>1. CreditApres(r) = avant /\ ~Solde(r)
    BY <1>2, <1>3, <1>s, <1>a, Avant, <1>1
  <2> QED
    BY <2>1, <1>1, <1>3, <1>a, <1>s
<1>4. CASE req[r].montant # 0
  <2> DEFINE apres == [etat |-> IF Solde(r) THEN "paye" ELSE "en_cours",
                       client |-> req[r].client, total |-> TotalDe(r),
                       acompte |-> AcompteDe(r) + req[r].montant]
  <2>1. CreditApres(r) = [avant EXCEPT !.acompte = avant.acompte + req[r].montant,
                                       !.etat = IF Solde(r) THEN "paye" ELSE avant.etat]
    BY <1>2, <1>4, <1>1 DEF Credit
  <2>2. CreditApres(r) = apres
    BY <2>1, <1>1 DEF Credit
  <2>3. apres \in Credit
    BY <1>a DEF Credit
  <2> QED
    BY <2>2, <2>3, <1>s
<1> QED
  BY <1>3, <1>4

LEMMA LigneType ==
  ASSUME NEW n \in Entrees, NEW m \in Nat, NEW j \in Jours
  PROVE  /\ NouvelleLigne(n, m, j) \in Ligne
         /\ NouvelleLigne(n, m, j).type = n /\ NouvelleLigne(n, m, j).montant = m
BY DEF NouvelleLigne, Ligne, Natures, Entrees, Statuts

LEMMA DuType ==
  ASSUME ICredit, NEW r \in Ids
  PROVE  DuApres(r) \in Nat
<1> DEFINE n == du[req[r].client] + IF Cree(r) THEN req[r].total ELSE 0
<1>1. n \in Nat
  BY Champs DEF ICredit, Types
<1>2. DuApres(r) = IF n > req[r].montant THEN n - req[r].montant ELSE 0
  BY DEF DuApres
<1> HIDE DEF n
<1> QED
  BY <1>1, <1>2, Champs

(* What the COMMIT of request r does to the tables.                         *)
LEMMA Commit ==
  ASSUME ICredit, NEW r \in Ids, Valider(r)
  PROVE  /\ Types'
         /\ req'[r].etape = "fini" /\ req'[r].op = req[r].op
         /\ \A s \in Ids \ {r} : req'[s] = req[s]
         /\ credits'[req[r].credit] = CreditApres(r)
         /\ \A c \in Ids \ {req[r].credit} : credits'[c] = credits[c]
         /\ \A s \in Ids \ {r} : lignes'[s] = lignes[s] /\ cle'[s] = cle[s]
                                  /\ audit'[s] = audit[s]
         /\ req[r].montant = 0 => UNCHANGED <<lignes, cle, audit>>
         /\ req[r].montant > 0 =>
              /\ lignes'[r].montant = req[r].montant /\ cle'[r] = req[r].cle
              /\ lignes'[r].type = Nature(r)
              /\ audit'[r] = {req[r].credit}
         /\ du' = [du EXCEPT ![req[r].client] = DuApres(r)]
<1>t. Types
  BY DEF ICredit
<1>v. req[r].etape = "valider"
  BY DEF Valider
<1> DEFINE q == [req[r] EXCEPT !.etape = "fini"]
<1>1. req' = [req EXCEPT ![r] = q]
  BY Champs DEF Etape, Valider
<1>2. q \in Requete /\ q.etape = "fini" /\ q.op = req[r].op
  <2>1. q \in Requete
    BY Champs, EtapeType
  <2>2. q.etape = "fini" /\ q.op = req[r].op
    BY Champs DEF Requete
  <2> QED
    BY <2>1, <2>2
<1> HIDE DEF q
<1>3. /\ req' \in [Ids -> Requete] /\ req'[r] = q
      /\ \A s \in Ids \ {r} : req'[s] = req[s]
  BY <1>1, <1>2, <1>t DEF Types
<1>4. /\ credits' \in [Ids -> Credit] /\ credits'[req[r].credit] = CreditApres(r)
      /\ \A c \in Ids \ {req[r].credit} : credits'[c] = credits[c]
  BY <1>t, <1>v, Apres, Champs DEF Types, Valider
<1>5. du' = [du EXCEPT ![req[r].client] = DuApres(r)] /\ du' \in [Clients -> Nat]
  BY <1>t, Champs, DuType DEF Types, Valider
<1>6. aujourdhui' \in Jours
  BY <1>t DEF Types, Valider
<1>n. Nature(r) \in Entrees
  BY DEF Nature, Entrees
<1>7. CASE req[r].montant = 0
  <2>1. UNCHANGED <<lignes, cle, audit>>
    BY <1>7 DEF Valider
  <2> QED
    BY <2>1, <1>2, <1>3, <1>4, <1>5, <1>6, <1>7, <1>t DEF Types
<1>8. CASE req[r].montant > 0
  <2> DEFINE l == NouvelleLigne(Nature(r), req[r].montant, req[r].jour)
  <2>1. /\ lignes' = [lignes EXCEPT ![r] = l]
        /\ cle' = [cle EXCEPT ![r] = req[r].cle]
        /\ audit' = [audit EXCEPT ![r] = {req[r].credit}]
    BY <1>8 DEF Valider
  <2>2. l \in Ligne /\ l.montant = req[r].montant /\ l.type = Nature(r)
    BY <1>n, Champs, LigneType
  <2>3. {req[r].credit} \in SUBSET Ids /\ req[r].cle \in Cle
    BY Champs
  <2> HIDE DEF l
  <2>4. /\ lignes' \in [Ids -> Ligne] /\ cle' \in [Ids -> Cle] /\ audit' \in [Ids -> SUBSET Ids]
        /\ lignes'[r] = l /\ cle'[r] = req[r].cle /\ audit'[r] = {req[r].credit}
        /\ \A s \in Ids \ {r} : lignes'[s] = lignes[s] /\ cle'[s] = cle[s] /\ audit'[s] = audit[s]
    BY <2>1, <2>2, <2>3, <1>t DEF Types
  <2> QED
    BY <2>2, <2>4, <1>2, <1>3, <1>4, <1>5, <1>6, <1>8 DEF Types
<1> QED
  BY <1>7, <1>8, Champs

(* The requests that remain, after the COMMIT of request r.                 *)
LEMMA ResteEnOrdre ==
  ASSUME ICredit, NEW r \in Ids, Valider(r)
  PROVE  Exclusion' /\ \A s \in Ids : Locale(s)'
<1>v. req[r].etape = "valider"
  BY DEF Valider
<1>c. PICK c \in Ids : c = req[r].credit
  BY Champs
<1>r. ReelCredit(c)' /\ CreditApres(r).client = req[r].client
  BY <1>c, <1>v, Commit, Apres DEF ReelCredit
<1>1. Exclusion'
  BY Commit DEF ICredit, Exclusion, Tient, Paiera
<1>2. Locale(r)'
  BY Commit DEF Locale, Creation, Paiement, CleFraiche, Vierge, Actif, Paiera
<1>3. ASSUME NEW s \in Ids, s # r PROVE Locale(s)'
  <2>0. /\ Locale(s) /\ req'[s] = req[s] /\ lignes'[s] = lignes[s] /\ audit'[s] = audit[s]
        /\ \A d \in Ids \ {c} : credits'[d] = credits[d]
    BY <1>c, <1>3, Commit DEF ICredit
  <2>1. req[s].etape # "fini" => c # s
    BY <1>c, <1>v, Avant, <2>0, <1>3 DEF Locale, Vierge
  <2>2. Vierge(s)' /\ Creation(s)'
    BY <2>0, <2>1 DEF Locale, Vierge, Creation, Existe, ReelCredit, Cree, Actif
  <2>3. Paiement(s)'
    <3> SUFFICES ASSUME ~Cree(s), Actif(s) PROVE Paiement(s)'
      BY <2>0 DEF Paiement, Cree, Actif
    <3>1. PICK d \in Ids : d = req[s].credit
      BY Champs
    <3>2. /\ req[s].etape # "upsert" /\ ReelCredit(d) /\ req[s].client = credits[d].client
          /\ req[s].montant > 0
          /\ Tient(s) => req[s].reste = Reste(d) /\ req[s].montant <= req[s].reste
      BY <2>0, <3>1 DEF Locale, Paiement
    <3>3. CASE d # c
      BY <2>0, <3>1, <3>2, <3>3 DEF Paiement, Cree, Actif, ReelCredit, Reste, Tient
    <3>4. CASE d = c
      <4>1. ~Tient(s)
        BY <1>c, <1>3, <1>v, <3>1, <3>4 DEF ICredit, Exclusion, Tient
      <4>2. ~Cree(r)
        BY <1>c, <1>v, <3>2, <3>4, Avant
      <4>3. credits'[c].client = credits[c].client
        BY <1>c, <1>r, <1>v, <4>2, Avant, Commit
      <4> QED
        BY <1>r, <2>0, <3>1, <3>2, <3>4, <4>1, <4>3 DEF Paiement, Cree, Actif, Tient
    <3> QED
      BY <3>3, <3>4
  <2>4. CleFraiche(s)'
    <3>1. Actif(s)' /\ req'[s].montant > 0 => req'[s].cle # AucuneCle
      BY <2>0 DEF Locale, CleFraiche, Actif
    <3>2. ASSUME Paiera(s)', NEW i \in Ids, Existe(i)' PROVE cle'[i] # req'[s].cle
      <4>1. Paiera(s)
        BY <2>0, <3>2 DEF Paiera
      <4>2. CASE i = r /\ req[r].montant > 0
        BY <1>3, <1>v, <2>0, <4>1, <4>2, Commit DEF ICredit, Exclusion, Paiera
      <4>3. CASE i = r /\ req[r].montant = 0
        <5>1. ~Existe(r)
          BY <1>v, Avant DEF Locale, Vierge
        <5> QED
          BY <3>2, <4>3, <5>1, Commit DEF Existe
      <4>4. CASE i # r
        <5>1. Existe(i) /\ cle'[i] = cle[i]
          BY <3>2, <4>4, Commit DEF Existe
        <5> QED
          BY <2>0, <4>1, <5>1 DEF Locale, CleFraiche
      <4> QED
        BY <4>2, <4>3, <4>4, Champs
    <3> QED
      BY <3>1, <3>2 DEF CleFraiche
  <2> QED
    BY <2>2, <2>3, <2>4 DEF Locale
<1> QED
  BY <1>1, <1>2, <1>3

LEMMA CommitEtats ==
  ASSUME ICredit, NEW r \in Ids, Valider(r)
  PROVE  Etats' /\ DetteBornee'
<1>v. req[r].etape = "valider"
  BY DEF Valider
<1>c. PICK c \in Ids : c = req[r].credit
  BY Champs
<1>1. /\ TotalDe(r) \in Nat /\ TotalDe(r) > 0 /\ AcompteDe(r) \in Nat
      /\ req[r].montant <= TotalDe(r) - AcompteDe(r) /\ req[r].montant \in Nat
  BY <1>v, Avant, Champs
<1>2. /\ credits'[c].total = TotalDe(r) /\ credits'[c].acompte = AcompteDe(r) + req[r].montant
      /\ credits'[c].etat # "absent"
      /\ credits'[c].etat = "paye" <=> AcompteDe(r) + req[r].montant = TotalDe(r)
  BY <1>c, <1>v, Apres, Commit
<1>3. \A d \in Ids \ {c} : credits'[d] = credits[d]
  BY <1>c, Commit
<1>4. Etats'
  BY <1>1, <1>2, <1>3 DEF ICredit, Bilan, Etats, ReelCredit
<1>5. DetteBornee'
  BY <1>1, <1>2, <1>3 DEF ICredit, Bilan, DetteBornee, ReelCredit
<1> QED
  BY <1>4, <1>5

(* What credit c adds to what client x owes.                                *)
Part(x) == [c \in Ids |-> IF credits[c].client = x THEN Reste(c) ELSE 0]

LEMMA PartType ==
  ASSUME ICredit, NEW x \in Clients
  PROVE  \A c \in Ids : Part(x)[c] \in Nat
<1> SUFFICES ASSUME NEW c \in Ids PROVE Part(x)[c] \in Nat
  OBVIOUS
<1>1. credits[c].total \in Nat /\ credits[c].acompte \in Nat
  BY Champs
<1>2. credits[c].acompte <= credits[c].total
  BY <1>1 DEF ICredit, Bilan, Etats, DetteBornee
<1> QED
  BY <1>1, <1>2 DEF Part, Reste

LEMMA CommitDu ==
  ASSUME ICredit, NEW r \in Ids, Valider(r)
  PROVE  MontantDuExact'
<1>v. req[r].etape = "valider"
  BY DEF Valider
<1>c. PICK c \in Ids : c = req[r].credit
  BY Champs
<1>x. PICK x \in Clients : x = req[r].client
  BY Champs
<1>1. /\ TotalDe(r) \in Nat /\ AcompteDe(r) \in Nat
      /\ req[r].montant <= TotalDe(r) - AcompteDe(r) /\ req[r].montant \in Nat
  BY <1>v, Avant, Champs
<1>2. /\ credits'[c].client = x /\ credits'[c].total = TotalDe(r)
      /\ credits'[c].acompte = AcompteDe(r) + req[r].montant
      /\ \A d \in Ids \ {c} : credits'[d] = credits[d]
  BY <1>c, <1>x, <1>v, Apres, Commit
<1>3. \A y \in Clients : du[y] = SumFunctionOnSet(Part(y), Ids) /\ du[y] \in Nat
  BY DEF ICredit, Types, Bilan, MontantDuExact, Part
<1>4. \A y \in Clients : Part(y)'[c] = IF y = x THEN TotalDe(r) - AcompteDe(r) - req[r].montant ELSE 0
  BY <1>1, <1>2 DEF Part, Reste
<1>5. \A y \in Clients : \A d \in Ids \ {c} : Part(y)'[d] = Part(y)[d]
  BY <1>2 DEF Part, Reste
<1>6. \A y \in Clients :
        Part(y)[c] = IF y = x /\ ~Cree(r) THEN TotalDe(r) - AcompteDe(r) ELSE 0
  <2>1. CASE Cree(r)
    <3>1. Reste(c) = 0
      BY <1>c, <1>v, <2>1, Avant DEF Reste
    <3> QED
      BY <2>1, <3>1 DEF Part
  <2>2. CASE ~Cree(r)
    BY <1>c, <1>x, <1>v, <2>2, Avant DEF Part, Reste, TotalDe, AcompteDe
  <2> QED
    BY <2>1, <2>2
<1>7. \A y \in Clients : SumFunctionOnSet(Part(y)', Ids) = du[y] - Part(y)[c] + Part(y)'[c]
  <2> SUFFICES ASSUME NEW y \in Clients
               PROVE  SumFunctionOnSet(Part(y)', Ids) = du[y] - Part(y)[c] + Part(y)'[c]
    OBVIOUS
  <2>1. \A d \in Ids : Part(y)[d] \in Int
    BY PartType
  <2>2. Part(y)'[c] \in Int
    BY <1>1, <1>4
  <2> QED
    BY <1>3, <1>5, <2>1, <2>2, IdsFini, SommeMiseAJour
<1>8. \A y \in Clients : Part(y)[c] <= du[y]
  BY <1>3, IdsFini, PartType, SommePositive
<1>9. \A y \in Clients : du'[y] = du[y] - Part(y)[c] + Part(y)'[c]
  <2>0. du' = [du EXCEPT ![x] = DuApres(r)] /\ du \in [Clients -> Nat]
    BY <1>x, Commit DEF ICredit, Types
  <2>1. ASSUME NEW y \in Clients, y # x PROVE du'[y] = du[y] - Part(y)[c] + Part(y)'[c]
    BY <1>3, <1>4, <1>6, <2>0, <2>1
  <2>2. du'[x] = DuApres(r) /\ du[x] \in Nat
    BY <2>0
  <2>3. CASE Cree(r)
    <3>1. /\ Part(x)[c] = 0 /\ Part(x)'[c] = TotalDe(r) - AcompteDe(r) - req[r].montant
          /\ TotalDe(r) = req[r].total /\ AcompteDe(r) = 0
      BY <1>4, <1>6, <2>3 DEF TotalDe, AcompteDe
    <3>2. DuApres(r) = IF du[x] + req[r].total > req[r].montant
                       THEN du[x] + req[r].total - req[r].montant ELSE 0
      BY <1>x, <1>1, <2>2, <2>3, Champs DEF DuApres
    <3>3. du'[x] = du[x] - Part(x)[c] + Part(x)'[c]
      BY <1>1, <2>2, <3>1, <3>2
    <3> QED
      BY <2>1, <3>3
  <2>4. CASE ~Cree(r)
    <3>1. /\ Part(x)[c] = TotalDe(r) - AcompteDe(r)
          /\ Part(x)'[c] = TotalDe(r) - AcompteDe(r) - req[r].montant
          /\ Part(x)[c] <= du[x]
      BY <1>4, <1>6, <1>8, <2>4
    <3>2. DuApres(r) = IF du[x] + 0 > req[r].montant THEN du[x] + 0 - req[r].montant ELSE 0
      BY <1>x, <1>1, <2>2, <2>4 DEF DuApres
    <3>3. du'[x] = du[x] - Part(x)[c] + Part(x)'[c]
      BY <1>1, <2>2, <3>1, <3>2
    <3> QED
      BY <2>1, <3>3
  <2> QED
    BY <2>3, <2>4
<1>10. \A y \in Clients : du'[y] = SumFunctionOnSet(Part(y)', Ids)
  BY <1>7, <1>9
<1> QED
  BY <1>10 DEF MontantDuExact, Part

Montants == [i \in Ids |-> lignes[i].montant]

Reglements(d) == {i \in Encaissements(d) : lignes[i].type = "reglement_credit"}

(* The rows of each credit, after the COMMIT of request r.                  *)
LEMMA CommitLignes ==
  ASSUME ICredit, NEW r \in Ids, Valider(r)
  PROVE  EncaissementTrace' /\ NatureJuste'
<1>v. req[r].etape = "valider"
  BY DEF Valider
<1>c. PICK c \in Ids : c = req[r].credit
  BY Champs
<1>1. \A d \in Ids : r \notin Encaissements(d)
  BY <1>v, Avant DEF Locale, Vierge, Encaissements
<1>2. /\ TotalDe(r) \in Nat /\ TotalDe(r) > 0 /\ AcompteDe(r) \in Nat
      /\ req[r].montant <= TotalDe(r) - AcompteDe(r) /\ req[r].montant \in Nat
      /\ AcompteDe(r) = credits[c].acompte /\ credits[c].etat # "paye"
      /\ req[r].montant = 0 => AcompteDe(r) = 0
      /\ Solde(r) <=> AcompteDe(r) + req[r].montant = TotalDe(r)
  BY <1>c, <1>v, Avant, Champs DEF Solde, ReelCredit, AcompteDe
<1>3. /\ credits'[c].acompte = credits[c].acompte + req[r].montant
      /\ credits'[c].etat = "paye" <=> Solde(r)
      /\ \A d \in Ids \ {c} : credits'[d] = credits[d]
  BY <1>2, <1>c, <1>v, Apres, Commit
<1>4. \A d \in Ids : /\ credits[d].acompte = SumFunctionOnSet(Montants, Encaissements(d))
                     /\ Cardinality(Reglements(d)) = IF credits[d].etat = "paye" THEN 1 ELSE 0
  BY DEF ICredit, Bilan, EncaissementTrace, NatureJuste, Montants, Reglements
<1>5. ASSUME NEW d \in Ids, Encaissements(d)' = Encaissements(d), credits'[d].acompte = credits[d].acompte,
             credits'[d].etat = "paye" <=> credits[d].etat = "paye"
      PROVE  /\ credits'[d].acompte = SumFunctionOnSet(Montants', Encaissements(d)')
             /\ Cardinality(Reglements(d)') = IF credits'[d].etat = "paye" THEN 1 ELSE 0
  <2>0. \A i \in Encaissements(d) : i \in Ids /\ i # r
    BY <1>1 DEF Encaissements
  <2>1. \A i \in Encaissements(d) : Montants'[i] = Montants[i] /\ lignes'[i] = lignes[i]
    BY <2>0, Commit DEF Montants
  <2>2. IsFiniteSet(Encaissements(d))
    BY IdsFini, FS_Subset DEF Encaissements
  <2>3. SumFunctionOnSet(Montants', Encaissements(d)) = SumFunctionOnSet(Montants, Encaissements(d))
    BY <2>1, <2>2, SommeCongruence
  <2>4. Reglements(d)' = Reglements(d)
    BY <1>5, <2>1 DEF Reglements
  <2> QED
    BY <1>4, <1>5, <2>3, <2>4
<1>6. CASE req[r].montant = 0
  <2>1. \A d \in Ids : Encaissements(d)' = Encaissements(d)
    BY <1>6, Commit DEF Encaissements
  <2>2. \A d \in Ids : credits'[d].acompte = credits[d].acompte
                       /\ (credits'[d].etat = "paye" <=> credits[d].etat = "paye")
    <3>1. /\ credits'[c].acompte = credits[c].acompte
          /\ credits'[c].etat = "paye" <=> credits[c].etat = "paye"
      BY <1>2, <1>3, <1>6
    <3>2. \A d \in Ids \ {c} : credits'[d] = credits[d]
      BY <1>3
    <3> QED BY <3>1, <3>2
  <2>3. \A d \in Ids : /\ credits'[d].acompte = SumFunctionOnSet(Montants', Encaissements(d)')
                       /\ Cardinality(Reglements(d)') = IF credits'[d].etat = "paye" THEN 1 ELSE 0
    BY <1>5, <2>1, <2>2
  <2> QED
    BY <2>3 DEF EncaissementTrace, NatureJuste, Montants, Reglements
<1>7. CASE req[r].montant > 0
  <2>1. /\ audit'[r] = {c} /\ lignes'[r].montant = req[r].montant
        /\ lignes'[r].type = Nature(r)
        /\ \A i \in Ids \ {r} : audit'[i] = audit[i] /\ lignes'[i] = lignes[i]
    BY <1>7, <1>c, Commit
  <2>2. \A d \in Ids \ {c} : Encaissements(d)' = Encaissements(d)
    BY <1>1, <2>1 DEF Encaissements
  <2>3. Encaissements(c)' = Encaissements(c) \cup {r}
    BY <1>1, <2>1 DEF Encaissements
  <2>4. IsFiniteSet(Encaissements(c)) /\ IsFiniteSet(Encaissements(c)')
    BY <2>3, IdsFini, FS_Subset DEF Encaissements
  <2>5. \A i \in Encaissements(c)' : Montants'[i] \in Int
    BY <2>3, Commit DEF Encaissements, Types, Ligne, Montants
  <2>6. Montants'[r] = req[r].montant
    BY <2>1 DEF Montants
  <2>7. \A i \in Encaissements(c) : Montants'[i] = Montants[i] /\ lignes'[i] = lignes[i]
    BY <1>1, <2>1 DEF Encaissements, Montants
  <2>8. SumFunctionOnSet(Montants', Encaissements(c)') =
          req[r].montant + SumFunctionOnSet(Montants', Encaissements(c))
    <3>1. r \in Encaissements(c)' /\ Encaissements(c)' \ {r} = Encaissements(c)
      BY <1>1, <2>3
    <3> QED
      BY <2>4, <2>5, <2>6, <3>1, SommeRetire
  <2>9. SumFunctionOnSet(Montants', Encaissements(c)) = SumFunctionOnSet(Montants, Encaissements(c))
    BY <2>4, <2>7, SommeCongruence
  <2>10. credits'[c].acompte = SumFunctionOnSet(Montants', Encaissements(c)')
    <3> QED
      BY <1>2, <1>3, <1>4, <2>8, <2>9
  <2>11. Cardinality(Reglements(c)') = IF credits'[c].etat = "paye" THEN 1 ELSE 0
    <3>1. IsFiniteSet(Reglements(c)) /\ r \notin Reglements(c)
      BY <1>1, <2>4, FS_Subset DEF Reglements
    <3>2. Cardinality(Reglements(c)) = 0
      BY <1>2, <1>4
    <3>3. CASE Solde(r)
      <4>1. Reglements(c)' = Reglements(c) \cup {r}
        BY <2>1, <2>3, <2>7, <3>3 DEF Nature, Reglements
      <4>2. Cardinality(Reglements(c) \cup {r}) = Cardinality(Reglements(c)) + 1
        BY <3>1, FS_AddElement
      <4> QED
        BY <1>3, <3>2, <3>3, <4>1, <4>2
    <3>4. CASE ~Solde(r)
      <4>1. Reglements(c)' = Reglements(c)
        BY <2>1, <2>3, <2>7, <3>4 DEF Nature, Reglements
      <4> QED
        BY <1>3, <3>2, <3>4, <4>1
    <3> QED
      BY <3>3, <3>4
  <2>12. \A d \in Ids : /\ credits'[d].acompte = SumFunctionOnSet(Montants', Encaissements(d)')
                        /\ Cardinality(Reglements(d)') = IF credits'[d].etat = "paye" THEN 1 ELSE 0
    <3> QED
      BY <1>3, <1>5, <2>2, <2>10, <2>11
  <2> QED
    BY <2>12 DEF EncaissementTrace, NatureJuste, Montants, Reglements
<1> QED
  BY <1>2, <1>6, <1>7

LEMMA PasValider ==
  ASSUME ICredit, NEW r \in Ids, Valider(r)
  PROVE  ICredit'
BY Commit, ResteEnOrdre, CommitEtats, CommitDu, CommitLignes DEF ICredit, Bilan

----------------------------------------------------------------------------
(* The invariant.                                                           *)

(* Midnight and the session routes touch no credit.                         *)
LEMMA PasAilleurs ==
  ASSUME ICredit, UNCHANGED <<req, tables>>, aujourdhui' \in Jours
  PROVE  ICredit'
<1>1. Types' /\ Bilan'
  BY BilanInchange DEF ICredit, Types, tables
<1>2. Exclusion' /\ \A r \in Ids : Locale(r)'
  BY DEF ICredit, Exclusion, Locale, Creation, Paiement, CleFraiche, Vierge, Cree, Actif, Tient,
     Paiera, ReelCredit, Reste, Existe, tables
<1> QED
  BY <1>1, <1>2 DEF ICredit

LEMMA InitCredit == Init => ICredit
<1> SUFFICES ASSUME Init PROVE ICredit
  OBVIOUS
<1>1. (CHOOSE x \in Clients : TRUE) \in Clients
  BY CreditConstantes
<1>2. 1 \in Jours
  BY NbJoursNat DEF Jours
<1>3. AucuneCle \in Cle
  BY DEF AucuneCle, Cle
<1>4. Types
  <2>1. LigneAbsente \in Ligne
    BY <1>2 DEF LigneAbsente, Ligne, Statuts
  <2>2. \A r \in Ids : req[r] \in Requete
    BY <1>1, <1>2, <1>3 DEF Init, Requete
  <2>3. req \in [Ids -> Requete]
    BY <2>2 DEF Init
  <2>4. credits \in [Ids -> Credit]
    BY <1>1 DEF Init, Credit
  <2> QED
    BY <1>2, <1>3, <2>1, <2>3, <2>4 DEF Init, InitJournee, Types
<1>5. Exclusion
  BY DEF Init, Exclusion, Tient, Paiera
<1>6. \A r \in Ids : Locale(r)
  BY DEF Init, InitJournee, Locale, Creation, Paiement, CleFraiche, Vierge, Cree, Actif, Paiera,
     ReelCredit, Existe, LigneAbsente
<1>7. Etats /\ DetteBornee
  BY DEF Init, Etats, DetteBornee, ReelCredit
<1>8. \A c \in Ids : Encaissements(c) = {}
  BY DEF Init, Encaissements
<1>9. EncaissementTrace
  BY <1>8, SommeVide DEF Init, EncaissementTrace
<1>10. NatureJuste
  <2> SUFFICES ASSUME NEW c \in Ids PROVE Cardinality(Reglements(c)) = 0
    BY DEF Init, NatureJuste, Reglements
  <2>1. Reglements(c) = {}
    BY <1>8 DEF Reglements
  <2> QED
    BY <2>1, FS_EmptySet
<1>11. MontantDuExact
  <2> SUFFICES ASSUME NEW x \in Clients PROVE SumFunctionOnSet(Part(x), Ids) = 0
    BY DEF Init, MontantDuExact, Part
  <2>1. \A c \in Ids : Part(x)[c] = 0
    BY DEF Init, Part, Reste
  <2> QED
    BY <2>1, IdsFini, SommeNulle
<1> QED
  BY <1>4, <1>5, <1>6, <1>7, <1>9, <1>10, <1>11 DEF ICredit, Bilan

LEMMA PasCredit == ICredit /\ [Next]_vars => ICredit'
<1> SUFFICES ASSUME ICredit, [Next]_vars PROVE ICredit'
  OBVIOUS
<1>0. aujourdhui \in Jours
  BY DEF ICredit, Types
<1>1. CASE UNCHANGED vars
  BY <1>0, <1>1, PasAilleurs DEF vars, varsJournee, varsCredit, tables
<1>2. CASE \E r \in Ids : Requetes(r) \/ Avance(r) \/ Abandonner(r)
  <2>1. PICK r \in Ids : Requetes(r) \/ Avance(r) \/ Abandonner(r)
    BY <1>2
  <2>2. CASE Requetes(r)
    BY <2>2, PasRecevoirCreation, PasLireReste, PasRecevoirAcompte DEF Requetes
  <2>3. CASE Avance(r)
    <3>1. CASE VerrouillerCredit(r)
      BY <3>1, PasRejeu, PasVerrouillerCredit
    <3> QED
      BY <2>3, <3>1, PasInsererDette, PasCommencer, PasControler, PasVerrouillerClient,
         PasInsererLigne, PasValider DEF Avance
  <2>4. CASE Abandonner(r)
    BY <2>4, PasAbandonner DEF Abandonner
  <2> QED
    BY <2>1, <2>2, <2>3, <2>4
<1>3. CASE \E g \in Guichets : GuichetOuvre(g) \/ GuichetAvance(g)
  <2>1. PICK g \in Guichets : GuichetOuvre(g) \/ GuichetAvance(g)
    BY <1>3
  <2>2. UNCHANGED varsCredit /\ UNCHANGED <<aujourdhui, lignes>>
    BY <2>1 DEF GuichetOuvre, GuichetAvance, LireSession, EtapeGuichet, CreerJournee, DeclarerFond,
       Rouvrir, CorrigerFond, JournaliserFond, SommerJournee, FermerJournee
  <2> QED
    BY <1>0, <2>2, PasAilleurs DEF varsCredit, tables
<1>4. CASE NouveauJour
  <2>1. aujourdhui' \in Jours
    BY <1>0, <1>4, NbJoursNat DEF NouveauJour, Minuit, Jours
  <2> QED
    BY <1>4, <2>1, PasAilleurs DEF NouveauJour, Minuit, varsCredit, tables
<1> QED
  BY <1>1, <1>2, <1>3, <1>4 DEF Next

(* ICredit holds in every reachable state of the three credit routes.       *)
THEOREM Invariant == Spec => []ICredit
BY InitCredit, PasCredit, PTL DEF Spec

(* encaisserCredit never takes more than the debt, and the status of a      *)
(* credit agrees with what was paid.                                        *)
THEOREM DetteToujoursBornee == Spec => []DetteBornee
<1>1. ICredit => DetteBornee
  BY DEF ICredit, Bilan
<1> QED
  BY <1>1, Invariant, PTL

(* acompte_verse is the sum of the rows of the credit in caisse_transactions.*)
THEOREM EncaissementToujoursTrace == Spec => []EncaissementTrace
<1>1. ICredit => EncaissementTrace
  BY DEF ICredit, Bilan
<1> QED
  BY <1>1, Invariant, PTL

(* clients.montant_du is what the credits of the client leave to pay.       *)
THEOREM DuToujoursExact == Spec => []MontantDuExact
<1>1. ICredit => MontantDuExact
  BY DEF ICredit, Bilan
<1> QED
  BY <1>1, Invariant, PTL

(* One reglement_credit row for a paid credit, none before: the result      *)
(* decides, not the route.                                                  *)
THEOREM NatureToujoursJuste == Spec => []NatureJuste
<1>1. ICredit => NatureJuste
  BY DEF ICredit, Bilan
<1> QED
  BY <1>1, Invariant, PTL

----------------------------------------------------------------------------
(* Refinement of Dette.                                                     *)

Total == [c \in Ids |-> credits[c].total]
Verse == [c \in Ids |-> credits[c].acompte]
Depenses == {cle[r] : r \in {i \in Ids : Existe(i)}}

LEMMA InitPromesse == Init => Promesse!InitDette
<1> SUFFICES ASSUME Init PROVE Promesse!InitDette
  OBVIOUS
<1>1. \A i \in Ids : ~Existe(i)
  BY DEF Init, InitJournee, Existe, LigneAbsente
<1>2. Depenses = {}
  BY <1>1 DEF Depenses
<1>3. Total = [c \in Ids |-> 0] /\ Verse = [c \in Ids |-> 0]
  BY DEF Init, Total, Verse
<1> QED
  BY <1>2, <1>3 DEF Promesse!InitDette, Total, Verse, Depenses

(* Dette!Naitre, over the tables.                                           *)
NaitreDe(c) ==
  /\ Total[c] = 0
  /\ Total'[c] \in Nat \ {0}
  /\ Total' = [Total EXCEPT ![c] = Total'[c]]
  /\ \/ UNCHANGED <<Verse, Depenses>>
     \/ \E m \in 1..Total'[c], k \in Cle \ Depenses :
          Verse' = [Verse EXCEPT ![c] = m] /\ Depenses' = Depenses \cup {k}

LEMMA NaitrePromesse ==
  ASSUME NEW c \in Ids, NaitreDe(c)
  PROVE  Promesse!Naitre(c)
BY DEF NaitreDe, Promesse!Naitre, Total, Verse, Depenses

LEMMA ValiderPromesse ==
  ASSUME ICredit, NEW r \in Ids, Valider(r)
  PROVE  Promesse!NextDette
<1>v. req[r].etape = "valider"
  BY DEF Valider
<1>c. PICK c \in Ids : c = req[r].credit
  BY Champs
<1>m. PICK m \in Nat : m = req[r].montant
  BY Champs
<1>1. /\ TotalDe(r) \in Nat /\ TotalDe(r) > 0 /\ AcompteDe(r) \in Nat
      /\ AcompteDe(r) = credits[c].acompte
      /\ m <= TotalDe(r) - AcompteDe(r)
  BY <1>c, <1>m, <1>v, Avant
<1>2. /\ credits'[c].total = TotalDe(r) /\ credits'[c].acompte = credits[c].acompte + m
      /\ \A d \in Ids \ {c} : credits'[d] = credits[d]
  BY <1>1, <1>c, <1>m, <1>v, Apres, Commit
<1>3. Total' = [Total EXCEPT ![c] = Total'[c]] /\ Total'[c] = TotalDe(r)
  BY <1>2 DEF Total
<1>4. Verse' = [Verse EXCEPT ![c] = Verse[c] + m] /\ Verse[c] = AcompteDe(r)
  BY <1>1, <1>2 DEF Verse
<1>5. CASE m = 0
  <2>1. Depenses' = Depenses
    BY <1>5, <1>m, Commit DEF Depenses, Existe
  <2>2. Cree(r) /\ Total[c] = 0
    BY <1>5, <1>m, <1>c, <1>v, Avant DEF Total
  <2>3. Verse' = Verse
    <3>1. Verse'[c] = Verse[c]
      BY <1>1, <1>2, <1>5 DEF Verse
    <3> QED
      BY <1>2, <3>1 DEF Verse
  <2>4. Promesse!Naitre(c)
    <3>1. NaitreDe(c)
      BY <1>1, <1>3, <2>1, <2>2, <2>3 DEF NaitreDe
    <3> QED
      BY <3>1, NaitrePromesse
  <2> QED
    BY <2>4 DEF Promesse!NextDette
<1>6. CASE m > 0
  <2>1. PICK k \in Cle : k = req[r].cle
    BY Champs
  <2>2. k \notin Depenses
    BY <1>6, <1>m, <1>v, <2>1, Avant DEF Locale, CleFraiche, Paiera, Depenses
  <2>3. lignes'[r].type # "absente"
    BY <1>6, <1>m, Commit DEF Nature
  <2>4. ~Existe(r)
    BY <1>v, Avant DEF Locale, Vierge
  <2>5. Depenses' = Depenses \cup {k}
    BY <1>6, <1>m, <2>1, <2>3, <2>4, Commit DEF Depenses, Existe
  <2>6. CASE Cree(r)
    <3>1. Total[c] = 0 /\ Verse[c] = 0 /\ m \in 1..TotalDe(r)
      BY <1>c, <1>v, <1>1, <1>4, <1>6, <2>6, Avant DEF Total, AcompteDe
    <3>2. Verse' = [Verse EXCEPT ![c] = m]
      BY <1>4, <3>1
    <3>5. m \in 1..Total'[c] /\ k \in Cle \ Depenses /\ Total'[c] \in Nat \ {0}
      BY <1>1, <1>3, <2>2, <3>1
    <3>3. NaitreDe(c)
      BY <1>3, <2>5, <3>1, <3>2, <3>5, Zenon DEF NaitreDe
    <3>4. Promesse!Naitre(c)
      BY <3>3, NaitrePromesse
    <3> QED
      BY <3>4 DEF Promesse!NextDette
  <2>7. CASE ~Cree(r)
    <3>1. Total[c] = TotalDe(r) /\ m \in 1..(Total[c] - Verse[c])
      BY <1>c, <1>1, <1>4, <1>6, <2>7 DEF Total, TotalDe
    <3>2. Total' = Total
      BY <1>3, <3>1 DEF Total
    <3>3. Promesse!Encaisser(c)
      BY <1>1, <1>4, <2>2, <2>5, <3>1, <3>2 DEF Promesse!Encaisser, Promesse!Reste, Total, Verse,
         Depenses
    <3> QED
      BY <3>3 DEF Promesse!NextDette
  <2> QED
    BY <2>6, <2>7
<1> QED
  BY <1>5, <1>6

LEMMA PromessePas == ICredit /\ [Next]_vars => [Promesse!NextDette]_<<Total, Verse, Depenses>>
<1> SUFFICES ASSUME ICredit, [Next]_vars
             PROVE  Promesse!NextDette \/ UNCHANGED <<Total, Verse, Depenses>>
  OBVIOUS
<1>1. ASSUME UNCHANGED <<lignes, credits, cle>> PROVE UNCHANGED <<Total, Verse, Depenses>>
  BY <1>1 DEF Total, Verse, Depenses, Existe
<1>2. CASE UNCHANGED vars
  BY <1>1, <1>2 DEF vars, varsJournee, varsCredit
<1>3. CASE \E r \in Ids : Requetes(r) \/ Avance(r) \/ Abandonner(r)
  <2>1. PICK r \in Ids : Requetes(r) \/ Avance(r) \/ Abandonner(r)
    BY <1>3
  <2>2. CASE Valider(r)
    BY <2>2, ValiderPromesse
  <2>3. CASE ~Valider(r)
    BY <1>1, <2>1, <2>3 DEF Requetes, Avance, RecevoirCreation, LireReste, RecevoirAcompte,
       InsererDette, CommencerReglement, ControlerJournee, VerrouillerCredit, VerrouillerClient,
       InsererLigne, Abandonner, varsJournee
  <2> QED
    BY <2>2, <2>3
<1>4. CASE \E g \in Guichets : GuichetOuvre(g) \/ GuichetAvance(g)
  <2>1. UNCHANGED <<lignes, credits, cle>>
    BY <1>4 DEF GuichetOuvre, GuichetAvance, LireSession, EtapeGuichet, CreerJournee, DeclarerFond,
       Rouvrir, CorrigerFond, JournaliserFond, SommerJournee, FermerJournee, varsCredit
  <2> QED
    BY <1>1, <2>1
<1>5. CASE NouveauJour
  BY <1>1, <1>5 DEF NouveauJour, Minuit, varsCredit
<1> QED
  BY <1>2, <1>3, <1>4, <1>5 DEF Next

(* The transactions, their row locks and the unique index implement the     *)
(* promise: a debt, payments in one step of at most what is due, and a key  *)
(* that takes cash once.                                                    *)
THEOREM DetteToujoursTenue == Spec => ImplementeDette
<1>1. Init => Promesse!InitDette
  BY InitPromesse
<1>2. ICredit /\ [Next]_vars => [Promesse!NextDette]_<<Total, Verse, Depenses>>
  BY PromessePas
<1> QED
  BY <1>1, <1>2, Invariant, PTL DEF Spec, ImplementeDette, Promesse!SpecDette,
     Promesse!varsDette, Total, Verse, Depenses
=============================================================================

------------------------------- MODULE Credit -------------------------------
(***************************************************************************)
(* The debts of a merchant's clients: creation of a credit, partial payment *)
(* and settlement, all through encaisserCredit, in one database transaction *)
(* per request.                                                             *)
(*                                                                          *)
(* A request r \in Ids is one HTTP request.  The credit it creates is       *)
(* credits[r]; the row it inserts in caisse_transactions is lignes[r].  As  *)
(* in Caisse, a transaction is several steps: it holds its row locks to its *)
(* COMMIT, which publishes all it wrote.                                    *)
(*                                                                          *)
(* Amounts are whole francs, as the merchant types them.                    *)
(***************************************************************************)
EXTENDS Journee

CONSTANTS Clients,      \* names of clients
          Cles,         \* idempotency keys sent by the phone
          SansCle,      \* no idempotency key in the body
          Totaux,       \* totals of the credits
          Versements,   \* amounts of the partial payments
          Operations,   \* the routes in use
          MaxEnVol      \* bound on the handlers in progress at once

ASSUME CreditConstantes ==
  /\ SansCle \notin Cles \cup Ids
  /\ Totaux \subseteq Nat \ {0}
  /\ Versements \subseteq Nat \ {0}
  /\ MaxEnVol \in Nat \ {0}
  /\ Clients # {}

VARIABLES req,       \* the handlers, by request
          credits,   \* table credits, by the request that created the row
          du,        \* clients.montant_du
          cle,       \* idempotency_key of the row a request inserted
          audit      \* the credit that the audit row of a request names

varsCredit == <<req, credits, du, cle, audit>>
vars == <<varsJournee, varsCredit>>

----------------------------------------------------------------------------
(* The key of an encaissement is derived from the route and from the key of *)
(* the phone, or from the credit when the phone sent none.                  *)
Cle == [route : {"creation", "reglement", "acompte", "aucune"}, de : Cles \cup Ids \cup {SansCle}]

AucuneCle == [route |-> "aucune", de |-> SansCle]

Derivee(route, k, c) == [route |-> route, de |-> IF k = SansCle THEN c ELSE k]

Credit == [etat : {"absent", "en_cours", "paye"}, client : Clients, total : Nat, acompte : Nat]

Requete == [op : {"aucune", "creer", "payer", "acompte"},
            etape : {"libre", "upsert", "commencer", "controle", "credit", "client",
                     "inserer", "valider", "fini"},
            credit : Ids, client : Clients, total : Nat, montant : Nat, reste : Nat,
            cle : Cle, jour : Jours]

Place ==
  Cardinality({i \in Ids : req[i].etape \notin {"libre", "fini"}})
    + Cardinality({g \in Guichets : EnCours(g)}) < MaxEnVol

Demarre(r, op) == req[r].etape = "libre" /\ op \in Operations /\ Place

Etape(r, e) == req' = [req EXCEPT ![r].etape = e]

Cree(r) == req[r].op = "creer"

ReelCredit(c) == credits[c].etat # "absent"

Reste(c) == credits[c].total - credits[c].acompte

(* Mutant: the credit is read without FOR UPDATE.                           *)
CreditSansVerrou(c) == TRUE

(* The row lock of credit c, from FOR UPDATE to COMMIT.  A credit that is   *)
(* being created is not visible, so nobody waits for it.                    *)
CreditLibre(c) ==
  \A s \in Ids : ~(req[s].credit = c /\ req[s].etape \in {"client", "inserer", "valider"})

(* The row lock of client x, from the upsert or the UPDATE to COMMIT.       *)
ClientLibre(x) ==
  \A s \in Ids : ~(/\ req[s].client = x
                   /\ \/ req[s].etape \in {"inserer", "valider"}
                      \/ Cree(s) /\ req[s].etape \in {"controle", "credit"})

CleConnue(k) == k # AucuneCle /\ \E i \in Ids : Existe(i) /\ cle[i] = k

(* Mutant: no unique index on idempotency_key.                              *)
CleSansIndex(r) == FALSE

(* The unique index: a second INSERT of a key waits for the first.          *)
CleEnAttente(r) ==
  \E s \in Ids \ {r} : req[s].etape = "valider" /\ req[s].montant > 0 /\ req[s].cle = req[r].cle

----------------------------------------------------------------------------
(* POST /caisse/credits                                                     *)

(* BEGIN.  created_at of the row will be now(), the date of the BEGIN.      *)
RecevoirCreation(r) ==
  /\ Demarre(r, "creer")
  /\ \E x \in Clients, t \in Totaux, m \in Versements \cup {0}, k \in Cles \cup {SansCle} :
       /\ m <= t
       /\ req' = [req EXCEPT ![r] =
                    [op |-> "creer", etape |-> "upsert", credit |-> r, client |-> x, total |-> t,
                     montant |-> m, reste |-> t, jour |-> aujourdhui,
                     cle |-> IF m > 0 THEN Derivee("creation", k, r) ELSE AucuneCle]]
  /\ UNCHANGED <<varsJournee, credits, du, cle, audit>>

(* INSERT INTO clients ... ON CONFLICT DO UPDATE, then INSERT INTO credits. *)
InsererDette(r) ==
  /\ req[r].etape = "upsert"
  /\ ClientLibre(req[r].client)
  /\ Etape(r, IF req[r].montant > 0 THEN "controle" ELSE "valider")
  /\ UNCHANGED <<varsJournee, credits, du, cle, audit>>

----------------------------------------------------------------------------
(* PATCH /caisse/credits/:id/payer and /:id/acompte                         *)

(* marquerPaye reads what is due before its transaction; a settled credit   *)
(* is answered at once.                                                     *)
LireReste(r) ==
  /\ Demarre(r, "payer")
  /\ \E c \in Ids, k \in Cles \cup {SansCle} :
       /\ ReelCredit(c) /\ Reste(c) > 0
       /\ req' = [req EXCEPT ![r] =
                    [op |-> "payer", etape |-> "commencer", credit |-> c,
                     client |-> credits[c].client, total |-> 0, montant |-> Reste(c),
                     reste |-> 0, jour |-> aujourdhui, cle |-> Derivee("reglement", k, c)]]
  /\ UNCHANGED <<varsJournee, credits, du, cle, audit>>

CommencerReglement(r) ==
  /\ req[r].etape = "commencer"
  /\ req' = [req EXCEPT ![r] = [@ EXCEPT !.etape = "controle", !.jour = aujourdhui]]
  /\ UNCHANGED <<varsJournee, credits, du, cle, audit>>

(* A partial payment without a key is refused.                              *)
RecevoirAcompte(r) ==
  /\ Demarre(r, "acompte")
  /\ \E c \in Ids, k \in Cles, m \in Versements :
       /\ ReelCredit(c)
       /\ req' = [req EXCEPT ![r] =
                    [op |-> "acompte", etape |-> "controle", credit |-> c,
                     client |-> credits[c].client, total |-> 0, montant |-> m,
                     reste |-> 0, jour |-> aujourdhui, cle |-> Derivee("acompte", k, c)]]
  /\ UNCHANGED <<varsJournee, credits, du, cle, audit>>

(* exigerJourneeOuverte on the transaction's connection: under READ         *)
(* COMMITTED it still takes no lock.  A closed day rolls everything back.   *)
ControlerJournee(r) ==
  /\ req[r].etape = "controle"
  /\ Etape(r, IF JourneeFermee THEN "fini" ELSE "credit")
  /\ UNCHANGED <<varsJournee, credits, du, cle, audit>>

----------------------------------------------------------------------------
(* encaisserCredit                                                          *)

Acceptable(m, reste) == reste > 0 /\ m <= reste

(* SELECT ... FOR UPDATE, then the key, then the amount against what is due *)
(* now.  A key that is recorded is a replay: nothing is written, and a      *)
(* credit being created keeps no payment.  A creation holds its client      *)
(* already.                                                                 *)
VerrouillerCredit(r) ==
  LET reste == IF Cree(r) THEN req[r].total ELSE Reste(req[r].credit)
      suite == IF Cree(r) THEN "inserer" ELSE "client"
  IN /\ req[r].etape = "credit"
     /\ Cree(r) \/ CreditLibre(req[r].credit)
     /\ req' = [req EXCEPT ![r] =
                  IF CleConnue(req[r].cle)
                  THEN [@ EXCEPT !.montant = 0, !.cle = AucuneCle,
                                 !.etape = IF Cree(r) THEN "valider" ELSE "fini"]
                  ELSE [@ EXCEPT !.reste = reste,
                                 !.etape = IF Acceptable(req[r].montant, reste) THEN suite
                                           ELSE "fini"]]
     /\ UNCHANGED <<varsJournee, credits, du, cle, audit>>

(* UPDATE credits, then UPDATE clients, which waits for the client's row.   *)
VerrouillerClient(r) ==
  /\ req[r].etape = "client"
  /\ ClientLibre(req[r].client)
  /\ Etape(r, "inserer")
  /\ UNCHANGED <<varsJournee, credits, du, cle, audit>>

(* INSERT INTO caisse_transactions: a key recorded since it was read makes  *)
(* it fail, and everything is rolled back.                                  *)
InsererLigne(r) ==
  /\ req[r].etape = "inserer"
  /\ ~CleEnAttente(r)
  /\ Etape(r, IF CleConnue(req[r].cle) THEN "fini" ELSE "valider")
  /\ UNCHANGED <<varsJournee, credits, du, cle, audit>>

(* Mutant: the route decides the nature of the row.                         *)
NatureDeLaRoute(r) == IF req[r].op = "payer" THEN "reglement_credit" ELSE "acompte_credit"

Solde(r) == req[r].montant = req[r].reste

Nature(r) == IF Solde(r) THEN "reglement_credit" ELSE "acompte_credit"

(* Mutant: the upsert adds what is left after the first payment, which then *)
(* decreases it again.                                                      *)
DuAmpute(r) ==
  LET x == req[r].client
      naissance == du[x] + IF Cree(r) THEN req[r].total - req[r].montant ELSE 0
  IN IF naissance > req[r].montant THEN naissance - req[r].montant ELSE 0

(* The upsert adds the whole debt; a payment takes GREATEST(0, du - montant)*)
DuApres(r) ==
  LET naissance == du[req[r].client] + IF Cree(r) THEN req[r].total ELSE 0 IN
  IF naissance > req[r].montant THEN naissance - req[r].montant ELSE 0

(* The row of credits after the transaction.                                *)
CreditApres(r) ==
  LET avant == IF Cree(r)
               THEN [etat |-> "en_cours", client |-> req[r].client,
                     total |-> req[r].total, acompte |-> 0]
               ELSE credits[req[r].credit]
  IN IF req[r].montant = 0 THEN avant
     ELSE [avant EXCEPT !.acompte = @ + req[r].montant,
                        !.etat = IF Solde(r) THEN "paye" ELSE @]

(* Mutant: the INSERT of the row is outside the transaction and its error   *)
(* is swallowed.                                                            *)
ValiderSansLigne(r) ==
  /\ req[r].etape = "valider"
  /\ credits' = [credits EXCEPT ![req[r].credit] = CreditApres(r)]
  /\ du' = [du EXCEPT ![req[r].client] = DuApres(r)]
  /\ Etape(r, "fini")
  /\ UNCHANGED <<varsJournee, cle, audit>>

(* COMMIT: the credit, the client, the row and the audit, or none of them.  *)
Valider(r) ==
  /\ req[r].etape = "valider"
  /\ credits' = [credits EXCEPT ![req[r].credit] = CreditApres(r)]
  /\ du' = [du EXCEPT ![req[r].client] = DuApres(r)]
  /\ IF req[r].montant = 0 THEN UNCHANGED <<lignes, cle, audit>>
     ELSE /\ lignes' = [lignes EXCEPT ![r] = NouvelleLigne(Nature(r), req[r].montant, req[r].jour)]
          /\ cle' = [cle EXCEPT ![r] = req[r].cle]
          /\ audit' = [audit EXCEPT ![r] = {req[r].credit}]
  /\ Etape(r, "fini")
  /\ UNCHANGED <<aujourdhui, sessions, journal, guichets>>

(* ROLLBACK: a lost connection or a crash inside the transaction.           *)
Abandonner(r) ==
  /\ req[r].etape \notin {"libre", "fini"}
  /\ Etape(r, "fini")
  /\ UNCHANGED <<varsJournee, credits, du, cle, audit>>

----------------------------------------------------------------------------
Init ==
  /\ InitJournee
  /\ req = [r \in Ids |->
              [op |-> "aucune", etape |-> "libre", credit |-> r,
               client |-> CHOOSE x \in Clients : TRUE, total |-> 0, montant |-> 0, reste |-> 0,
               cle |-> AucuneCle, jour |-> 1]]
  /\ credits = [c \in Ids |-> [etat |-> "absent", client |-> CHOOSE x \in Clients : TRUE,
                               total |-> 0, acompte |-> 0]]
  /\ du = [x \in Clients |-> 0]
  /\ cle = [r \in Ids |-> AucuneCle]
  /\ audit = [r \in Ids |-> {}]

Avance(r) ==
  \/ InsererDette(r) \/ CommencerReglement(r) \/ ControlerJournee(r) \/ VerrouillerCredit(r)
  \/ VerrouillerClient(r) \/ InsererLigne(r) \/ Valider(r)

Requetes(r) == RecevoirCreation(r) \/ LireReste(r) \/ RecevoirAcompte(r)

GuichetOuvre(g) ==
  /\ Place
  /\ \E geste \in Gestes : LireSession(g, geste)
  /\ UNCHANGED varsCredit

GuichetAvance(g) == EtapeGuichet(g) /\ UNCHANGED varsCredit

NouveauJour == Minuit /\ UNCHANGED varsCredit

Next ==
  \/ \E r \in Ids : Requetes(r) \/ Avance(r) \/ Abandonner(r)
  \/ \E g \in Guichets : GuichetOuvre(g) \/ GuichetAvance(g)
  \/ NouveauJour

Spec == Init /\ [][Next]_vars

----------------------------------------------------------------------------
(* Properties.                                                              *)

TypeOK ==
  /\ TypeJournee
  /\ req \in [Ids -> Requete]
  /\ credits \in [Ids -> Credit]
  /\ du \in [Clients -> Nat]
  /\ cle \in [Ids -> Cle]
  /\ audit \in [Ids -> SUBSET Ids]

(* The rows whose audit names credit c.                                     *)
Encaissements(c) == {r \in Ids : audit[r] = {c}}

(* "Tout argent effectivement recu doit produire une ecriture de caisse":   *)
(* what a credit says was paid is the sum of its rows in the till.          *)
EncaissementTrace ==
  \A c \in Ids :
    credits[c].acompte = SumFunctionOnSet([r \in Ids |-> lignes[r].montant], Encaissements(c))

(* Concurrent payments never take more than the debt, and a credit is paid  *)
(* exactly when nothing is left: the table and the view agree.              *)
DetteBornee ==
  \A c \in Ids : ReelCredit(c) =>
    /\ credits[c].acompte <= credits[c].total
    /\ credits[c].etat = "paye" <=> credits[c].acompte = credits[c].total

(* montant_du of a client is what the client's credits leave to pay: no     *)
(* payment is subtracted twice and GREATEST(0, ...) never hides one.        *)
MontantDuExact ==
  \A x \in Clients :
    du[x] = SumFunctionOnSet([c \in Ids |-> IF credits[c].client = x THEN Reste(c) ELSE 0], Ids)

(* "Ce n'est pas la route HTTP qui decide, c'est le resultat metier": one   *)
(* settlement row for a paid credit, none before.                           *)
NatureJuste ==
  \A c \in Ids :
    Cardinality({r \in Encaissements(c) : lignes[r].type = "reglement_credit"}) =
      IF credits[c].etat = "paye" THEN 1 ELSE 0

(* The transactions implement the debt they promise.                        *)
Promesse == INSTANCE Dette WITH
  Dettes <- Ids,
  Jetons <- Cle,
  total <- [c \in Ids |-> credits[c].total],
  verse <- [c \in Ids |-> credits[c].acompte],
  depenses <- {cle[r] : r \in {i \in Ids : Existe(i)}}

ImplementeDette == Promesse!SpecDette
=============================================================================

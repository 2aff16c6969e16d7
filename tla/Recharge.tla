------------------------------ MODULE Recharge ------------------------------
(***************************************************************************)
(* Payments coming in from mobile money: table bpay_transactions, the       *)
(* webhook POST /bpay/callback, the callback of the public QR payment and   *)
(* the reconciliation cron, which settle the same rows concurrently.        *)
(*                                                                          *)
(* The webhook credits the wallet in the transaction that marks the row.    *)
(* The cron and the public callback call creditWallet without their entity  *)
(* manager: the credit commits in a transaction of its own, on another      *)
(* connection, before the one that marks the row.                           *)
(*                                                                          *)
(* em.query("UPDATE ... RETURNING") answers [rows, count], an array of two  *)
(* elements whatever was updated: the test updated.length === 0 never stops *)
(* a process whose UPDATE found the row settled.                            *)
(***************************************************************************)
EXTENDS Portefeuille

CONSTANTS Rappels,    \* deliveries of the webhook
          Publics,    \* deliveries of the callback of the public payment
          Crons,      \* overlapping executions of the cron
          Lot         \* LIMIT 50 of the cron

ASSUME RechargeConstantes ==
  /\ Agents = Rappels \cup Publics \cup Crons
  /\ Rappels \cap Publics = {} /\ Rappels \cap Crons = {} /\ Publics \cap Crons = {}
  /\ Lot \in Nat \ {0}

VARIABLES agents,   \* the settlement processes
          creeLe    \* bpay_transactions.created_at, as the rank of the row

varsRecharge == <<agents, creeLe>>
vars == <<varsPortefeuille, varsRecharge>>

Paiement(i) == op[i].genre \in {"marchand", "recharge"}

(* ligne: the row it is settling; reste: the rows of the lot after it.      *)
(* mise: its UPDATE changed the row, which it holds to the COMMIT.          *)
Agent == [etape : {"libre", "consulter", "echec", "marquer", "compte", "crediter",
                   "notifier", "fini"},
          ligne : Ids \cup {"aucune"}, reste : SUBSET Ids, mise : BOOLEAN]

Repos(e) == [etape |-> e, ligne |-> "aucune", reste |-> {}, mise |-> FALSE]

(* ORDER BY created_at ASC.                                                 *)
PlusAncienne(S) == CHOOSE i \in S : \A k \in S : creeLe[i] <= creeLe[k]

Suivante(S) == [etape |-> "consulter", ligne |-> PlusAncienne(S),
                reste |-> S \ {PlusAncienne(S)}, mise |-> FALSE]

(* The cron goes to its next row and sleeps after the last; a delivery is   *)
(* over.                                                                    *)
Suite(a) ==
  agents' = [agents EXCEPT ![a] =
    IF @.reste # {} THEN Suivante(@.reste) ELSE Repos(IF a \in Crons THEN "libre" ELSE "fini")]

Aller(a, e) == agents' = [agents EXCEPT ![a].etape = e]

(* The row lock of a payment, from the UPDATE to the end of the transaction.*)
RangLibre(a, i) == \A b \in Agents \ {a} : ~(agents[b].mise /\ agents[b].ligne = i)

----------------------------------------------------------------------------
(* POST me/recharge-mobile and public/pay: initierPaiement, then INSERT.    *)
Initier(i) ==
  /\ \E genre \in {"marchand", "recharge"}, c \in Comptes, m \in Montants :
       Nouvelle(i, genre, c, c, m, SansCle, "ligne")
  /\ operateur' = [operateur EXCEPT ![i] = "PENDING"]
  /\ UNCHANGED <<solde, suspendu, registre, etat, verrous, lus, pannes, varsRecharge>>

Enregistrer(i) ==
  /\ op[i].etape = "ligne" /\ Paiement(i)
  /\ etat' = [etat EXCEPT ![i] = "PENDING"]
  /\ creeLe' = [creeLe EXCEPT ![i] = 1 + Cardinality({k \in Ids : creeLe[k] > 0})]
  /\ Etape(i, "fini")
  /\ UNCHANGED <<solde, suspendu, registre, operateur, verrous, lus, pannes, agents>>

(* The client pays, refuses, or lets the payment expire.                    *)
Payer(i) ==
  /\ operateur[i] = "PENDING"
  /\ \E r \in {"SUCCESS", "FAILED"} : operateur' = [operateur EXCEPT ![i] = r]
  /\ UNCHANGED <<op, solde, suspendu, registre, etat, verrous, lus, pannes, varsRecharge>>

----------------------------------------------------------------------------
(* The settlement processes.                                                *)

(* A callback for a row that is PENDING; another answers received.          *)
RecevoirRappel(a, i) ==
  /\ a \in Rappels \cup Publics
  /\ agents[a].etape = "libre"
  /\ etat[i] = "PENDING"
  /\ a \in Publics => op[i].genre = "marchand"
  /\ agents' = [agents EXCEPT ![a] = Suivante({i})]
  /\ UNCHANGED <<varsPortefeuille, creeLe>>

(* Mutant: the cron looks at the top-ups only.                              *)
RechargesEnAttente == {i \in Ids : etat[i] = "PENDING" /\ op[i].genre = "recharge"}

EnAttente == {i \in Ids : etat[i] = "PENDING"}

(* The oldest PENDING rows, at most Lot.                                    *)
LireLot(a) ==
  /\ a \in Crons
  /\ agents[a].etape = "libre" /\ EnAttente # {}
  /\ agents' = [agents EXCEPT ![a] =
       Suivante({i \in EnAttente :
                   Cardinality({k \in EnAttente : creeLe[k] < creeLe[i]}) < Lot})]
  /\ UNCHANGED <<varsPortefeuille, creeLe>>

(* verifierStatut, which may fail. statusMap[statut] || 'FAILED': to the    *)
(* webhook and the cron a status it does not know (INITIATED, none at all)  *)
(* says FAILED; to the public callback it says nothing, like EXPIRED. Such  *)
(* answers are counted with the failures.                                   *)
Consulter(a) ==
  /\ agents[a].etape = "consulter"
  /\ \/ /\ CASE operateur[agents[a].ligne] = "SUCCESS" -> Aller(a, "marquer")
             [] operateur[agents[a].ligne] = "FAILED" -> Aller(a, "echec")
             [] OTHER -> Suite(a)
        /\ UNCHANGED pannes
     \/ /\ pannes < MaxPannes /\ pannes' = pannes + 1
        /\ Suite(a) \/ (a \notin Publics /\ Aller(a, "echec"))
  /\ UNCHANGED <<op, solde, suspendu, registre, etat, operateur, verrous, lus, creeLe>>

(* The public callback does not look at the state of the row.               *)
MarquerFailed(a) ==
  LET i == agents[a].ligne IN
  /\ agents[a].etape = "echec"
  /\ RangLibre(a, i)
  /\ etat' = IF a \in Publics \/ etat[i] = "PENDING" THEN [etat EXCEPT ![i] = "FAILED"] ELSE etat
  /\ Suite(a)
  /\ UNCHANGED <<op, solde, suspendu, registre, operateur, verrous, lus, pannes, creeLe>>

(* Mutant: the row is COMPLETED in a transaction before the credit.         *)
MarquerAvantCredit(a) ==
  LET i == agents[a].ligne IN
  /\ agents[a].etape = "marquer"
  /\ RangLibre(a, i)
  /\ etat' = IF etat[i] = "PENDING" THEN [etat EXCEPT ![i] = "COMPLETED"] ELSE etat
  /\ Aller(a, "compte")
  /\ UNCHANGED <<op, solde, suspendu, registre, operateur, verrous, lus, pannes, creeLe>>

(* UPDATE ... WHERE status = 'PENDING': waits for the row and reads it      *)
(* again; nothing stops a process that updated no row.                      *)
Marquer(a) ==
  LET i == agents[a].ligne IN
  /\ agents[a].etape = "marquer"
  /\ RangLibre(a, i)
  /\ agents' = [agents EXCEPT ![a] = [@ EXCEPT !.etape = "compte", !.mise = etat[i] = "PENDING"]]
  /\ UNCHANGED <<varsPortefeuille, creeLe>>

(* The amount, the wallet row and assertCompteActif; above the ceiling, or  *)
(* on a suspended account, the transaction rolls back.                      *)
VerrouillerCompte(a) ==
  LET c == op[agents[a].ligne].compte
      m == op[agents[a].ligne].montant
  IN
  /\ agents[a].etape = "compte"
  /\ \/ /\ m > Plafond \/ (CompteLibre(a, c) /\ suspendu[c])
        /\ Suite(a) /\ UNCHANGED <<verrous, lus>>
     \/ /\ m <= Plafond /\ ~suspendu[c]
        /\ Prendre(a, c) /\ Aller(a, "crediter")
  /\ UNCHANGED <<op, solde, suspendu, registre, etat, operateur, pannes, creeLe>>

(* The row as it is after the COMMIT of a: COMPLETED if a updated it.       *)
EtatValide(a) ==
  IF agents[a].mise THEN [etat EXCEPT ![agents[a].ligne] = "COMPLETED"] ELSE etat

(* The webhook commits the row and the wallet together; the others commit   *)
(* the wallet alone and go on.                                              *)
Crediter(a) ==
  LET i == agents[a].ligne IN
  /\ agents[a].etape = "crediter"
  /\ Mouvement(a, i, op[i].compte, op[i].montant)
  /\ Lacher(a)
  /\ IF a \in Rappels THEN etat' = EtatValide(a) /\ Suite(a)
     ELSE Aller(a, "notifier") /\ UNCHANGED etat
  /\ UNCHANGED <<op, suspendu, operateur, pannes, creeLe>>

(* notificationsService.create, then the COMMIT of the row; if it fails the *)
(* row is PENDING again and the wallet stays credited.                      *)
Notifier(a) ==
  /\ agents[a].etape = "notifier"
  /\ Suite(a)
  /\ \/ etat' = EtatValide(a) /\ UNCHANGED pannes
     \/ pannes < MaxPannes /\ pannes' = pannes + 1 /\ UNCHANGED etat
  /\ UNCHANGED <<op, solde, suspendu, registre, operateur, verrous, lus, creeLe>>

(* The process dies; the cron starts again later.                           *)
MourirAgent(a) ==
  /\ agents[a].etape \notin {"libre", "fini"}
  /\ pannes < MaxPannes /\ pannes' = pannes + 1
  /\ agents' = [agents EXCEPT ![a] = Repos(IF a \in Crons THEN "libre" ELSE "fini")]
  /\ Lacher(a)
  /\ UNCHANGED <<op, solde, suspendu, registre, etat, operateur, creeLe>>

----------------------------------------------------------------------------
Init ==
  /\ InitPortefeuille
  /\ agents = [a \in Agents |-> Repos("libre")]
  /\ creeLe = [i \in Ids |-> 0]

EtapeAgent(a) ==
  \/ Consulter(a) \/ MarquerFailed(a) \/ Marquer(a)
  \/ VerrouillerCompte(a) \/ Crediter(a) \/ Notifier(a)

OpAvance(i) == EtapeOp(i) /\ UNCHANGED varsRecharge

Exterieur ==
  \/ \E i \in Ids : \/ (Demande(i) \/ Mourir(i)) /\ UNCHANGED varsRecharge
                    \/ Initier(i) \/ Payer(i)
                    \/ \E a \in Agents : RecevoirRappel(a, i)
  \/ \E c \in Comptes : BasculerCompte(c) /\ UNCHANGED varsRecharge
  \/ \E a \in Agents : MourirAgent(a)

Next ==
  \/ \E i \in Ids : OpAvance(i) \/ Enregistrer(i)
  \/ \E a \in Agents : LireLot(a) \/ EtapeAgent(a)
  \/ Exterieur

Spec == Init /\ [][Next]_vars

(* Handlers that have begun go on, the cron runs every five minutes while   *)
(* the back office leaves it enabled, and PostgreSQL serves a lock in the   *)
(* order it was asked for.                                                  *)
Equitable ==
  /\ \A i \in Ids : WF_vars(OpAvance(i))
  /\ \A a \in Agents : WF_vars(EtapeAgent(a)) /\ WF_vars(LireLot(a))

SpecEquitable == Spec /\ Equitable

----------------------------------------------------------------------------
(* Properties.                                                              *)

TypeOK ==
  /\ TypePortefeuille
  /\ agents \in [Agents -> Agent]
  /\ creeLe \in [Ids -> Nat]

(* "Rejouer la meme cle ne cree aucun second mouvement", and a transfer     *)
(* creates and destroys no money.                                           *)
UnTransfertParCle ==
  \A i \in Ids : op[i].genre = "transfert" =>
    /\ Somme(i) = 0
    /\ \A k \in Ids \ {i} :
         /\ op[k].genre = "transfert" /\ op[k].compte = op[i].compte
         /\ op[k].cle = op[i].cle /\ op[i].cle # SansCle
         => registre[i][op[i].compte] = 0 \/ registre[k][op[i].compte] = 0

(* The row of a withdrawal agrees with the wallet: FAILED when its money is *)
(* back or never left, COMPLETED when it left once on an order that was     *)
(* accepted. No single failure breaks that; two may: the answer of the      *)
(* UPDATE is lost, the money is given back and the process dies before it   *)
(* corrects the row.                                                        *)
RetraitRegle ==
  \A i \in Ids : op[i].genre = "retrait" =>
    /\ etat[i] = "FAILED" => Somme(i) = 0
    /\ etat[i] = "COMPLETED" =>
         \/ Somme(i) = -op[i].montant /\ operateur[i] = "acceptee"
         \/ op[i].etape = "echouer"
         \/ pannes > 1

(* Money enters a wallet only after the operator has it, a row is COMPLETED *)
(* only when its wallet was credited, and a payment the operator received   *)
(* is marked FAILED only after an answer that failed or had a status the    *)
(* code does not know.                                                      *)
PaiementJustifie ==
  \A i \in Ids : Paiement(i) =>
    /\ Somme(i) > 0 => operateur[i] = "SUCCESS"
    /\ etat[i] = "COMPLETED" => Somme(i) >= op[i].montant
    /\ etat[i] = "FAILED" => operateur[i] = "FAILED" \/ pannes > 0

Attend(p) ==
  IF p \in Agents THEN IF agents[p].etape = "compte" THEN {op[agents[p].ligne].compte} ELSE {}
  ELSE CASE op[p].etape = "premier" -> {Premier(p)}
         [] op[p].etape = "second" -> {Second(p)}
         [] op[p].etape \in {"debit", "retour", "admin"} -> {op[p].compte}
         [] OTHER -> {}

(* "L'une attend simplement l'autre au lieu de deadlocker": among the       *)
(* operations of this module that hold wallets one waits for no other.      *)
(* Orders and tontines, which take two wallets in another order, are not    *)
(* among them.                                                              *)
SansInterblocage ==
  LET tenants == {p \in Procs : verrous[p] # {}} IN
  tenants # {} => \E p \in tenants : \A c \in Attend(p) : CompteLibre(p, c)

(* Older rows fill the lot of the cron.                                     *)
LotPlein(i) == Cardinality({k \in EnAttente : creeLe[k] < creeLe[i]}) >= Lot

(* A payment the operator has received is credited, by a callback or by the *)
(* cron. The exceptions are the code's: the account is suspended, the       *)
(* amount is above the ceiling, an answer with an unknown status marked the *)
(* row FAILED, or older rows that nothing settles fill every lot.           *)
RechargeCreditee ==
  \A i \in Ids :
    (etat[i] = "PENDING" /\ operateur[i] = "SUCCESS" /\ op[i].montant <= Plafond)
      ~> (Somme(i) > 0 \/ suspendu[op[i].compte] \/ etat[i] = "FAILED" \/ LotPlein(i))

(* "Deja traite": the lock on the row makes one process credit a payment.   *)
UnCreditParPaiement ==
  \A i \in Ids : Paiement(i) => Somme(i) <= op[i].montant

(* The transfers that moved money, with their senders and keys.             *)
Virements == {i \in Ids : op[i].genre = "transfert" /\ registre[i][op[i].compte] # 0}

Faits == {<<i, op[i].compte, op[i].cle>> : i \in Virements}

Livre == INSTANCE GrandLivre WITH Ordres <- Ids, avoir <- solde, faits <- Faits

(* What the owners of the wallets see is a ledger of movements made at      *)
(* once, never of more than there is and one per key, whatever locks,       *)
(* settlement processes, retries and crashes overlap.                       *)
LivreTenu == Livre!SpecLivre
=============================================================================

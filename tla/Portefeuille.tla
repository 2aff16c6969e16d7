---------------------------- MODULE Portefeuille ----------------------------
(***************************************************************************)
(* The Keiwa wallets: table wallets, its ledger wallet_transactions, and    *)
(* the requests that move money: transfers between two accounts,            *)
(* withdrawals to mobile money, movements by an administrator.              *)
(*                                                                          *)
(* Every movement locks the wallet row, reads it, checks that the account   *)
(* is active, writes the balance it computed and its ledger row, and        *)
(* commits.  Locking and committing are two steps; what was read is kept in *)
(* lus.  Other tables may change in between.                                *)
(*                                                                          *)
(* solde_bloque stays 0: no route calls blockFunds, releaseFunds or         *)
(* refundFunds.  Module Recharge adds the payments coming in.               *)
(***************************************************************************)
EXTENDS Integers, FiniteSets, Sequences, Functions

CONSTANTS Comptes,      \* accounts, numbered in the order of their ids
          Ids,          \* operations: transfers, withdrawals, movements, payments
          Agents,       \* the other processes that move money (module Recharge)
          Depot,        \* balance of an account before the operations
          Montants,     \* amounts asked for
          Plafond,      \* 10 000 000 francs in the code
          Cles,         \* idempotency keys of transfers
          SansCle,      \* no idempotency key in the body
          Genres,       \* kinds of operations in use
          MaxPannes     \* bound on crashes and on failed answers

ASSUME PortefeuilleConstantes ==
  /\ Comptes \subseteq Nat /\ Comptes # {} /\ IsFiniteSet(Comptes)
  /\ IsFiniteSet(Ids) /\ Ids \cap Agents = {}
  /\ Depot \in Nat
  /\ Montants \subseteq Nat \ {0} /\ Plafond \in Nat
  /\ SansCle \notin Cles
  /\ MaxPannes \in Nat

VARIABLES op,          \* the operations, with the step their request is at
          solde,       \* wallets.solde
          suspendu,    \* users.status = 'suspendu'
          registre,    \* wallet_transactions: what operation i did to account c
          etat,        \* bpay_transactions.status
          operateur,   \* what the mobile money operator did of an operation:
                       \* a payment PENDING, SUCCESS or FAILED, a withdrawal acceptee
          verrous,     \* wallet rows a process has locked
          lus,         \* the balances it read under its locks
          pannes       \* crashes and failed answers so far

varsPortefeuille ==
  <<op, solde, suspendu, registre, etat, operateur, verrous, lus, pannes>>

Procs == Ids \cup Agents

Plus == {"marchand", "recharge", "admin_credit"}     \* money comes in
Moins == {"retrait", "admin_debit"}                  \* money goes out

Operation == [genre : {"aucun", "transfert", "admin_zero", "cotisation"} \cup Plus \cup Moins,
              compte : Comptes, vers : Comptes, montant : Nat, cle : Cles \cup {SansCle},
              etape : {"libre", "ligne", "premier", "second", "virer", "debit", "debiter",
                       "envoyer", "confirmer", "retour", "rembourser", "echouer",
                       "admin", "ecrire", "tontine", "cotiser", "beneficiaire", "valider",
                       "fini"}]

Etats == {"absente", "PENDING", "PENDING_WITHDRAW", "COMPLETED", "FAILED"}

Operateurs == {"rien", "PENDING", "SUCCESS", "FAILED", "acceptee"}

----------------------------------------------------------------------------
(* Locks and movements.                                                     *)

(* Mutant: the wallet is read without pessimistic_write.                    *)
CompteSansVerrou(p, c) == TRUE

CompteLibre(p, c) == \A q \in Procs \ {p} : c \notin verrous[q]

(* SELECT ... FOR UPDATE: the row is locked to the end of the transaction.  *)
Prendre(p, c) ==
  /\ CompteLibre(p, c)
  /\ verrous' = [verrous EXCEPT ![p] = @ \cup {c}]
  /\ lus' = [lus EXCEPT ![p] = [@ EXCEPT ![c] = solde[c]]]

Lacher(p) ==
  /\ verrous' = [verrous EXCEPT ![p] = {}]
  /\ lus' = [lus EXCEPT ![p] = [c \in Comptes |-> 0]]

(* The balance written is the one that was read, plus m; operation i has    *)
(* its ledger row in the same transaction.                                  *)
Mouvement(p, i, c, m) ==
  /\ solde' = [solde EXCEPT ![c] = lus[p][c] + m]
  /\ registre' = [registre EXCEPT ![i] = [registre[i] EXCEPT ![c] = @ + m]]

Etape(i, e) == op' = [op EXCEPT ![i].etape = e]

Nouvelle(i, genre, c, v, m, k, e) ==
  /\ op[i].genre = "aucun"
  /\ genre \in Genres
  /\ op' = [op EXCEPT ![i] = [genre |-> genre, compte |-> c, vers |-> v, montant |-> m,
                              cle |-> k, etape |-> e]]

----------------------------------------------------------------------------
(* POST /wallets/me/transfert: transfererVersUtilisateur.                   *)

(* The debit row of this key for this sender.                               *)
CleDejaTraitee(c, k) ==
  k # SansCle /\ \E i \in Ids : /\ op[i].genre = "transfert" /\ op[i].compte = c
                                /\ op[i].cle = k /\ registre[i][c] # 0

(* Mutant: no unique index (idempotency_key, user_id, type).                *)
IndexAbsent(i) == FALSE

(* The two rows of a transfer bear its key: neither the debit of this       *)
(* sender nor the credit of this receiver may be there.                     *)
DoublonDeCle(i) ==
  op[i].cle # SansCle /\ \E k \in Ids \ {i} :
    /\ op[k].genre = "transfert" /\ op[k].cle = op[i].cle /\ registre[k][op[k].compte] # 0
    /\ op[k].compte = op[i].compte \/ op[k].vers = op[i].vers

(* Mutant: each transfer locks its sender first.                            *)
ExpediteurDabord(i) == TRUE

(* The two wallets are locked in the order of the ids.                      *)
DansLOrdre(i) == op[i].compte < op[i].vers

Premier(i) == IF DansLOrdre(i) THEN op[i].compte ELSE op[i].vers
Second(i) == IF DansLOrdre(i) THEN op[i].vers ELSE op[i].compte

RecevoirTransfert(i) ==
  /\ \E c, v \in Comptes, m \in Montants, k \in Cles \cup {SansCle} :
       /\ c # v /\ m <= Plafond
       /\ ~CleDejaTraitee(c, k)
       /\ Nouvelle(i, "transfert", c, v, m, k, "premier")
  /\ UNCHANGED <<solde, suspendu, registre, etat, operateur, verrous, lus, pannes>>

VerrouillerPremier(i) ==
  /\ op[i].etape = "premier"
  /\ Prendre(i, Premier(i))
  /\ Etape(i, "second")
  /\ UNCHANGED <<solde, suspendu, registre, etat, operateur, pannes>>

(* Mutant: the balance is not compared with the amount.                     *)
SansPlafond(i) == TRUE

Suffisant(i) == solde[op[i].compte] >= op[i].montant

VerrouillerSecond(i) ==
  /\ op[i].etape = "second"
  /\ CompteLibre(i, Second(i))
  /\ IF ~suspendu[op[i].compte] /\ ~suspendu[op[i].vers] /\ Suffisant(i)
     THEN Prendre(i, Second(i)) /\ Etape(i, "virer")
     ELSE Lacher(i) /\ Etape(i, "fini")
  /\ UNCHANGED <<solde, suspendu, registre, etat, operateur, pannes>>

(* Two balances and two ledger rows, or a unique violation and nothing.     *)
Virer(i) ==
  LET c == op[i].compte
      v == op[i].vers
      m == op[i].montant
  IN /\ op[i].etape = "virer"
     /\ IF DoublonDeCle(i) THEN UNCHANGED <<solde, registre>>
        ELSE /\ solde' = [solde EXCEPT ![c] = lus[i][c] - m, ![v] = lus[i][v] + m]
             /\ registre' = [registre EXCEPT ![i] = [registre[i] EXCEPT ![c] = -m, ![v] = m]]
     /\ Lacher(i) /\ Etape(i, "fini")
     /\ UNCHANGED <<suspendu, etat, operateur, pannes>>

----------------------------------------------------------------------------
(* POST /wallets/me/retrait-mobile                                          *)

(* The balance is looked at first without a lock.                           *)
RecevoirRetrait(i) ==
  /\ \E c \in Comptes, m \in Montants :
       solde[c] >= m /\ Nouvelle(i, "retrait", c, c, m, SansCle, "ligne")
  /\ UNCHANGED <<solde, suspendu, registre, etat, operateur, verrous, lus, pannes>>

InsererRetrait(i) ==
  /\ op[i].etape = "ligne" /\ op[i].genre = "retrait"
  /\ etat' = [etat EXCEPT ![i] = "PENDING_WITHDRAW"]
  /\ Etape(i, "debit")
  /\ UNCHANGED <<solde, suspendu, registre, operateur, verrous, lus, pannes>>

(* debitWallet: a refusal, of an amount above the ceiling too, goes to the  *)
(* UPDATE that marks the row FAILED.                                        *)
VerrouillerDebit(i) ==
  /\ op[i].etape = "debit"
  /\ CompteLibre(i, op[i].compte)
  /\ IF ~suspendu[op[i].compte] /\ Suffisant(i) /\ op[i].montant <= Plafond
     THEN Prendre(i, op[i].compte) /\ Etape(i, "debiter")
     ELSE Etape(i, "echouer") /\ UNCHANGED <<verrous, lus>>
  /\ UNCHANGED <<solde, suspendu, registre, etat, operateur, pannes>>

Debiter(i) ==
  /\ op[i].etape = "debiter"
  /\ Mouvement(i, i, op[i].compte, -op[i].montant)
  /\ Lacher(i) /\ Etape(i, "envoyer")
  /\ UNCHANGED <<suspendu, etat, operateur, pannes>>

(* retraitVersMobileMoney: an answer, or an error after which nobody knows  *)
(* whether the operator took the order. Nothing reads the status of the     *)
(* answer, nor asks later: whether it then pays changes nothing here.       *)
Envoyer(i) ==
  /\ op[i].etape = "envoyer"
  /\ \/ /\ operateur' = [operateur EXCEPT ![i] = "acceptee"]
        /\ Etape(i, "confirmer")
     \/ /\ \E r \in {"rien", "acceptee"} : operateur' = [operateur EXCEPT ![i] = r]
        /\ Etape(i, "retour")
  /\ UNCHANGED <<solde, suspendu, registre, etat, verrous, lus, pannes>>

(* The UPDATE to COMPLETED is in the same try: its failure also gives the   *)
(* money back, even if it was done and only its answer was lost.            *)
Confirmer(i) ==
  /\ op[i].etape = "confirmer"
  /\ \/ /\ etat' = [etat EXCEPT ![i] = "COMPLETED"] /\ Etape(i, "fini")
        /\ UNCHANGED pannes
     \/ /\ pannes < MaxPannes /\ pannes' = pannes + 1
        /\ Etape(i, "retour")
        /\ \E e \in {etat[i], "COMPLETED"} : etat' = [etat EXCEPT ![i] = e]
  /\ UNCHANGED <<solde, suspendu, registre, operateur, verrous, lus>>

(* creditWallet after a failure; on an account suspended since, it throws   *)
(* and the row stays PENDING_WITHDRAW.                                      *)
VerrouillerRetour(i) ==
  /\ op[i].etape = "retour"
  /\ CompteLibre(i, op[i].compte)
  /\ IF ~suspendu[op[i].compte]
     THEN Prendre(i, op[i].compte) /\ Etape(i, "rembourser")
     ELSE Etape(i, "fini") /\ UNCHANGED <<verrous, lus>>
  /\ UNCHANGED <<solde, suspendu, registre, etat, operateur, pannes>>

Rembourser(i) ==
  /\ op[i].etape = "rembourser"
  /\ Mouvement(i, i, op[i].compte, op[i].montant)
  /\ Lacher(i) /\ Etape(i, "echouer")
  /\ UNCHANGED <<suspendu, etat, operateur, pannes>>

(* Mutant: the row is marked FAILED before the money is given back.         *)
MarquerAvantRetour(i) ==
  /\ op[i].etape \in {"echouer", "retour"}
  /\ etat' = [etat EXCEPT ![i] = "FAILED"]
  /\ IF op[i].etape = "retour" THEN UNCHANGED op ELSE Etape(i, "fini")
  /\ UNCHANGED <<solde, suspendu, registre, operateur, verrous, lus, pannes>>

MarquerEchec(i) ==
  /\ op[i].etape = "echouer"
  /\ etat' = [etat EXCEPT ![i] = "FAILED"]
  /\ Etape(i, "fini")
  /\ UNCHANGED <<solde, suspendu, registre, operateur, verrous, lus, pannes>>

----------------------------------------------------------------------------
(* The administrator: credit, debit, reset to zero, suspend, release.       *)

RecevoirAdmin(i) ==
  /\ \E genre \in {"admin_credit", "admin_debit", "admin_zero"}, c \in Comptes, m \in Montants :
       Nouvelle(i, genre, c, c, m, SansCle, "admin")
  /\ UNCHANGED <<solde, suspendu, registre, etat, operateur, verrous, lus, pannes>>

(* A reset works on a suspended account too.                                *)
VerrouillerAdmin(i) ==
  LET o == op[i] IN
  /\ o.etape = "admin"
  /\ CompteLibre(i, o.compte)
  /\ IF \/ o.genre = "admin_zero"
        \/ ~suspendu[o.compte] /\ (o.genre = "admin_credit" \/ Suffisant(i))
     THEN Prendre(i, o.compte) /\ Etape(i, "ecrire")
     ELSE Etape(i, "fini") /\ UNCHANGED <<verrous, lus>>
  /\ UNCHANGED <<solde, suspendu, registre, etat, operateur, pannes>>

(* Here the sum is made by the UPDATE, on the row just locked.              *)
EcrireAdmin(i) ==
  LET o == op[i] IN
  /\ o.etape = "ecrire"
  /\ Mouvement(i, i, o.compte,
               IF o.genre = "admin_credit" THEN o.montant
               ELSE IF o.genre = "admin_debit" THEN -o.montant ELSE -lus[i][o.compte])
  /\ Lacher(i) /\ Etape(i, "fini")
  /\ UNCHANGED <<suspendu, etat, operateur, pannes>>

(* bloquerWallet and debloquerWallet write users.status and lock no wallet. *)
BasculerCompte(c) ==
  /\ "suspension" \in Genres
  /\ suspendu' = [suspendu EXCEPT ![c] = ~@]
  /\ UNCHANGED <<op, solde, registre, etat, operateur, verrous, lus, pannes>>

(* The process dies: what it had not committed and its locks are gone.      *)
Mourir(i) ==
  /\ op[i].etape \notin {"libre", "fini"}
  /\ pannes < MaxPannes /\ pannes' = pannes + 1
  /\ Lacher(i) /\ Etape(i, "fini")
  /\ UNCHANGED <<solde, suspendu, registre, etat, operateur>>

----------------------------------------------------------------------------
InitPortefeuille ==
  /\ op = [i \in Ids |-> [genre |-> "aucun", compte |-> CHOOSE c \in Comptes : TRUE,
                          vers |-> CHOOSE c \in Comptes : TRUE, montant |-> 0,
                          cle |-> SansCle, etape |-> "libre"]]
  /\ solde = [c \in Comptes |-> Depot]
  /\ suspendu = [c \in Comptes |-> FALSE]
  /\ registre = [i \in Ids |-> [c \in Comptes |-> 0]]
  /\ etat = [i \in Ids |-> "absente"]
  /\ operateur = [i \in Ids |-> "rien"]
  /\ verrous = [p \in Procs |-> {}]
  /\ lus = [p \in Procs |-> [c \in Comptes |-> 0]]
  /\ pannes = 0

Demande(i) == RecevoirTransfert(i) \/ RecevoirRetrait(i) \/ RecevoirAdmin(i)

EtapeOp(i) ==
  \/ VerrouillerPremier(i) \/ VerrouillerSecond(i) \/ Virer(i)
  \/ InsererRetrait(i) \/ VerrouillerDebit(i) \/ Debiter(i) \/ Envoyer(i) \/ Confirmer(i)
  \/ VerrouillerRetour(i) \/ Rembourser(i) \/ MarquerEchec(i)
  \/ VerrouillerAdmin(i) \/ EcrireAdmin(i)

TypePortefeuille ==
  /\ op \in [Ids -> Operation]
  /\ solde \in [Comptes -> Int]
  /\ suspendu \in [Comptes -> BOOLEAN]
  /\ registre \in [Ids -> [Comptes -> Int]]
  /\ etat \in [Ids -> Etats]
  /\ operateur \in [Ids -> Operateurs]
  /\ verrous \in [Procs -> SUBSET Comptes]
  /\ lus \in [Procs -> [Comptes -> Int]]
  /\ pannes \in 0..MaxPannes

Somme(i) == SumFunctionOnSet(registre[i], Comptes)

(* The balance of a wallet is what its ledger rows add up to: no movement   *)
(* that races another is lost.                                              *)
SoldeJournal ==
  \A c \in Comptes :
    solde[c] = Depot + SumFunctionOnSet([i \in Ids |-> registre[i][c]], Ids)

(* No race of transfers, withdrawals and debits takes more than there is.   *)
SoldePositif == \A c \in Comptes : solde[c] >= 0
=============================================================================

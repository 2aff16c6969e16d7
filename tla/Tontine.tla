------------------------------- MODULE Tontine -------------------------------
(***************************************************************************)
(* A tontine paid from the Keiwa wallets: tontines.service.ts. Each member  *)
(* contributes once per cycle; the last contribution of a cycle pays the    *)
(* pot to the member whose turn it is.                                      *)
(*                                                                          *)
(* cotiser is one transaction: it locks the row of the tontine, then the    *)
(* wallet of the contributor (debitWallet), then perhaps the wallet of the  *)
(* beneficiary (creditWallet). Transfers lock their wallets by id: the two  *)
(* orders may block each other, and PostgreSQL then aborts one transaction. *)
(***************************************************************************)
EXTENDS Portefeuille

CONSTANT Cotisation   \* tontines.montant_cotisation

Aucun == "personne"

ASSUME TontineConstantes ==
  Agents = {} /\ Cotisation \in Nat \ {0} /\ Aucun \notin Ids

VARIABLES tontine,     \* the row of tontines, with the order of its members
          mouvements,  \* tontine_mouvements: <<type, membre, cycle>>
          aRecu,       \* tontine_membres.a_recu
          gardien,     \* the request that locked the row of the tontine
          dernieres    \* requests that counted the last contribution of the cycle

varsTontine == <<tontine, mouvements, aRecu, gardien, dernieres>>
vars == <<varsPortefeuille, varsTontine>>

N == Cardinality(Comptes)

Ordres == {f \in [0..(N - 1) -> Comptes] : \A c \in Comptes : \E k \in 0..(N - 1) : f[k] = c}

Init ==
  /\ InitPortefeuille
  /\ \E f \in Ordres : tontine = [statut |-> "absente", cycle |-> 0, ordre |-> f]
  /\ mouvements = {} /\ aRecu = {} /\ gardien = Aucun /\ dernieres = {}

Creer ==
  /\ tontine.statut = "absente"
  /\ tontine' = [tontine EXCEPT !.statut = "ACTIVE"]
  /\ UNCHANGED <<varsPortefeuille, mouvements, aRecu, gardien, dernieres>>

Cotise(c) == <<"cotisation", c, tontine.cycle>> \in mouvements

Beneficiaire == tontine.ordre[tontine.cycle]

----------------------------------------------------------------------------
(* POST /tontines/:id/cotiser                                               *)

RecevoirCotisation(i) ==
  /\ tontine.statut # "absente"
  /\ \E c \in Comptes : Nouvelle(i, "cotisation", c, c, Cotisation, SansCle, "tontine")
  /\ UNCHANGED <<solde, suspendu, registre, etat, operateur, verrous, lus, pannes,
                 varsTontine>>

(* ROLLBACK, or COMMIT: every lock of the request goes with it.             *)
Terminer(i) ==
  /\ Lacher(i) /\ Etape(i, "fini")
  /\ gardien' = IF gardien = i THEN Aucun ELSE gardien
  /\ dernieres' = dernieres \ {i}

Annuler(i) ==
  /\ Terminer(i)
  /\ UNCHANGED <<solde, suspendu, registre, etat, operateur, pannes, tontine, mouvements,
                 aRecu>>

(* Mutant: the row of the tontine is read without pessimistic_write.        *)
SansGardien(i) ==
  /\ op[i].etape = "tontine"
  /\ tontine.statut = "ACTIVE" /\ ~Cotise(op[i].compte)
  /\ Etape(i, "cotiser")
  /\ UNCHANGED <<solde, suspendu, registre, etat, operateur, verrous, lus, pannes,
                 varsTontine>>

(* The lock of the tontine comes before any wallet; then the checks.        *)
VerrouillerTontine(i) ==
  /\ op[i].etape = "tontine"
  /\ gardien = Aucun
  /\ tontine.statut = "ACTIVE" /\ ~Cotise(op[i].compte)
  /\ gardien' = i
  /\ Etape(i, "cotiser")
  /\ UNCHANGED <<solde, suspendu, registre, etat, operateur, verrous, lus, pannes,
                 tontine, mouvements, aRecu, dernieres>>

Refuser(i) ==
  /\ op[i].etape = "tontine"
  /\ gardien = Aucun
  /\ tontine.statut # "ACTIVE" \/ Cotise(op[i].compte)
  /\ Annuler(i)

(* manager.count, the row just inserted included.                           *)
DerniereCotisation(c) == \A d \in Comptes \ {c} : Cotise(d)

(* debitWallet in the same transaction; refused, the whole is rolled back.  *)
VerrouillerCotisant(i) ==
  LET c == op[i].compte IN
  /\ op[i].etape = "cotiser"
  /\ CompteLibre(i, c)
  /\ IF suspendu[c] \/ ~Suffisant(i) \/ Cotisation > Plafond
       THEN Annuler(i)
       ELSE /\ Prendre(i, c)
            /\ dernieres' = IF DerniereCotisation(c) THEN dernieres \cup {i} ELSE dernieres
            /\ Etape(i, IF DerniereCotisation(c) THEN "beneficiaire" ELSE "valider")
            /\ UNCHANGED <<solde, suspendu, registre, etat, operateur, pannes, tontine,
                           mouvements, aRecu, gardien>>

(* creditWallet: a suspended beneficiary blocks the last contribution, and  *)
(* so does a pot above the ceiling.                                         *)
VerrouillerBeneficiaire(i) ==
  /\ op[i].etape = "beneficiaire"
  /\ CompteLibre(i, Beneficiaire)
  /\ IF suspendu[Beneficiaire] \/ N * Cotisation > Plafond
       THEN Annuler(i)
       ELSE /\ Prendre(i, Beneficiaire)
            /\ Etape(i, "valider")
            /\ UNCHANGED <<solde, suspendu, registre, etat, operateur, pannes, varsTontine>>

(* Mutant: the pot is counted before the last contribution is inserted.     *)
NetSansDerniere(i, c) ==
  (IF c = op[i].compte THEN -Cotisation ELSE 0)
  + (IF i \in dernieres /\ c = Beneficiaire THEN (N - 1) * Cotisation ELSE 0)

(* Net effect of request i on account c: its debit, and the pot.            *)
Net(i, c) ==
  (IF c = op[i].compte THEN -Cotisation ELSE 0)
  + (IF i \in dernieres /\ c = Beneficiaire THEN N * Cotisation ELSE 0)

(* COMMIT. The unique index (tontine, membre, cycle, type) refuses a row    *)
(* written meanwhile.                                                       *)
Valider(i) ==
  /\ op[i].etape = "valider"
  /\ IF Cotise(op[i].compte) THEN Annuler(i)
     ELSE /\ solde' = [c \in Comptes |-> IF c \in verrous[i] THEN lus[i][c] + Net(i, c)
                                         ELSE solde[c]]
          /\ registre' = [registre EXCEPT ![i] = [c \in Comptes |-> Net(i, c)]]
          /\ mouvements' = mouvements
               \cup {<<"cotisation", op[i].compte, tontine.cycle>>}
               \cup (IF i \in dernieres
                       THEN {<<"distribution", Beneficiaire, tontine.cycle>>} ELSE {})
          /\ aRecu' = IF i \in dernieres THEN aRecu \cup {Beneficiaire} ELSE aRecu
          /\ tontine' = IF i \in dernieres
                          THEN [tontine EXCEPT !.cycle = @ + 1,
                                  !.statut = IF tontine.cycle + 1 >= N THEN "TERMINEE" ELSE @]
                          ELSE tontine
          /\ Terminer(i)
          /\ UNCHANGED <<suspendu, etat, operateur, pannes>>

----------------------------------------------------------------------------
(* The wallet a request waits for, by the locks of its step.                *)
Attend(i) ==
  CASE op[i].etape = "second" -> {Second(i)}
    [] op[i].etape = "cotiser" -> {op[i].compte}
    [] op[i].etape = "beneficiaire" -> {Beneficiaire}
    [] OTHER -> {}

(* deadlock_timeout: of two requests that wait for each other one is aborted*)
(* and its client receives a 500.                                           *)
Interblocage(i, k) ==
  /\ i # k
  /\ \E c \in Attend(i) : c \in verrous[k] /\ ~CompteLibre(i, c)
  /\ \E c \in Attend(k) : c \in verrous[i]
  /\ Annuler(i)

(* The other operations on the same wallets, and the crashes.               *)
Autre(i) ==
  /\ RecevoirTransfert(i) \/ VerrouillerPremier(i) \/ VerrouillerSecond(i) \/ Virer(i)
  /\ UNCHANGED varsTontine

Panne(i) ==
  /\ Mourir(i)
  /\ gardien' = IF gardien = i THEN Aucun ELSE gardien
  /\ dernieres' = dernieres \ {i}
  /\ UNCHANGED <<tontine, mouvements, aRecu>>

EtapeCotisation(i) ==
  \/ VerrouillerTontine(i) \/ Refuser(i) \/ VerrouillerCotisant(i)
  \/ VerrouillerBeneficiaire(i) \/ Valider(i) \/ \E k \in Ids : Interblocage(i, k)

Next ==
  \/ Creer
  \/ \E i \in Ids : RecevoirCotisation(i) \/ EtapeCotisation(i) \/ Autre(i) \/ Panne(i)
  \/ \E c \in Comptes : BasculerCompte(c) /\ UNCHANGED varsTontine

Spec == Init /\ [][Next]_vars

----------------------------------------------------------------------------
(* Types of the state.                                                      *)
TypeOK ==
  /\ TypePortefeuille
  /\ tontine \in [statut : {"absente", "ACTIVE", "TERMINEE"}, cycle : 0..N,
                ordre : [0..(N - 1) -> Comptes]]
  /\ mouvements \subseteq {"cotisation", "distribution"} \X Comptes \X (0..(N - 1))
  /\ aRecu \subseteq Comptes
  /\ gardien \in Ids \cup {Aucun}
  /\ dernieres \subseteq Ids

Cotisants(k) == {c \in Comptes : <<"cotisation", c, k>> \in mouvements}

(* A cycle pays its pot once, to the member whose turn it is, if and only if*)
(* every member has contributed to it; the tontine then goes to the next    *)
(* cycle, and ends after the last.                                          *)
CagnotteExacte ==
  /\ \A k \in 0..(N - 1), c \in Comptes :
       <<"distribution", c, k>> \in mouvements <=>
         c = tontine.ordre[k] /\ Cotisants(k) = Comptes
  /\ \A k \in 0..(N - 1) : Cotisants(k) = Comptes <=> k < tontine.cycle
  /\ aRecu = {tontine.ordre[k] : k \in 0..(tontine.cycle - 1)}
  /\ tontine.statut = "TERMINEE" <=> tontine.cycle = N

(* The wallets and the pot hold together what the members brought: what is  *)
(* missing from the wallets is the contributions of the cycle in progress.  *)
ArgentConserve ==
  SumFunctionOnSet(solde, Comptes) =
    N * Depot - (IF tontine.cycle < N
                   THEN Cotisation * Cardinality(Cotisants(tontine.cycle)) ELSE 0)
=============================================================================

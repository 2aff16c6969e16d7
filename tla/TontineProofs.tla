---------------------------- MODULE TontineProofs ----------------------------
(***************************************************************************)
(* For any number of members, requests, transfers, suspensions and crashes: *)
(* a cycle of the tontine pays its pot once, to the member whose turn it    *)
(* is, when everyone has contributed, and the wallets and the pot hold      *)
(* together what the members brought.                                       *)
(*                                                                          *)
(* What a contribution counts (was it the last of the cycle?) it counts two *)
(* lock waits before its COMMIT.  The invariant says that the row of the    *)
(* tontine keeps the count true (Tour), and that what was read of a wallet  *)
(* under its lock is still its balance (Frais).                             *)
(***************************************************************************)
EXTENDS Tontine, SommesTheorems

Tontines == [statut : {"absente", "ACTIVE", "TERMINEE"}, cycle : 0..N,
             ordre : [0..(N - 1) -> Comptes]]

Types ==
  /\ op \in [Ids -> Operation]
  /\ solde \in [Comptes -> Int]
  /\ verrous \in [Ids -> SUBSET Comptes]
  /\ lus \in [Ids -> [Comptes -> Int]]
  /\ tontine \in Tontines
  /\ mouvements \subseteq {"cotisation", "distribution"} \X Comptes \X (0..(N - 1))
  /\ dernieres \subseteq Ids

(* Wallet locks exclude, and what was read under one is the balance.        *)
Exclusion == \A p \in Ids, q \in Ids : p # q => verrous[p] \cap verrous[q] = {}

Frais == \A p \in Ids : \A c \in verrous[p] : lus[p][c] = solde[c]

(* Request i holds the row of the tontine.                                  *)
Cotisant(i) == op[i].etape \in {"cotiser", "beneficiaire", "valider"}

(* What a contribution has checked is still true.                           *)
Tour(i) ==
  /\ op[i].etape = "tontine" \/ Cotisant(i) => op[i].genre # "aucun"
  /\ Cotisant(i) => gardien = i /\ tontine.statut = "ACTIVE" /\ ~Cotise(op[i].compte)
  /\ i \in dernieres => op[i].etape \in {"beneficiaire", "valider"}
  /\ op[i].etape \in {"beneficiaire", "valider"} =>
       /\ op[i].compte \in verrous[i]
       /\ i \in dernieres <=> DerniereCotisation(op[i].compte)
  /\ op[i].etape = "beneficiaire" => i \in dernieres
  /\ op[i].etape = "valider" /\ i \in dernieres => Beneficiaire \in verrous[i]

(* A transfer holds its wallets, which are two.                             *)
Transfert(i) ==
  /\ op[i].etape \in {"premier", "second", "virer"} => op[i].compte # op[i].vers
  /\ op[i].etape = "second" => Premier(i) \in verrous[i]
  /\ op[i].etape = "virer" => {op[i].compte, op[i].vers} \subseteq verrous[i]

(* Nobody contributes to a cycle to come.                                   *)
Avenir == \A k \in 0..(N - 1) : k > tontine.cycle => Cotisants(k) = {}

Bilan == CagnotteExacte /\ Avenir /\ ArgentConserve

ITontine ==
  Types /\ Exclusion /\ Frais /\ Bilan /\ \A i \in Ids : Tour(i) /\ Transfert(i)

----------------------------------------------------------------------------
(* Sets and types.                                                          *)

LEMMA Membres == N \in Nat \ {0} /\ IsFiniteSet(Comptes) /\ Procs = Ids /\ Aucun \notin Ids
<1>1. IsFiniteSet(Comptes) /\ Comptes # {}
  BY PortefeuilleConstantes
<1>2. N \in Nat /\ N # 0
  BY <1>1, FS_EmptySet, FS_CardinalityType DEF N
<1> QED
  BY <1>1, <1>2, TontineConstantes DEF Procs

LEMMA Champs ==
  ASSUME ITontine, NEW i \in Ids
  PROVE  /\ op[i] \in Operation
         /\ op[i].compte \in Comptes /\ op[i].vers \in Comptes /\ op[i].montant \in Nat
         /\ tontine.cycle \in 0..N
         /\ tontine.statut \in {"absente", "ACTIVE", "TERMINEE"}
         /\ \A k \in 0..(N - 1) : tontine.ordre[k] \in Comptes
BY DEF ITontine, Types, Tontines, Operation

LEMMA EnCours ==
  ASSUME ITontine, tontine.statut = "ACTIVE"
  PROVE  tontine.cycle \in 0..(N - 1) /\ tontine.cycle + 1 \in 0..N /\ Beneficiaire \in Comptes
<1>1. tontine.cycle \in 0..N /\ tontine.cycle # N
  BY DEF ITontine, Types, Tontines, Bilan, CagnotteExacte
<1>2. tontine.cycle \in 0..(N - 1) /\ tontine.cycle + 1 \in 0..N
  BY <1>1, Membres
<1> QED
  BY <1>2 DEF Beneficiaire, ITontine, Types, Tontines

LEMMA EtapeType ==
  ASSUME NEW o \in Operation,
         NEW e \in {"libre", "ligne", "premier", "second", "virer", "debit", "debiter",
                    "envoyer", "confirmer", "retour", "rembourser", "echouer",
                    "admin", "ecrire", "tontine", "cotiser", "beneficiaire", "valider",
                    "fini"}
  PROVE  [o EXCEPT !.etape = e] \in Operation
BY SMT, Zenon DEF Operation

----------------------------------------------------------------------------
(* Steps that write no balance and no contribution.                         *)

tables == <<solde, tontine, mouvements, aRecu>>

LEMMA BilanInchange ==
  ASSUME Bilan, UNCHANGED tables
  PROVE  Bilan'
BY DEF Bilan, CagnotteExacte, Avenir, ArgentConserve, Cotisants, tables

(* The requests other than i are as they were.                              *)
Autres(i) == \A k \in Ids \ {i} :
  /\ op'[k] = op[k] /\ verrous'[k] = verrous[k] /\ lus'[k] = lus[k]
  /\ k \in dernieres' <=> k \in dernieres
  /\ gardien = k => gardien' = k

(* Request i takes or leaves locks.                                         *)
LEMMA PasVerrous ==
  ASSUME ITontine, NEW i \in Ids, UNCHANGED tables, Autres(i),
         op' \in [Ids -> Operation], verrous' \in [Ids -> SUBSET Comptes],
         lus' \in [Ids -> [Comptes -> Int]], dernieres' \subseteq Ids,
         \A c \in verrous'[i] : lus'[i][c] = solde[c] /\ \A k \in Ids \ {i} : c \notin verrous[k],
         Tour(i)', Transfert(i)'
  PROVE  ITontine'
<1>1. Types'
  BY DEF ITontine, Types, tables
<1>2. Exclusion' /\ Frais'
  <2>1. \A k \in Ids \ {i} : verrous'[k] = verrous[k] /\ lus'[k] = lus[k]
    BY DEF Autres
  <2>2. Exclusion'
    BY <2>1 DEF ITontine, Exclusion
  <2>3. Frais'
    BY <2>1 DEF ITontine, Frais, tables
  <2> QED BY <2>2, <2>3
<1>3. \A k \in Ids : Tour(k)' /\ Transfert(k)'
  <2> SUFFICES ASSUME NEW k \in Ids, k # i PROVE Tour(k)' /\ Transfert(k)'
    OBVIOUS
  <2>1. /\ Tour(k) /\ Transfert(k)
        /\ op'[k] = op[k] /\ verrous'[k] = verrous[k]
        /\ k \in dernieres' <=> k \in dernieres
        /\ gardien = k => gardien' = k
    BY DEF ITontine, Autres
  <2>2. Tour(k)'
    BY <2>1 DEF Tour, Cotisant, Cotise, DerniereCotisation, Beneficiaire, tables
  <2>3. Transfert(k)'
    BY <2>1 DEF Transfert, Premier, DansLOrdre
  <2> QED
    BY <2>2, <2>3
<1>4. Bilan'
  BY BilanInchange DEF ITontine
<1> QED
  BY <1>1, <1>2, <1>3, <1>4 DEF ITontine

LEMMA PrendreEffet ==
  ASSUME ITontine, NEW i \in Ids, NEW c \in Comptes, Prendre(i, c)
  PROVE  /\ verrous' \in [Ids -> SUBSET Comptes] /\ lus' \in [Ids -> [Comptes -> Int]]
         /\ verrous'[i] = verrous[i] \cup {c}
         /\ \A d \in verrous'[i] : lus'[i][d] = solde[d] /\ \A k \in Ids \ {i} : d \notin verrous[k]
         /\ \A k \in Ids \ {i} : verrous'[k] = verrous[k] /\ lus'[k] = lus[k]
<1>1. /\ verrous' = [verrous EXCEPT ![i] = verrous[i] \cup {c}]
      /\ lus' = [lus EXCEPT ![i] = [lus[i] EXCEPT ![c] = solde[c]]]
      /\ verrous \in [Ids -> SUBSET Comptes] /\ lus \in [Ids -> [Comptes -> Int]]
      /\ solde \in [Comptes -> Int]
  BY DEF Prendre, ITontine, Types
<1>2. /\ verrous' \in [Ids -> SUBSET Comptes] /\ verrous'[i] = verrous[i] \cup {c}
      /\ \A k \in Ids \ {i} : verrous'[k] = verrous[k]
  BY <1>1
<1>3. [lus[i] EXCEPT ![c] = solde[c]] \in [Comptes -> Int]
  BY <1>1
<1>4. /\ lus' \in [Ids -> [Comptes -> Int]] /\ lus'[i] = [lus[i] EXCEPT ![c] = solde[c]]
      /\ \A k \in Ids \ {i} : lus'[k] = lus[k]
  BY <1>1, <1>3
<1>5. \A k \in Ids \ {i} : c \notin verrous[k]
  BY Membres DEF Prendre, CompteLibre
<1>6. \A d \in verrous'[i] : lus'[i][d] = solde[d] /\ \A k \in Ids \ {i} : d \notin verrous[k]
  BY <1>1, <1>2, <1>4, <1>5 DEF ITontine, Exclusion, Frais
<1> QED
  BY <1>2, <1>4, <1>6

LEMMA LacherEffet ==
  ASSUME ITontine, NEW i \in Ids, Lacher(i)
  PROVE  /\ verrous' \in [Ids -> SUBSET Comptes] /\ lus' \in [Ids -> [Comptes -> Int]]
         /\ verrous'[i] = {}
         /\ \A k \in Ids \ {i} : verrous'[k] = verrous[k] /\ lus'[k] = lus[k]
BY DEF Lacher, ITontine, Types

LEMMA EtapeEffet ==
  ASSUME ITontine, NEW i \in Ids,
         NEW e \in {"second", "virer", "cotiser", "beneficiaire", "valider", "fini"}, Etape(i, e)
  PROVE  /\ op' \in [Ids -> Operation]
         /\ op'[i].etape = e /\ op'[i].compte = op[i].compte /\ op'[i].vers = op[i].vers
         /\ op'[i].genre = op[i].genre
         /\ \A k \in Ids \ {i} : op'[k] = op[k]
<1> DEFINE o == [op[i] EXCEPT !.etape = e]
<1>1. op[i] \in Operation /\ op \in [Ids -> Operation]
  BY DEF ITontine, Types
<1>2. o \in Operation
  BY <1>1, EtapeType
<1>3. o.etape = e /\ o.compte = op[i].compte /\ o.vers = op[i].vers /\ o.genre = op[i].genre
  BY <1>1 DEF Operation
<1>4. op' = [op EXCEPT ![i] = o]
  BY <1>1 DEF Etape
<1> HIDE DEF o
<1> QED
  BY <1>1, <1>2, <1>3, <1>4

(* The end of a request, by COMMIT, ROLLBACK, or a crash.                   *)
LEMMA PasFin ==
  ASSUME ITontine, NEW i \in Ids, Lacher(i), Etape(i, "fini"), UNCHANGED tables,
         gardien' = IF gardien = i THEN Aucun ELSE gardien,
         dernieres' = dernieres \ {i}
  PROVE  ITontine'
<1>1. Autres(i) /\ dernieres' \subseteq Ids
  BY LacherEffet, EtapeEffet DEF Autres, ITontine, Types
<1>2. Tour(i)' /\ Transfert(i)'
  BY EtapeEffet DEF Tour, Transfert, Cotisant
<1> QED
  BY <1>1, <1>2, LacherEffet, EtapeEffet, PasVerrous

LEMMA PasAnnuler ==
  ASSUME ITontine, NEW i \in Ids, Annuler(i)
  PROVE  ITontine'
BY PasFin DEF Annuler, Terminer, tables

LEMMA PasPanne ==
  ASSUME ITontine, NEW i \in Ids, Panne(i)
  PROVE  ITontine'
BY PasFin DEF Panne, Mourir, tables

(* A request that arrives.                                                  *)
LEMMA PasNouvelle ==
  ASSUME ITontine, NEW i \in Ids,
         NEW c \in Comptes, NEW v \in Comptes, NEW m \in Nat, NEW k \in Cles \cup {SansCle},
         \/ RecevoirCotisation(i) /\ Nouvelle(i, "cotisation", c, v, m, k, "tontine")
         \/ /\ RecevoirTransfert(i) /\ UNCHANGED varsTontine
            /\ c # v /\ Nouvelle(i, "transfert", c, v, m, k, "premier")
  PROVE  ITontine'
<1>1. PICK o \in Operation : /\ op' = [op EXCEPT ![i] = o]
                             /\ o.etape \in {"tontine", "premier"}
                             /\ o.etape = "premier" => o.compte # o.vers
                             /\ o.genre # "aucun"
  <2>1. [genre |-> "cotisation", compte |-> c, vers |-> v, montant |-> m, cle |-> k,
         etape |-> "tontine"] \in Operation
    BY DEF Operation
  <2>2. [genre |-> "transfert", compte |-> c, vers |-> v, montant |-> m, cle |-> k,
         etape |-> "premier"] \in Operation
    BY DEF Operation
  <2> QED
    BY <2>1, <2>2 DEF Nouvelle
<1>2. op' \in [Ids -> Operation] /\ op'[i] = o /\ \A x \in Ids \ {i} : op'[x] = op[x]
  BY <1>1 DEF ITontine, Types
<1>3. UNCHANGED <<solde, verrous, lus, varsTontine>>
  BY DEF RecevoirCotisation, RecevoirTransfert, varsTontine
<1>4. Autres(i) /\ UNCHANGED tables
  BY <1>2, <1>3 DEF Autres, tables, varsTontine
<1>5. \A d \in verrous'[i] : lus'[i][d] = solde[d] /\ \A x \in Ids \ {i} : d \notin verrous[x]
  BY <1>3 DEF ITontine, Exclusion, Frais
<1>6. i \notin dernieres
  BY DEF ITontine, Tour, Cotisant, Nouvelle
<1>7. Tour(i)' /\ Transfert(i)'
  BY <1>1, <1>2, <1>3, <1>6 DEF Tour, Transfert, Cotisant, varsTontine
<1> QED
  BY <1>2, <1>3, <1>4, <1>5, <1>7, PasVerrous DEF ITontine, Types, varsTontine

LEMMA PasVerrouillerTontine ==
  ASSUME ITontine, NEW i \in Ids, VerrouillerTontine(i)
  PROVE  ITontine'
<1>1. /\ gardien = Aucun /\ gardien' = i /\ op[i].etape = "tontine"
      /\ tontine.statut = "ACTIVE" /\ ~Cotise(op[i].compte)
      /\ UNCHANGED <<tables, verrous, lus, dernieres>> /\ Etape(i, "cotiser")
  BY DEF VerrouillerTontine, tables
<1>2. Autres(i)
  BY <1>1, EtapeEffet, Membres DEF Autres
<1>3. \A d \in verrous'[i] : lus'[i][d] = solde[d] /\ \A x \in Ids \ {i} : d \notin verrous[x]
  BY <1>1 DEF ITontine, Exclusion, Frais
<1>4. Tour(i)' /\ Transfert(i)'
  BY <1>1, EtapeEffet DEF ITontine, Tour, Transfert, Cotisant, Cotise, tables
<1> QED
  BY <1>1, <1>2, <1>3, <1>4, EtapeEffet, PasVerrous DEF ITontine, Types, tables

LEMMA PasVerrouillerCotisant ==
  ASSUME ITontine, NEW i \in Ids, VerrouillerCotisant(i)
  PROVE  ITontine'
<1>0. PICK c \in Comptes : c = op[i].compte
  BY Champs
<1>1. CASE Annuler(i)
  BY <1>1, PasAnnuler
<1>2. CASE ~Annuler(i)
  <2>1. /\ Prendre(i, c) /\ op[i].etape = "cotiser"
        /\ dernieres' = IF DerniereCotisation(c) THEN dernieres \cup {i} ELSE dernieres
        /\ Etape(i, IF DerniereCotisation(c) THEN "beneficiaire" ELSE "valider")
        /\ UNCHANGED <<tables, gardien>>
    BY <1>0, <1>2 DEF VerrouillerCotisant, tables
  <2>2. Autres(i) /\ dernieres' \subseteq Ids
    BY <2>1, PrendreEffet, EtapeEffet DEF Autres, ITontine, Types
  <2>3. Tour(i) /\ i \notin dernieres
    BY <2>1 DEF ITontine, Tour
  <2>4. DerniereCotisation(c)' <=> DerniereCotisation(c)
    BY <2>1 DEF DerniereCotisation, Cotise, tables
  <2>5. Cotise(c)' <=> Cotise(c)
    BY <2>1 DEF Cotise, tables
  <2>6. /\ op'[i].etape = IF DerniereCotisation(c) THEN "beneficiaire" ELSE "valider"
        /\ op'[i].compte = c /\ op'[i].genre = op[i].genre /\ c \in verrous'[i]
    BY <1>0, <2>1, PrendreEffet, EtapeEffet
  <2>7. Tour(i)'
    BY <1>0, <2>1, <2>3, <2>4, <2>5, <2>6 DEF Tour, Cotisant, tables
  <2>8. Transfert(i)'
    BY <2>6 DEF Transfert
  <2>9. op' \in [Ids -> Operation]
    BY <2>1, EtapeEffet
  <2> QED
    BY <2>1, <2>2, <2>7, <2>8, <2>9, PrendreEffet, PasVerrous
<1> QED
  BY <1>1, <1>2

LEMMA PasVerrouillerBeneficiaire ==
  ASSUME ITontine, NEW i \in Ids, VerrouillerBeneficiaire(i)
  PROVE  ITontine'
<1>1. CASE Annuler(i)
  BY <1>1, PasAnnuler
<1>2. CASE ~Annuler(i)
  <2>0. op[i].etape = "beneficiaire" /\ Tour(i) /\ Beneficiaire \in Comptes
    BY EnCours DEF ITontine, VerrouillerBeneficiaire, Tour, Cotisant
  <2>1. /\ Prendre(i, Beneficiaire) /\ Etape(i, "valider")
        /\ UNCHANGED <<tables, gardien, dernieres>>
    BY <1>2 DEF VerrouillerBeneficiaire, tables, varsTontine
  <2>2. Autres(i) /\ dernieres' \subseteq Ids
    BY <2>0, <2>1, PrendreEffet, EtapeEffet DEF Autres, ITontine, Types
  <2>3. /\ op'[i].etape = "valider" /\ op'[i].compte = op[i].compte /\ op'[i].genre = op[i].genre
        /\ verrous'[i] = verrous[i] \cup {Beneficiaire} /\ op' \in [Ids -> Operation]
    BY <2>0, <2>1, PrendreEffet, EtapeEffet
  <2>4. Tour(i)' /\ Transfert(i)'
    BY <2>0, <2>1, <2>3 DEF Tour, Transfert, Cotisant, Cotise, DerniereCotisation, Beneficiaire,
       tables
  <2> QED
    BY <2>0, <2>1, <2>2, <2>3, <2>4, PrendreEffet, PasVerrous
<1> QED
  BY <1>1, <1>2

LEMMA PasVerrouillerPremier ==
  ASSUME ITontine, NEW i \in Ids, VerrouillerPremier(i), UNCHANGED varsTontine
  PROVE  ITontine'
<1>1. /\ op[i].etape = "premier" /\ Prendre(i, Premier(i)) /\ Etape(i, "second")
      /\ UNCHANGED <<tables, gardien, dernieres>>
  BY DEF VerrouillerPremier, tables, varsTontine
<1>2. Premier(i) \in Comptes /\ op[i].compte # op[i].vers /\ i \notin dernieres
  BY <1>1, Champs DEF Premier, ITontine, Transfert, Tour
<1>3. Autres(i) /\ dernieres' \subseteq Ids
  BY <1>1, <1>2, PrendreEffet, EtapeEffet DEF Autres, ITontine, Types
<1>4. /\ op'[i].etape = "second" /\ op'[i].compte = op[i].compte /\ op'[i].vers = op[i].vers
      /\ verrous'[i] = verrous[i] \cup {Premier(i)} /\ op' \in [Ids -> Operation]
  BY <1>1, <1>2, PrendreEffet, EtapeEffet
<1>5. Tour(i)' /\ Transfert(i)'
  BY <1>1, <1>2, <1>4 DEF Tour, Transfert, Cotisant, Premier, DansLOrdre
<1> QED
  BY <1>1, <1>2, <1>3, <1>4, <1>5, PrendreEffet, PasVerrous

LEMMA PasVerrouillerSecond ==
  ASSUME ITontine, NEW i \in Ids, VerrouillerSecond(i), UNCHANGED varsTontine
  PROVE  ITontine'
<1>1. /\ op[i].etape = "second"
      /\ UNCHANGED <<tables, gardien, dernieres>>
      /\ \/ Prendre(i, Second(i)) /\ Etape(i, "virer")
         \/ Lacher(i) /\ Etape(i, "fini")
  BY DEF VerrouillerSecond, tables, varsTontine
<1>2. /\ Second(i) \in Comptes /\ op[i].compte # op[i].vers /\ i \notin dernieres
      /\ Premier(i) \in verrous[i]
  BY <1>1, Champs DEF Second, ITontine, Transfert, Tour
<1>3. CASE Prendre(i, Second(i)) /\ Etape(i, "virer")
  <2>1. Autres(i) /\ dernieres' \subseteq Ids
    BY <1>1, <1>2, <1>3, PrendreEffet, EtapeEffet DEF Autres, ITontine, Types
  <2>2. /\ op'[i].etape = "virer" /\ op'[i].compte = op[i].compte /\ op'[i].vers = op[i].vers
        /\ verrous'[i] = verrous[i] \cup {Second(i)} /\ op' \in [Ids -> Operation]
    BY <1>2, <1>3, PrendreEffet, EtapeEffet
  <2>3. Tour(i)' /\ Transfert(i)'
    BY <1>1, <1>2, <2>2 DEF Tour, Transfert, Cotisant, Premier, Second
  <2> QED
    BY <1>1, <1>2, <1>3, <2>1, <2>2, <2>3, PrendreEffet, PasVerrous
<1>4. CASE Lacher(i) /\ Etape(i, "fini")
  <2>1. Autres(i) /\ dernieres' \subseteq Ids
    BY <1>1, <1>4, LacherEffet, EtapeEffet DEF Autres, ITontine, Types
  <2>2. Tour(i)' /\ Transfert(i)'
    BY <1>1, <1>2, <1>4, EtapeEffet DEF Tour, Transfert, Cotisant
  <2> QED
    BY <1>1, <1>4, <2>1, <2>2, LacherEffet, EtapeEffet, PasVerrous
<1> QED
  BY <1>1, <1>3, <1>4

----------------------------------------------------------------------------
(* Steps that write balances, and end their request.                        *)

LEMMA PasSoldes ==
  ASSUME ITontine, NEW i \in Ids, Lacher(i), Etape(i, "fini"),
         solde' \in [Comptes -> Int], \A d \in Comptes \ verrous[i] : solde'[d] = solde[d]
  PROVE  /\ op' \in [Ids -> Operation] /\ verrous' \in [Ids -> SUBSET Comptes]
         /\ lus' \in [Ids -> [Comptes -> Int]]
         /\ Exclusion' /\ Frais'
         /\ \A k \in Ids : Transfert(k)'
<1>1. \A k \in Ids \ {i} : \A c \in verrous[k] : c \in Comptes /\ c \notin verrous[i]
  BY DEF ITontine, Exclusion, Types
<1>2. Exclusion' /\ Frais'
  <2>1. Exclusion'
    BY LacherEffet DEF ITontine, Exclusion
  <2>2. ASSUME NEW k \in Ids, NEW c \in verrous'[k] PROVE lus'[k][c] = solde'[c]
    <3>1. k # i /\ verrous'[k] = verrous[k] /\ lus'[k] = lus[k]
      BY <2>2, LacherEffet
    <3>2. c \in Comptes \ verrous[i] /\ lus[k][c] = solde[c]
      BY <1>1, <2>2, <3>1 DEF ITontine, Frais
    <3> QED
      BY <3>1, <3>2
  <2> QED
    BY <2>1, <2>2 DEF Frais
<1>3. \A k \in Ids : Transfert(k)'
  <2>1. Transfert(i)'
    BY EtapeEffet DEF Transfert
  <2>2. \A k \in Ids \ {i} : Transfert(k)'
    BY LacherEffet, EtapeEffet DEF ITontine, Transfert, Premier, DansLOrdre
  <2> QED
    BY <2>1, <2>2
<1> QED
  BY <1>2, <1>3, LacherEffet, EtapeEffet

(* The same money in two other hands.                                       *)
LEMMA SommeVirement ==
  ASSUME solde \in [Comptes -> Int], NEW h, h \in [Comptes -> Int], NEW c \in Comptes,
         NEW v \in Comptes, c # v, NEW m \in Int,
         h[c] = solde[c] - m, h[v] = solde[v] + m,
         \A d \in Comptes \ {c, v} : h[d] = solde[d]
  PROVE  SumFunctionOnSet(h, Comptes) = SumFunctionOnSet(solde, Comptes)
<1> DEFINE g == [solde EXCEPT ![c] = solde[c] - m]
<1>1. /\ SumFunctionOnSet(solde, Comptes) \in Int /\ SumFunctionOnSet(g, Comptes) \in Int
      /\ SumFunctionOnSet(g, Comptes) = SumFunctionOnSet(solde, Comptes) - solde[c] + g[c]
  <2>1. /\ \A d \in Comptes : solde[d] \in Int
        /\ g[c] \in Int /\ \A d \in Comptes \ {c} : g[d] = solde[d]
    OBVIOUS
  <2>2. IsFiniteSet(Comptes)
    BY Membres
  <2> HIDE DEF g
  <2>3. SumFunctionOnSet(solde, Comptes) \in Int
    BY <2>1, <2>2, SommeType
  <2>4. SumFunctionOnSet(g, Comptes) = SumFunctionOnSet(solde, Comptes) - solde[c] + g[c]
    BY <2>1, <2>2, SommeMiseAJour
  <2> QED
    BY <2>1, <2>3, <2>4
<1>2. SumFunctionOnSet(h, Comptes) = SumFunctionOnSet(g, Comptes) - g[v] + h[v]
  <2>1. /\ \A d \in Comptes : g[d] \in Int
        /\ h[v] \in Int /\ \A d \in Comptes \ {v} : h[d] = g[d]
    <3>1. g[c] = h[c] /\ g[c] \in Int /\ h[v] \in Int
      OBVIOUS
    <3>2. \A d \in Comptes \ {c} : g[d] = solde[d]
      OBVIOUS
    <3> QED BY <3>1, <3>2
  <2> HIDE DEF g
  <2> QED
    BY <2>1, Membres, SommeMiseAJour
<1>3. g[c] = solde[c] - m /\ g[v] = solde[v] /\ solde[c] \in Int /\ solde[v] \in Int
  OBVIOUS
<1> HIDE DEF g
<1> QED
  BY <1>1, <1>2, <1>3

LEMMA PasVirer ==
  ASSUME ITontine, NEW i \in Ids, Virer(i), UNCHANGED varsTontine
  PROVE  ITontine'
<1>1. PICK c \in Comptes, v \in Comptes, m \in Nat :
        /\ c = op[i].compte /\ v = op[i].vers /\ m = op[i].montant
        /\ c # v /\ c \in verrous[i] /\ v \in verrous[i]
  BY Champs DEF ITontine, Transfert, Virer
<1>2. lus[i][c] = solde[c] /\ lus[i][v] = solde[v] /\ solde \in [Comptes -> Int]
  BY <1>1 DEF ITontine, Frais, Types
<1>3. Lacher(i) /\ Etape(i, "fini") /\ UNCHANGED <<tontine, mouvements, aRecu, gardien, dernieres>>
  BY DEF Virer, varsTontine
<1>4. /\ solde' \in [Comptes -> Int] /\ \A d \in Comptes \ verrous[i] : solde'[d] = solde[d]
      /\ SumFunctionOnSet(solde', Comptes) = SumFunctionOnSet(solde, Comptes)
  <2>1. CASE UNCHANGED solde
    BY <1>2, <2>1
  <2>2. CASE solde' = [solde EXCEPT ![c] = lus[i][c] - m, ![v] = lus[i][v] + m]
    <3>1. /\ solde' \in [Comptes -> Int]
          /\ solde'[c] = solde[c] - m /\ solde'[v] = solde[v] + m
          /\ \A d \in Comptes \ {c, v} : solde'[d] = solde[d]
      BY <1>1, <1>2, <2>2
    <3>2. SumFunctionOnSet(solde', Comptes) = SumFunctionOnSet(solde, Comptes)
      BY <1>1, <1>2, <3>1, SommeVirement
    <3> QED
      BY <1>1, <3>1, <3>2
  <2> QED
    BY <1>1, <2>1, <2>2 DEF Virer
<1>5. Types' /\ Exclusion' /\ Frais' /\ \A k \in Ids : Transfert(k)'
  BY <1>3, <1>4, PasSoldes DEF ITontine, Types
<1>6. Bilan'
  BY <1>3, <1>4 DEF ITontine, Bilan, CagnotteExacte, Avenir, ArgentConserve, Cotisants
<1>7. \A k \in Ids : Tour(k)'
  <2>1. Tour(i)'
    BY <1>3, EtapeEffet DEF ITontine, Tour, Virer, Cotisant
  <2>2. ASSUME NEW k \in Ids, k # i PROVE Tour(k)'
    <3>1. Tour(k) /\ op'[k] = op[k] /\ verrous'[k] = verrous[k]
      BY <1>3, <2>2, EtapeEffet, LacherEffet DEF ITontine
    <3> QED
      BY <1>3, <3>1 DEF Tour, Cotisant, Cotise, DerniereCotisation, Beneficiaire
  <2> QED
    BY <2>1, <2>2
<1> QED
  BY <1>5, <1>6, <1>7 DEF ITontine

----------------------------------------------------------------------------
(* The COMMIT of a contribution.                                            *)

(* What the request that commits knows: c contributes to cycle k, and pays  *)
(* the pot to b if dern.                                                    *)
Sait(i, c, k, b, dern) ==
  /\ c = op[i].compte /\ k = tontine.cycle /\ b = tontine.ordre[k]
  /\ dern <=> i \in dernieres
  /\ gardien = i /\ tontine.statut = "ACTIVE"
  /\ c \notin Cotisants(k)
  /\ dern <=> Cotisants(k) \cup {c} = Comptes
  /\ c \in verrous[i] /\ (dern => b \in verrous[i])

LEMMA Savoir ==
  ASSUME ITontine, NEW i \in Ids, Valider(i)
  PROVE  \E c \in Comptes, k \in 0..(N - 1), b \in Comptes, dern \in BOOLEAN : Sait(i, c, k, b, dern)
<1>1. Tour(i) /\ op[i].etape = "valider" /\ op[i].compte \in Comptes
  BY Champs DEF ITontine, Valider
<1>2. gardien = i /\ tontine.statut = "ACTIVE" /\ ~Cotise(op[i].compte)
      /\ op[i].compte \in verrous[i]
      /\ (i \in dernieres <=> DerniereCotisation(op[i].compte))
      /\ (i \in dernieres => Beneficiaire \in verrous[i])
  BY <1>1 DEF Tour, Cotisant
<1>3. tontine.cycle \in 0..(N - 1) /\ Beneficiaire \in Comptes
  BY <1>2, EnCours
<1>4. op[i].compte \notin Cotisants(tontine.cycle)
  BY <1>2 DEF Cotise, Cotisants
<1>5. DerniereCotisation(op[i].compte) <=> Cotisants(tontine.cycle) \cup {op[i].compte} = Comptes
  BY <1>1 DEF DerniereCotisation, Cotise, Cotisants
<1>d. \E dern \in BOOLEAN : dern <=> i \in dernieres
  OBVIOUS
<1>6. PICK dern \in BOOLEAN : Sait(i, op[i].compte, tontine.cycle, Beneficiaire, dern)
  BY <1>d, <1>2, <1>4, <1>5 DEF Sait, Beneficiaire
<1> QED
  BY <1>1, <1>3, <1>6

(* The rows it writes.                                                      *)
LEMMA Ecritures ==
  ASSUME ITontine, NEW i \in Ids, Valider(i), NEW c \in Comptes, NEW k \in 0..(N - 1),
         NEW b \in Comptes, NEW dern \in BOOLEAN, Sait(i, c, k, b, dern)
  PROVE  /\ Terminer(i)
         /\ solde' = [d \in Comptes |-> IF d \in verrous[i] THEN lus[i][d] + Net(i, d) ELSE solde[d]]
         /\ mouvements' = mouvements \cup {<<"cotisation", c, k>>}
              \cup (IF dern THEN {<<"distribution", b, k>>} ELSE {})
         /\ aRecu' = IF dern THEN aRecu \cup {b} ELSE aRecu
         /\ tontine' \in Tontines /\ tontine'.ordre = tontine.ordre
         /\ tontine'.cycle = IF dern THEN k + 1 ELSE k
         /\ tontine'.statut = IF dern /\ k + 1 >= N THEN "TERMINEE" ELSE "ACTIVE"
<1>1. ~Cotise(op[i].compte) /\ Beneficiaire = b
  BY DEF Sait, Cotise, Cotisants, Beneficiaire
<1>2. tontine \in Tontines /\ k + 1 \in 0..N
  BY Membres DEF ITontine, Types
<1>3. tontine' = IF dern THEN [tontine EXCEPT !.cycle = k + 1,
                                 !.statut = IF k + 1 >= N THEN "TERMINEE" ELSE "ACTIVE"]
                 ELSE tontine
  BY <1>1, <1>2 DEF Valider, Sait, Tontines
<1>4. /\ tontine' \in Tontines /\ tontine'.ordre = tontine.ordre
      /\ tontine'.cycle = IF dern THEN k + 1 ELSE k
      /\ tontine'.statut = IF dern /\ k + 1 >= N THEN "TERMINEE" ELSE "ACTIVE"
  BY <1>2, <1>3 DEF Tontines, Sait
<1>5. /\ Terminer(i)
      /\ solde' = [d \in Comptes |-> IF d \in verrous[i] THEN lus[i][d] + Net(i, d) ELSE solde[d]]
      /\ mouvements' = mouvements \cup {<<"cotisation", c, k>>}
              \cup (IF dern THEN {<<"distribution", b, k>>} ELSE {})
      /\ aRecu' = IF dern THEN aRecu \cup {b} ELSE aRecu
  BY <1>1 DEF Valider, Sait
<1> QED
  BY <1>4, <1>5

(* The pot, after the COMMIT.                                               *)
LEMMA CommitCagnotte ==
  ASSUME ITontine, NEW i \in Ids, Valider(i), NEW c \in Comptes, NEW k \in 0..(N - 1),
         NEW b \in Comptes, NEW dern \in BOOLEAN, Sait(i, c, k, b, dern)
  PROVE  /\ CagnotteExacte' /\ Avenir'
         /\ Cotisants(k)' = Cotisants(k) \cup {c}
         /\ \A l \in 0..(N - 1) \ {k} : Cotisants(l)' = Cotisants(l)
<1>1. /\ mouvements' = mouvements \cup {<<"cotisation", c, k>>}
              \cup (IF dern THEN {<<"distribution", b, k>>} ELSE {})
      /\ aRecu' = IF dern THEN aRecu \cup {b} ELSE aRecu
      /\ tontine'.ordre = tontine.ordre
      /\ tontine'.cycle = IF dern THEN k + 1 ELSE k
      /\ tontine'.statut = IF dern /\ k + 1 >= N THEN "TERMINEE" ELSE "ACTIVE"
  BY Ecritures
<1>2. /\ k = tontine.cycle /\ b = tontine.ordre[k] /\ tontine.statut = "ACTIVE"
      /\ c \notin Cotisants(k) /\ (dern <=> Cotisants(k) \cup {c} = Comptes)
  BY DEF Sait
<1>3. /\ Cotisants(k)' = Cotisants(k) \cup {c}
      /\ \A l \in 0..(N - 1) \ {k} : Cotisants(l)' = Cotisants(l)
  BY <1>1 DEF Cotisants
<1>4. /\ \A l \in 0..(N - 1), d \in Comptes :
           <<"distribution", d, l>> \in mouvements <=> d = tontine.ordre[l] /\ Cotisants(l) = Comptes
      /\ \A l \in 0..(N - 1) : Cotisants(l) = Comptes <=> l < k
      /\ aRecu = {tontine.ordre[l] : l \in 0..(k - 1)}
      /\ \A l \in 0..(N - 1) : l > k => Cotisants(l) = {}
  BY <1>2 DEF ITontine, Bilan, CagnotteExacte, Avenir
<1>5. N \in Nat /\ k \in Nat /\ k < N
  BY Membres
<1>6. \A l \in 0..(N - 1) : Cotisants(l)' = Comptes <=> l < tontine'.cycle
  <2> SUFFICES ASSUME NEW l \in 0..(N - 1)
               PROVE  Cotisants(l)' = Comptes <=> l < tontine'.cycle
    OBVIOUS
  <2>1. CASE l # k
    <3>1. Cotisants(l)' = Comptes <=> l < k
      BY <1>3, <1>4, <2>1
    <3>2. l < tontine'.cycle <=> l < k
      BY <1>1, <1>5, <2>1
    <3> QED
      BY <3>1, <3>2
  <2>2. CASE l = k
    <3>1. l < tontine'.cycle <=> dern
      BY <1>1, <1>5, <2>2
    <3> QED
      BY <1>2, <1>3, <2>2, <3>1
  <2> QED
    BY <2>1, <2>2
<1>7. \A l \in 0..(N - 1), d \in Comptes :
        <<"distribution", d, l>> \in mouvements' <=>
          d = tontine'.ordre[l] /\ Cotisants(l)' = Comptes
  <2> SUFFICES ASSUME NEW l \in 0..(N - 1), NEW d \in Comptes
               PROVE  <<"distribution", d, l>> \in mouvements' <=>
                        d = tontine.ordre[l] /\ Cotisants(l)' = Comptes
    BY <1>1
  <2>1. CASE l # k
    <3>1. <<"distribution", d, l>> \in mouvements' <=> <<"distribution", d, l>> \in mouvements
      BY <1>1, <2>1
    <3> QED
      BY <1>3, <1>4, <2>1, <3>1
  <2>2. CASE l = k
    <3>1. <<"distribution", d, k>> \notin mouvements
      BY <1>4, <1>5
    <3>2. <<"distribution", d, k>> \in mouvements' <=> dern /\ d = b
      BY <1>1, <3>1
    <3> QED
      BY <1>2, <1>3, <2>2, <3>2
  <2> QED
    BY <2>1, <2>2
<1>8. aRecu' = {tontine'.ordre[l] : l \in 0..(tontine'.cycle - 1)}
  <2>1. CASE dern
    <3>1. 0..(tontine'.cycle - 1) = 0..(k - 1) \cup {k}
      BY <1>1, <1>5, <2>1
    <3> QED
      BY <1>1, <1>2, <1>4, <2>1, <3>1
  <2>2. CASE ~dern
    BY <1>1, <1>4, <2>2
  <2> QED
    BY <2>1, <2>2
<1>9. tontine'.statut = "TERMINEE" <=> tontine'.cycle = N
  BY <1>1, <1>5
<1>10. Avenir'
  <2> SUFFICES ASSUME NEW l \in 0..(N - 1), l > tontine'.cycle PROVE Cotisants(l)' = {}
    BY DEF Avenir
  <2> QED
    BY <1>1, <1>3, <1>4, <1>5
<1> QED
  BY <1>3, <1>6, <1>7, <1>8, <1>9, <1>10 DEF CagnotteExacte

(* The money, after the COMMIT.                                             *)
LEMMA CommitArgent ==
  ASSUME ITontine, NEW i \in Ids, Valider(i), NEW c \in Comptes, NEW k \in 0..(N - 1),
         NEW b \in Comptes, NEW dern \in BOOLEAN, Sait(i, c, k, b, dern)
  PROVE  /\ solde' \in [Comptes -> Int]
         /\ \A d \in Comptes \ verrous[i] : solde'[d] = solde[d]
         /\ ArgentConserve'
<1> DEFINE h == [d \in Comptes |-> solde[d] - IF d = c THEN Cotisation ELSE 0]
           pot == IF dern THEN N * Cotisation ELSE 0
           n == Cardinality(Cotisants(k))
           S == SumFunctionOnSet(solde, Comptes)
<1>0. /\ solde \in [Comptes -> Int] /\ Cotisation \in Nat /\ N \in Nat \ {0} /\ k < N
      /\ N * Cotisation \in Int
  BY Membres, TontineConstantes DEF ITontine, Types
<1>1. /\ op[i].compte = c /\ Beneficiaire = b /\ (i \in dernieres <=> dern)
      /\ c \in verrous[i] /\ (dern => b \in verrous[i]) /\ k = tontine.cycle
      /\ c \notin Cotisants(k) /\ (dern <=> Cotisants(k) \cup {c} = Comptes)
  BY DEF Sait, Beneficiaire
<1>2. \A d \in Comptes : solde'[d] = h[d] + (IF d = b THEN pot ELSE 0)
  <2> SUFFICES ASSUME NEW d \in Comptes PROVE solde'[d] = h[d] + (IF d = b THEN pot ELSE 0)
    OBVIOUS
  <2>1. solde'[d] = IF d \in verrous[i] THEN lus[i][d] + Net(i, d) ELSE solde[d]
    BY Ecritures
  <2>2. Net(i, d) = (IF d = c THEN -Cotisation ELSE 0) + (IF d = b THEN pot ELSE 0)
    BY <1>1 DEF Net
  <2>3. d \in verrous[i] => lus[i][d] = solde[d]
    BY DEF ITontine, Frais
  <2>4. pot \in Int /\ solde[d] \in Int
    BY <1>0
  <2> HIDE DEF pot
  <2>5. CASE d \in verrous[i]
    BY <1>0, <2>1, <2>2, <2>3, <2>4, <2>5
  <2>6. CASE d \notin verrous[i]
    <3>1. d # c /\ (d = b => pot = 0)
      BY <1>1, <2>6 DEF pot
    <3> QED
      BY <2>1, <2>4, <2>6, <3>1
  <2> QED
    BY <2>5, <2>6
<1>3. /\ \A d \in Comptes : h[d] \in Int
      /\ \A d \in Comptes \ {c} : h[d] = solde[d]
      /\ h[c] = solde[c] - Cotisation /\ pot \in Int
  BY <1>0
<1>4. solde' \in [Comptes -> Int]
  <2>1. \A d \in Comptes : solde'[d] \in Int
    BY <1>2, <1>3
  <2>2. solde' = [d \in Comptes |-> solde'[d]]
    BY Ecritures
  <2> QED
    BY <2>1, <2>2
<1>5. \A d \in Comptes \ verrous[i] : solde'[d] = solde[d]
  BY Ecritures
<1>6. S \in Int /\ SumFunctionOnSet(h, Comptes) = S - Cotisation
  <2>1. \A d \in Comptes : solde[d] \in Int
    BY <1>0
  <2>2. h[c] \in Int /\ solde[c] \in Int
    BY <1>0, <1>3
  <2> HIDE DEF h
  <2>3. S \in Int /\ SumFunctionOnSet(h, Comptes) = S - solde[c] + h[c]
    BY <1>3, <2>1, <2>2, Membres, SommeMiseAJour
  <2> QED
    BY <1>0, <1>3, <2>2, <2>3
<1>7. SumFunctionOnSet(solde', Comptes) = S - Cotisation + pot
  <2>1. /\ \A d \in Comptes : h[d] \in Int
        /\ solde'[b] \in Int /\ \A d \in Comptes \ {b} : solde'[d] = h[d]
        /\ solde'[b] = h[b] + pot
    BY <1>2, <1>3, <1>4
  <2> HIDE DEF h, pot, S
  <2>2. SumFunctionOnSet(solde', Comptes) = SumFunctionOnSet(h, Comptes) - h[b] + solde'[b]
        /\ SumFunctionOnSet(h, Comptes) \in Int
    BY <2>1, Membres, SommeMiseAJour
  <2> QED
    BY <1>0, <1>3, <1>6, <2>1, <2>2
<1>8. S = N * Depot - Cotisation * n
  BY <1>0, <1>1 DEF ITontine, Bilan, ArgentConserve
<1>9. /\ n \in Nat /\ Cardinality(Cotisants(k) \cup {c}) = n + 1
      /\ Cardinality({}) = 0
  <2>1. IsFiniteSet(Cotisants(k))
    BY Membres, FS_Subset DEF Cotisants
  <2> QED
    BY <1>1, <2>1, FS_AddElement, FS_CardinalityType, FS_EmptySet
<1>10. /\ tontine'.cycle = IF dern THEN k + 1 ELSE k
       /\ Cotisants(k)' = Cotisants(k) \cup {c}
       /\ \A l \in 0..(N - 1) \ {k} : Cotisants(l)' = Cotisants(l)
  BY Ecritures, CommitCagnotte
<1>k. PICK kk \in Nat : kk = tontine'.cycle
  BY <1>0, <1>10
<1>11. N * Depot \in Int /\ Cotisation * n \in Int /\ Cotisation * (n + 1) = Cotisation * n + Cotisation
  BY <1>0, <1>9, PortefeuilleConstantes
<1>12. CASE dern
  <2>1. n + 1 = N
    BY <1>1, <1>9, <1>12 DEF N
  <2>2. SumFunctionOnSet(solde', Comptes) = N * Depot
    <3>1. pot = Cotisation * (n + 1)
      BY <1>0, <1>12, <2>1
    <3> HIDE DEF S, n, pot
    <3> QED
      BY <1>0, <1>6, <1>7, <1>8, <1>11, <3>1
  <2>3. kk < N => Cotisation * Cardinality(Cotisants(kk)') = 0
    <3>1. CASE k + 1 < N
      <4>1. k + 1 \in 0..(N - 1) \ {k} /\ k + 1 > k
        BY <1>0, <3>1
      <4>2. Cotisants(k + 1) = {}
        BY <1>1, <4>1 DEF ITontine, Bilan, Avenir
      <4>3. Cotisants(k + 1)' = {}
        BY <1>10, <4>1, <4>2
      <4>4. kk = k + 1
        BY <1>10, <1>12, <1>k
      <4>5. Cardinality(Cotisants(kk)') = 0
        BY <1>9, <4>3, <4>4
      <4> QED
        BY <1>0, <4>5
    <3>2. CASE ~(k + 1 < N)
      BY <1>10, <1>12, <1>k, <3>2
    <3> QED
      BY <3>1, <3>2
  <2> QED
    BY <1>4, <1>5, <1>11, <1>k, <2>2, <2>3 DEF ArgentConserve, Cotisants
<1>13. CASE ~dern
  <2>1. Cardinality(Cotisants(kk)') = n + 1 /\ kk < N
    BY <1>0, <1>9, <1>10, <1>13, <1>k
  <2>2. SumFunctionOnSet(solde', Comptes) = N * Depot - Cotisation * (n + 1)
    <3>1. pot = 0
      BY <1>13
    <3> HIDE DEF S, n, pot
    <3> QED
      BY <1>0, <1>6, <1>7, <1>8, <1>11, <3>1
  <2> HIDE DEF n
  <2> QED
    BY <1>4, <1>5, <1>k, <2>1, <2>2 DEF ArgentConserve, Cotisants
<1> QED
  BY <1>12, <1>13

LEMMA PasValider ==
  ASSUME ITontine, NEW i \in Ids, Valider(i)
  PROVE  ITontine'
<1>1. PICK c \in Comptes, k \in 0..(N - 1), b \in Comptes, dern \in BOOLEAN : Sait(i, c, k, b, dern)
  BY Savoir
<1>2. /\ Terminer(i) /\ tontine' \in Tontines
      /\ mouvements' = mouvements \cup {<<"cotisation", c, k>>}
              \cup (IF dern THEN {<<"distribution", b, k>>} ELSE {})
  BY <1>1, Ecritures
<1>3. /\ solde' \in [Comptes -> Int]
      /\ \A d \in Comptes \ verrous[i] : solde'[d] = solde[d]
      /\ ArgentConserve' /\ CagnotteExacte' /\ Avenir'
  BY <1>1, CommitArgent, CommitCagnotte
<1>4. /\ Lacher(i) /\ Etape(i, "fini") /\ dernieres' = dernieres \ {i}
      /\ gardien' = IF gardien = i THEN Aucun ELSE gardien
  BY <1>2 DEF Terminer
<1>5. Types'
  <2>1. mouvements' \subseteq {"cotisation", "distribution"} \X Comptes \X (0..(N - 1))
    BY <1>2 DEF ITontine, Types
  <2> QED
    BY <1>2, <1>3, <1>4, <2>1, PasSoldes DEF ITontine, Types
<1>6. \A x \in Ids : Tour(x)'
  <2>1. Tour(i)'
    BY <1>4, EtapeEffet DEF Tour, Cotisant
  <2>2. ASSUME NEW x \in Ids, x # i PROVE Tour(x)'
    <3>1. /\ Tour(x) /\ op'[x] = op[x] /\ gardien = i
          /\ x \in dernieres' <=> x \in dernieres
      BY <1>1, <1>4, <2>2, EtapeEffet DEF ITontine, Sait
    <3>2. ~Cotisant(x) /\ x \notin dernieres
      BY <2>2, <3>1 DEF Tour, Cotisant
    <3> QED
      BY <3>1, <3>2 DEF Tour, Cotisant
  <2> QED
    BY <2>1, <2>2
<1> QED
  BY <1>3, <1>4, <1>5, <1>6, PasSoldes DEF ITontine, Bilan

----------------------------------------------------------------------------
(* The invariant and the theorems.                                          *)

LEMMA PasCreer ==
  ASSUME ITontine, Creer
  PROVE  ITontine'
<1>1. /\ tontine.statut = "absente" /\ tontine' = [tontine EXCEPT !.statut = "ACTIVE"]
      /\ UNCHANGED <<op, solde, verrous, lus, mouvements, aRecu, gardien, dernieres>>
  BY DEF Creer, varsPortefeuille
<1>2. /\ tontine' \in Tontines /\ tontine'.cycle = tontine.cycle /\ tontine'.ordre = tontine.ordre
      /\ tontine'.statut = "ACTIVE"
  BY <1>1 DEF ITontine, Types, Tontines
<1>3. Types' /\ Exclusion' /\ Frais'
  BY <1>1, <1>2 DEF ITontine, Types, Exclusion, Frais
<1>4. Bilan'
  BY <1>1, <1>2 DEF ITontine, Bilan, CagnotteExacte, Avenir, ArgentConserve, Cotisants
<1>5. \A i \in Ids : Tour(i)' /\ Transfert(i)'
  BY <1>1, <1>2 DEF ITontine, Tour, Transfert, Cotisant, Premier, DansLOrdre
<1> QED
  BY <1>3, <1>4, <1>5 DEF ITontine

(* Suspensions change no wallet.                                            *)
LEMMA PasAilleurs ==
  ASSUME ITontine, UNCHANGED <<op, solde, verrous, lus, varsTontine>>
  PROVE  ITontine'
<1>1. Types' /\ Exclusion' /\ Frais' /\ Bilan'
  BY BilanInchange DEF ITontine, Types, Exclusion, Frais, varsTontine, tables
<1>2. \A i \in Ids : Tour(i)' /\ Transfert(i)'
  BY DEF ITontine, Tour, Transfert, Cotisant, Cotise, DerniereCotisation, Beneficiaire, Premier,
     DansLOrdre, varsTontine
<1> QED
  BY <1>1, <1>2 DEF ITontine

LEMMA InitTontine == Init => ITontine
<1> SUFFICES ASSUME Init PROVE ITontine
  OBVIOUS
<1>0. N \in Nat \ {0} /\ IsFiniteSet(Comptes) /\ Procs = Ids /\ Comptes # {} /\ Depot \in Int
  BY Membres, PortefeuilleConstantes
<1>1. (CHOOSE c \in Comptes : TRUE) \in Comptes
  BY <1>0
<1>2. PICK f \in Ordres : tontine = [statut |-> "absente", cycle |-> 0, ordre |-> f]
  BY DEF Init
<1>3. Types
  <2>1. \A i \in Ids : op[i] \in Operation
    BY <1>1 DEF Init, InitPortefeuille, Operation
  <2>2. op \in [Ids -> Operation]
    BY <2>1 DEF Init, InitPortefeuille
  <2>3. tontine \in Tontines
    BY <1>0, <1>2 DEF Tontines, Ordres
  <2> QED
    BY <1>0, <2>2, <2>3 DEF Init, InitPortefeuille, Types
<1>4. Exclusion /\ Frais
  BY <1>0 DEF Init, InitPortefeuille, Exclusion, Frais
<1>5. \A i \in Ids : Tour(i) /\ Transfert(i)
  BY DEF Init, InitPortefeuille, Tour, Transfert, Cotisant
<1>6. \A k \in 0..(N - 1) : Cotisants(k) = {}
  BY DEF Init, Cotisants
<1>7. CagnotteExacte /\ Avenir
  <2>1. tontine.cycle = 0 /\ tontine.statut = "absente" /\ 0..(0 - 1) = {}
    BY <1>2
  <2> QED
    BY <1>0, <1>6, <2>1 DEF Init, CagnotteExacte, Avenir
<1>8. ArgentConserve
  <2>1. SumFunctionOnSet(solde, Comptes) = N * Depot
    BY <1>0, SommeConstante DEF Init, InitPortefeuille, N
  <2>2. tontine.cycle = 0 /\ 0 \in 0..(N - 1) /\ Cotisants(0) = {} /\ Cardinality({}) = 0
    BY <1>0, <1>2, <1>6, FS_EmptySet
  <2>3. Cotisation * 0 = 0 /\ N * Depot \in Int /\ N * Depot - 0 = N * Depot
    BY <1>0, TontineConstantes
  <2> QED
    BY <2>1, <2>2, <2>3 DEF ArgentConserve
<1> QED
  BY <1>3, <1>4, <1>5, <1>7, <1>8 DEF ITontine, Bilan

LEMMA PasRecevoirCotisation ==
  ASSUME ITontine, NEW i \in Ids, RecevoirCotisation(i)
  PROVE  ITontine'
<1>1. Cotisation \in Nat /\ SansCle \in Cles \cup {SansCle}
  BY TontineConstantes
<1>2. PICK c \in Comptes : Nouvelle(i, "cotisation", c, c, Cotisation, SansCle, "tontine")
  BY DEF RecevoirCotisation
<1> QED
  BY <1>1, <1>2, PasNouvelle

LEMMA PasRecevoirTransfert ==
  ASSUME ITontine, NEW i \in Ids, RecevoirTransfert(i), UNCHANGED varsTontine
  PROVE  ITontine'
<1>1. PICK c \in Comptes, v \in Comptes, m \in Montants, k \in Cles \cup {SansCle} :
        c # v /\ Nouvelle(i, "transfert", c, v, m, k, "premier")
  BY DEF RecevoirTransfert
<1>2. m \in Nat
  BY PortefeuilleConstantes
<1> QED
  BY <1>1, <1>2, PasNouvelle

LEMMA PasTontine == ITontine /\ [Next]_vars => ITontine'
<1> SUFFICES ASSUME ITontine, [Next]_vars PROVE ITontine'
  OBVIOUS
<1>1. CASE UNCHANGED vars
  BY <1>1, PasAilleurs DEF vars, varsPortefeuille
<1>2. CASE Creer
  BY <1>2, PasCreer
<1>3. CASE \E c \in Comptes : BasculerCompte(c) /\ UNCHANGED varsTontine
  BY <1>3, PasAilleurs DEF BasculerCompte
<1>4. ASSUME NEW i \in Ids, RecevoirCotisation(i) \/ EtapeCotisation(i) \/ Autre(i) \/ Panne(i)
      PROVE  ITontine'
  <2>1. CASE EtapeCotisation(i)
    BY <2>1, PasVerrouillerTontine, PasVerrouillerCotisant, PasVerrouillerBeneficiaire, PasValider,
       PasAnnuler DEF EtapeCotisation, Refuser, Interblocage
  <2>2. CASE Autre(i)
    BY <2>2, PasRecevoirTransfert, PasVerrouillerPremier, PasVerrouillerSecond, PasVirer DEF Autre
  <2>3. CASE RecevoirCotisation(i)
    BY <2>3, PasRecevoirCotisation
  <2>4. CASE Panne(i)
    BY <2>4, PasPanne
  <2> QED
    BY <1>4, <2>1, <2>2, <2>3, <2>4
<1> QED
  BY <1>1, <1>2, <1>3, <1>4 DEF Next

(* ITontine holds in every reachable state of tontines.service.ts and the   *)
(* transfers on the same wallets.                                           *)
THEOREM Invariant == Spec => []ITontine
BY InitTontine, PasTontine, PTL DEF Spec

(* cotiser pays the pot of a cycle once, to the member whose turn it is,    *)
(* when every member has contributed.                                       *)
THEOREM CagnotteToujoursExacte == Spec => []CagnotteExacte
<1>1. ITontine => CagnotteExacte
  BY DEF ITontine, Bilan
<1> QED
  BY <1>1, Invariant, PTL

(* What is missing from the wallets is the contributions of the cycle in    *)
(* progress: cotiser and its distribution neither create nor lose money.    *)
THEOREM ArgentToujoursConserve == Spec => []ArgentConserve
<1>1. ITontine => ArgentConserve
  BY DEF ITontine, Bilan
<1> QED
  BY <1>1, Invariant, PTL
=============================================================================

--------------------------- MODULE RechargeProofs ---------------------------
(***************************************************************************)
(* For any number of wallets, requests and settlement processes: a balance  *)
(* is the sum of its ledger rows and never negative, a key moves money      *)
(* once, the rows of withdrawals and payments agree with the wallets, no    *)
(* circle of locks forms, and what the owners see is the ledger of          *)
(* GrandLivre.                                                              *)
(*                                                                          *)
(* A process writes the balance it computed from lus, what it read earlier: *)
(* that is right only because the row was locked from the reading to the    *)
(* writing.  The invariant says so (Exclusion, LusFrais), and what each     *)
(* process holds and has checked at each of its steps (OpTient, AgentTient).*)
(* What the ledger, the row and the operator say of an operation depends on *)
(* its step: JInv says how, on top of IInv.                                 *)
(***************************************************************************)
EXTENDS Recharge, SommesTheorems

(* A wallet row has one holder, and what was read under a lock is still the *)
(* balance.                                                                 *)
Exclusion ==
  \A p, q \in Procs, c \in Comptes : c \in verrous[p] /\ c \in verrous[q] => p = q

LusFrais == \A p \in Procs, c \in Comptes : c \in verrous[p] => lus[p][c] = solde[c]

(* The wallets, their ledger and their locks.                               *)
Argent ==
  /\ solde \in [Comptes -> Int]
  /\ registre \in [Ids -> [Comptes -> Int]]
  /\ verrous \in [Procs -> SUBSET Comptes]
  /\ lus \in [Procs -> [Comptes -> Int]]
  /\ Exclusion
  /\ LusFrais
  /\ SoldeJournal
  /\ SoldePositif

(* The other variables have their types.                                    *)
Autour ==
  /\ op \in [Ids -> Operation]
  /\ suspendu \in [Comptes -> BOOLEAN]
  /\ etat \in [Ids -> Etats]
  /\ operateur \in [Ids -> Operateurs]
  /\ pannes \in 0..MaxPannes
  /\ agents \in [Agents -> Agent]
  /\ creeLe \in [Ids -> Nat]

(* A payment whose request is over.                                         *)
Rangee(i) == Paiement(i) /\ op[i].etape = "fini"

Couvert(i) == lus[i][op[i].compte] >= op[i].montant

(* What a request holds, has checked and has not done yet, by its step.     *)
OpTient(i) ==
  /\ op[i].genre = "aucun" => op[i].etape = "libre"
  /\ op[i].etape \in {"premier", "second", "virer"} => op[i].compte # op[i].vers
  /\ op[i].etape = "second" => Premier(i) \in verrous[i]
  /\ op[i].etape = "virer" => {op[i].compte, op[i].vers} \subseteq verrous[i] /\ Couvert(i)
  /\ op[i].etape = "debiter" => op[i].compte \in verrous[i] /\ Couvert(i)
  /\ op[i].etape = "rembourser" => op[i].compte \in verrous[i]
  /\ op[i].etape = "ecrire" => /\ op[i].compte \in verrous[i]
                               /\ op[i].genre = "admin_debit" => Couvert(i)
  /\ op[i].etape \in {"libre", "premier", "second", "virer"} =>
       \A c \in Comptes : registre[i][c] = 0
  /\ etat[i] = "PENDING" => Rangee(i)

(* A settlement process works on payments whose request is over, and holds  *)
(* the wallet it is about to credit.                                        *)
EnCours == {"consulter", "echec", "marquer", "compte", "crediter", "notifier"}

AgentTient(a) ==
  /\ agents[a].etape \in EnCours => agents[a].ligne \in Ids /\ Rangee(agents[a].ligne)
  /\ \A i \in agents[a].reste : Rangee(i)
  /\ agents[a].etape = "crediter" => op[agents[a].ligne].compte \in verrous[a]

IInv ==
  /\ Argent
  /\ Autour
  /\ \A i \in Ids : OpTient(i)
  /\ \A a \in Agents : AgentTient(a)

----------------------------------------------------------------------------
(* The assumptions, and the rows in the order of created_at.                *)

LEMMA Finis == IsFiniteSet(Ids) /\ IsFiniteSet(Comptes) /\ Ids \cap Agents = {}
BY PortefeuilleConstantes

(* A set of rows that is not empty has an oldest row.                       *)
LEMMA PlusAncienneExiste ==
  ASSUME creeLe \in [Ids -> Nat], NEW S \in SUBSET Ids, S # {}
  PROVE  /\ PlusAncienne(S) \in S
         /\ \A k \in S : creeLe[PlusAncienne(S)] <= creeLe[k]
<1> DEFINE Avant(i) == {k \in S : creeLe[k] < creeLe[i]}
           B == {Avant(i) : i \in S}
<1>1. IsFiniteSet(S)
  BY Finis, FS_Subset
<1>2. B \in SUBSET (SUBSET S) /\ B # {}
  OBVIOUS
<1>3. PICK T \in B : \A U \in B : ~(U \subseteq T /\ U # T)
  <2> HIDE DEF B
  <2> QED BY <1>1, <1>2, MinimalSubset
<1>4. PICK i \in S : T = Avant(i)
  OBVIOUS
<1>5. ASSUME NEW k \in S, creeLe[k] < creeLe[i] PROVE FALSE
  <2>1. k \in Avant(i) /\ k \notin Avant(k)
    BY <1>5
  <2>2. Avant(k) \subseteq Avant(i)
    BY <1>5
  <2> QED BY <1>3, <1>4, <2>1, <2>2
<1>6. \A k \in S : creeLe[i] <= creeLe[k]
  BY <1>5
<1> QED BY <1>6, Zenon DEF PlusAncienne

(* The state of a process that goes on with a set of rows has its type.     *)
LEMMA SuivanteType ==
  ASSUME creeLe \in [Ids -> Nat], NEW S \in SUBSET Ids, S # {}
  PROVE  /\ Suivante(S) \in Agent
         /\ Suivante(S).etape = "consulter"
         /\ Suivante(S).ligne \in S
         /\ Suivante(S).reste \subseteq S
BY PlusAncienneExiste DEF Suivante, Agent

(* The lot of the cron is not empty: nothing is older than the oldest.      *)
LEMMA LotNonVide ==
  ASSUME creeLe \in [Ids -> Nat], EnAttente # {}
  PROVE  {i \in EnAttente : Cardinality({k \in EnAttente : creeLe[k] < creeLe[i]}) < Lot} # {}
<1> DEFINE i == PlusAncienne(EnAttente)
<1>1. EnAttente \in SUBSET Ids
  BY DEF EnAttente
<1>2. i \in EnAttente /\ \A k \in EnAttente : creeLe[i] <= creeLe[k]
  BY <1>1, PlusAncienneExiste
<1> HIDE DEF i
<1>3. {k \in EnAttente : creeLe[k] < creeLe[i]} = {}
  BY <1>1, <1>2
<1>4. Cardinality({}) < Lot
  BY FS_EmptySet, RechargeConstantes
<1> QED BY <1>2, <1>3, <1>4

----------------------------------------------------------------------------
(* The money.                                                               *)

(* The sum of the rows of a wallet follows the one operation that writes.   *)
LEMMA LivreSuit ==
  ASSUME registre \in [Ids -> [Comptes -> Int]], registre' \in [Ids -> [Comptes -> Int]],
         NEW i \in Ids, NEW c \in Comptes,
         \A k \in Ids \ {i} : registre'[k] = registre[k]
  PROVE  /\ SumFunctionOnSet([k \in Ids |-> registre[k][c]], Ids) \in Int
         /\ SumFunctionOnSet([k \in Ids |-> registre'[k][c]], Ids)
            = SumFunctionOnSet([k \in Ids |-> registre[k][c]], Ids)
              - registre[i][c] + registre'[i][c]
<1> DEFINE f == [k \in Ids |-> registre[k][c]]
           h == [k \in Ids |-> registre'[k][c]]
<1>1. \A k \in Ids : f[k] \in Int
  OBVIOUS
<1>2. h[i] \in Int
  OBVIOUS
<1>0. \A k \in Ids \ {i} : h[k] = f[k]
  OBVIOUS
<1>3. SumFunctionOnSet(f, Ids) \in Int
  <2> HIDE DEF f, h
  <2> QED BY <1>1, Finis, SommeType
<1>4. SumFunctionOnSet(h, Ids) = SumFunctionOnSet(f, Ids) - f[i] + h[i]
  <2> HIDE DEF f, h
  <2> QED BY <1>0, <1>1, <1>2, Finis, SommeMiseAJour
<1> QED BY <1>3, <1>4

(* A step that touches no balance, row or lock.                             *)
LEMMA ArgentInchange ==
  ASSUME Argent, UNCHANGED <<solde, registre, verrous, lus>>
  PROVE  Argent'
BY DEF Argent, Exclusion, LusFrais, SoldeJournal, SoldePositif

(* A row that nobody else has is locked and read.                           *)
LEMMA ArgentPrendre ==
  ASSUME Argent, NEW p \in Procs, NEW c \in Comptes, Prendre(p, c),
         UNCHANGED <<solde, registre>>
  PROVE  /\ Argent'
         /\ verrous'[p] = verrous[p] \cup {c}
         /\ lus'[p][c] = solde[c]
         /\ \A d \in verrous[p] : lus'[p][d] = solde[d]
         /\ \A q \in Procs \ {p} : verrous'[q] = verrous[q] /\ lus'[q] = lus[q]
<1> USE DEF Argent
<1>1. /\ verrous' = [verrous EXCEPT ![p] = verrous[p] \cup {c}]
      /\ lus' = [lus EXCEPT ![p] = [lus[p] EXCEPT ![c] = solde[c]]]
      /\ \A q \in Procs \ {p} : c \notin verrous[q]
  BY DEF Prendre, CompteLibre
<1>2. verrous' \in [Procs -> SUBSET Comptes]
  BY <1>1
<1>3. [lus[p] EXCEPT ![c] = solde[c]] \in [Comptes -> Int]
  OBVIOUS
<1>4. lus' \in [Procs -> [Comptes -> Int]]
  BY <1>1, <1>3
<1>5. /\ verrous'[p] = verrous[p] \cup {c}
      /\ lus'[p] = [lus[p] EXCEPT ![c] = solde[c]]
      /\ \A q \in Procs \ {p} : verrous'[q] = verrous[q] /\ lus'[q] = lus[q]
  BY <1>1
<1>6. Exclusion'
  BY <1>1, <1>5 DEF Exclusion
<1>7. LusFrais'
  BY <1>5 DEF LusFrais
<1>8. SoldeJournal' /\ SoldePositif'
  BY DEF SoldeJournal, SoldePositif
<1>9. \A d \in verrous[p] : lus'[p][d] = solde[d]
  BY <1>5 DEF LusFrais
<1> QED BY <1>2, <1>4, <1>5, <1>6, <1>7, <1>8, <1>9

(* The end of a transaction: p keeps nothing.                               *)
LEMMA LacherTout ==
  ASSUME Argent, NEW p \in Procs, Lacher(p)
  PROVE  /\ verrous' \in [Procs -> SUBSET Comptes]
         /\ lus' \in [Procs -> [Comptes -> Int]]
         /\ verrous'[p] = {}
         /\ \A q \in Procs \ {p} : verrous'[q] = verrous[q] /\ lus'[q] = lus[q]
         /\ Exclusion'
<1> USE DEF Argent
<1>1. /\ verrous' = [verrous EXCEPT ![p] = {}]
      /\ lus' = [lus EXCEPT ![p] = [c \in Comptes |-> 0]]
  BY DEF Lacher
<1>2. verrous' \in [Procs -> SUBSET Comptes] /\ lus' \in [Procs -> [Comptes -> Int]]
  BY <1>1
<1>3. /\ verrous'[p] = {}
      /\ \A q \in Procs \ {p} : verrous'[q] = verrous[q] /\ lus'[q] = lus[q]
  BY <1>1
<1>4. Exclusion'
  BY <1>3 DEF Exclusion
<1> QED BY <1>2, <1>3, <1>4

(* A transaction that ends without writing.                                 *)
LEMMA ArgentLacher ==
  ASSUME Argent, NEW p \in Procs, Lacher(p), UNCHANGED <<solde, registre>>
  PROVE  Argent'
<1>1. LusFrais'
  BY LacherTout DEF Argent, LusFrais
<1>2. SoldeJournal' /\ SoldePositif'
  BY DEF Argent, SoldeJournal, SoldePositif
<1> QED BY <1>1, <1>2, LacherTout DEF Argent

(* The holder of a row writes the balance it computed and its ledger row.   *)
LEMMA ArgentMouvement ==
  ASSUME Argent, NEW p \in Procs, NEW i \in Ids, NEW c \in Comptes, NEW m \in Int,
         c \in verrous[p], lus[p][c] + m >= 0, Mouvement(p, i, c, m), Lacher(p)
  PROVE  /\ Argent'
         /\ \A k \in Ids \ {i} : registre'[k] = registre[k]
<1> USE DEF Argent
<1>1. /\ solde' = [solde EXCEPT ![c] = lus[p][c] + m]
      /\ registre' = [registre EXCEPT ![i] = [registre[i] EXCEPT ![c] = registre[i][c] + m]]
  BY Zenon DEF Mouvement
<1>2. lus[p][c] = solde[c] /\ lus[p][c] \in Int
  BY DEF LusFrais
<1>3. solde' \in [Comptes -> Int]
  BY <1>1, <1>2
<1>4. [registre[i] EXCEPT ![c] = registre[i][c] + m] \in [Comptes -> Int]
  OBVIOUS
<1>5. registre' \in [Ids -> [Comptes -> Int]]
  BY <1>1, <1>4
<1>6. /\ registre'[i] = [registre[i] EXCEPT ![c] = registre[i][c] + m]
      /\ \A k \in Ids \ {i} : registre'[k] = registre[k]
  BY <1>1
<1>7. LusFrais'
  <2> SUFFICES ASSUME NEW q \in Procs, NEW d \in Comptes, d \in verrous'[q]
               PROVE  lus'[q][d] = solde'[d]
    BY DEF LusFrais
  <2>1. q # p /\ verrous'[q] = verrous[q] /\ lus'[q] = lus[q]
    BY LacherTout
  <2>2. d # c
    BY <2>1 DEF Exclusion
  <2> QED BY <1>1, <2>1, <2>2 DEF LusFrais
<1>8. SoldeJournal'
  <2> SUFFICES ASSUME NEW d \in Comptes
               PROVE  solde'[d] = Depot + SumFunctionOnSet([k \in Ids |-> registre'[k][d]], Ids)
    BY DEF SoldeJournal
  <2>1. /\ SumFunctionOnSet([k \in Ids |-> registre[k][d]], Ids) \in Int
        /\ SumFunctionOnSet([k \in Ids |-> registre'[k][d]], Ids)
           = SumFunctionOnSet([k \in Ids |-> registre[k][d]], Ids)
             - registre[i][d] + registre'[i][d]
    BY <1>5, <1>6, LivreSuit
  <2>2. solde[d] = Depot + SumFunctionOnSet([k \in Ids |-> registre[k][d]], Ids)
    BY DEF SoldeJournal
  <2>3. /\ registre'[i][d] = registre[i][d] + (IF d = c THEN m ELSE 0)
        /\ solde'[d] = solde[d] + (IF d = c THEN m ELSE 0)
        /\ registre[i][d] \in Int /\ solde[d] \in Int
    BY <1>1, <1>2, <1>6
  <2> QED BY <2>1, <2>2, <2>3, PortefeuilleConstantes
<1>9. SoldePositif'
  BY <1>1 DEF SoldePositif
<1> QED BY <1>3, <1>5, <1>6, <1>7, <1>8, <1>9, LacherTout

(* Two balances and two rows in one transaction.                            *)
LEMMA ArgentVirement ==
  ASSUME Argent, NEW i \in Ids, NEW c \in Comptes, NEW v \in Comptes, NEW m \in Nat,
         c # v, c \in verrous[i], v \in verrous[i], lus[i][c] >= m,
         \A d \in Comptes : registre[i][d] = 0,
         solde' = [solde EXCEPT ![c] = lus[i][c] - m, ![v] = lus[i][v] + m],
         registre' = [registre EXCEPT ![i] = [registre[i] EXCEPT ![c] = -m, ![v] = m]],
         Lacher(i)
  PROVE  /\ Argent'
         /\ \A k \in Ids \ {i} : registre'[k] = registre[k]
<1> USE DEF Argent
<1>0. i \in Procs
  BY DEF Procs
<1>2. /\ lus[i][c] = solde[c] /\ lus[i][v] = solde[v]
      /\ solde[c] \in Int /\ solde[v] \in Int /\ solde[c] >= 0 /\ solde[v] >= 0
  BY <1>0 DEF LusFrais, SoldePositif
<1>3. /\ solde' \in [Comptes -> Int]
      /\ solde'[c] = solde[c] - m /\ solde'[v] = solde[v] + m
      /\ \A d \in Comptes \ {c, v} : solde'[d] = solde[d]
  BY <1>2
<1>4. [registre[i] EXCEPT ![c] = -m, ![v] = m] \in [Comptes -> Int]
  OBVIOUS
<1>5. registre' \in [Ids -> [Comptes -> Int]]
  BY <1>4
<1>6. /\ registre'[i] = [registre[i] EXCEPT ![c] = -m, ![v] = m]
      /\ \A k \in Ids \ {i} : registre'[k] = registre[k]
  OBVIOUS
<1>7. LusFrais'
  <2> SUFFICES ASSUME NEW q \in Procs, NEW d \in Comptes, d \in verrous'[q]
               PROVE  lus'[q][d] = solde'[d]
    BY DEF LusFrais
  <2>1. q # i /\ verrous'[q] = verrous[q] /\ lus'[q] = lus[q]
    BY <1>0, LacherTout
  <2>2. d \notin {c, v}
    BY <1>0, <2>1 DEF Exclusion
  <2> QED BY <1>3, <2>1, <2>2 DEF LusFrais
<1>8. SoldeJournal'
  <2> SUFFICES ASSUME NEW d \in Comptes
               PROVE  solde'[d] = Depot + SumFunctionOnSet([k \in Ids |-> registre'[k][d]], Ids)
    BY DEF SoldeJournal
  <2>1. /\ SumFunctionOnSet([k \in Ids |-> registre[k][d]], Ids) \in Int
        /\ SumFunctionOnSet([k \in Ids |-> registre'[k][d]], Ids)
           = SumFunctionOnSet([k \in Ids |-> registre[k][d]], Ids)
             - registre[i][d] + registre'[i][d]
    BY <1>5, <1>6, LivreSuit
  <2>2. solde[d] = Depot + SumFunctionOnSet([k \in Ids |-> registre[k][d]], Ids)
    BY DEF SoldeJournal
  <2>3. /\ registre[i][d] = 0
        /\ registre'[i][d] = IF d = c THEN -m ELSE IF d = v THEN m ELSE 0
    BY <1>6
  <2>4. solde'[d] = solde[d] + registre'[i][d]
    BY <1>2, <1>3, <2>3
  <2>5. solde[d] \in Int /\ registre'[i][d] \in Int
    BY <2>3
  <2> QED BY <2>1, <2>2, <2>3, <2>4, <2>5, PortefeuilleConstantes
<1>9. SoldePositif'
  BY <1>2, <1>3 DEF SoldePositif
<1> QED BY <1>0, <1>3, <1>5, <1>6, <1>7, <1>8, <1>9, LacherTout

----------------------------------------------------------------------------
(* The requests: what moves with a step of i and what does not.             *)

Etapes == {"libre", "ligne", "premier", "second", "virer", "debit", "debiter",
           "envoyer", "confirmer", "retour", "rembourser", "echouer",
           "admin", "ecrire", "fini"}

LEMMA EtapeType ==
  ASSUME op \in [Ids -> Operation], NEW i \in Ids, NEW e \in Etapes, Etape(i, e)
  PROVE  /\ op' \in [Ids -> Operation]
         /\ op'[i].etape = e /\ op'[i].genre = op[i].genre /\ op'[i].compte = op[i].compte
         /\ op'[i].vers = op[i].vers /\ op'[i].montant = op[i].montant
         /\ op'[i].cle = op[i].cle
         /\ \A k \in Ids \ {i} : op'[k] = op[k]
<1>1. op' = [op EXCEPT ![i] = [op[i] EXCEPT !.etape = e]]
  BY DEF Etape
<1>2. op[i] \in Operation
  OBVIOUS
<1>3. [op[i] EXCEPT !.etape = e] \in Operation
  BY <1>2, Zenon DEF Operation, Etapes
<1>4. op'[i] = [op[i] EXCEPT !.etape = e]
  BY <1>1
<1>5. op' \in [Ids -> Operation] /\ \A k \in Ids \ {i} : op'[k] = op[k]
  BY <1>1, <1>3
<1> QED BY <1>2, <1>4, <1>5 DEF Operation

LEMMA NouvelleType ==
  ASSUME op \in [Ids -> Operation], NEW i \in Ids,
         NEW genre \in {"aucun", "transfert", "admin_zero"} \cup Plus \cup Moins,
         NEW c \in Comptes, NEW v \in Comptes, NEW m \in Montants, NEW k \in Cles \cup {SansCle},
         NEW e \in Etapes, Nouvelle(i, genre, c, v, m, k, e)
  PROVE  /\ op' \in [Ids -> Operation]
         /\ op[i].genre = "aucun"
         /\ op'[i] = [genre |-> genre, compte |-> c, vers |-> v, montant |-> m,
                      cle |-> k, etape |-> e]
         /\ \A j \in Ids \ {i} : op'[j] = op[j]
<1>1. m \in Nat
  BY PortefeuilleConstantes
<1>2. [genre |-> genre, compte |-> c, vers |-> v, montant |-> m,
       cle |-> k, etape |-> e] \in Operation
  BY <1>1, Zenon DEF Operation, Etapes
<1> QED BY <1>2 DEF Nouvelle

(* A step of request i, which is not over as a payment is, and leaves the   *)
(* settlement processes alone.                                              *)
LEMMA PasOp ==
  ASSUME IInv, NEW i \in Ids, ~Rangee(i), Argent', Autour', agents' = agents,
         \A k \in Ids \ {i} : op'[k] = op[k] /\ registre'[k] = registre[k] /\ etat'[k] = etat[k],
         \A p \in Procs \ {i} : verrous'[p] = verrous[p] /\ lus'[p] = lus[p],
         OpTient(i)'
  PROVE  IInv'
<1>1. ASSUME NEW k \in Ids PROVE OpTient(k)'
  <2>1. CASE k # i
    <3>1. /\ op'[k] = op[k] /\ registre'[k] = registre[k] /\ etat'[k] = etat[k]
          /\ verrous'[k] = verrous[k] /\ lus'[k] = lus[k]
      BY <2>1 DEF Procs
    <3>2. OpTient(k)
      BY DEF IInv
    <3> QED BY <3>1, <3>2
         DEF OpTient, Couvert, Rangee, Paiement, Premier, DansLOrdre
  <2> QED BY <2>1
<1>2. ASSUME NEW a \in Agents PROVE AgentTient(a)'
  <2>1. AgentTient(a) /\ agents[a] \in Agent
    BY DEF IInv, Autour
  <2>2. verrous'[a] = verrous[a]
    BY Finis DEF Procs
  <2>3. agents[a].reste \subseteq Ids
    BY <2>1 DEF Agent
  <2>4. \A k \in Ids : Rangee(k) => op'[k] = op[k] /\ Rangee(k)'
    BY DEF Rangee, Paiement
  <2>5. agents[a].etape \in EnCours =>
          /\ agents[a].ligne \in Ids
          /\ op'[agents[a].ligne] = op[agents[a].ligne] /\ Rangee(agents[a].ligne)'
    BY <2>1, <2>4 DEF AgentTient
  <2>6. agents[a].etape = "crediter" => agents[a].etape \in EnCours
    BY DEF EnCours
  <2>7. \A k \in agents[a].reste : Rangee(k)'
    BY <2>1, <2>3, <2>4 DEF AgentTient
  <2> QED BY <2>1, <2>2, <2>5, <2>6, <2>7 DEF AgentTient
<1> QED BY <1>1, <1>2 DEF IInv

(* A step of the settlement process a: the requests do not move, and the    *)
(* ledger rows it writes are those of payments.                             *)
LEMMA PasAgent ==
  ASSUME IInv, NEW a \in Agents, Argent', Autour', op' = op,
         \A k \in Ids : registre'[k] = registre[k] \/ Rangee(k),
         \A k \in Ids : etat'[k] = etat[k] \/ etat'[k] # "PENDING",
         \A p \in Procs \ {a} : verrous'[p] = verrous[p] /\ lus'[p] = lus[p],
         \A b \in Agents \ {a} : agents'[b] = agents[b],
         AgentTient(a)'
  PROVE  IInv'
<1>1. ASSUME NEW k \in Ids PROVE OpTient(k)'
  <2>1. verrous'[k] = verrous[k] /\ lus'[k] = lus[k]
    BY Finis DEF Procs
  <2>2. OpTient(k)
    BY DEF IInv
  <2> QED BY <2>1, <2>2 DEF OpTient, Couvert, Rangee, Paiement, Premier, DansLOrdre
<1>2. ASSUME NEW b \in Agents PROVE AgentTient(b)'
  <2>1. CASE b # a
    <3>1. AgentTient(b)
      BY DEF IInv
    <3>2. verrous'[b] = verrous[b] /\ agents'[b] = agents[b]
      BY <2>1 DEF Procs
    <3> QED BY <3>1, <3>2 DEF AgentTient, Rangee, Paiement
  <2> QED BY <2>1
<1> QED BY <1>1, <1>2 DEF IInv

(* A step that only moves the request on, and may write its row or the      *)
(* operator's answer: nothing it holds counts after it.                     *)
LEMMA PasLibre ==
  ASSUME IInv, NEW i \in Ids, op[i].etape \notin {"libre", "fini"}, NEW e \in Etapes, Etape(i, e),
         e \notin {"libre", "premier", "second", "virer", "debiter", "rembourser", "ecrire"},
         Argent',
         \A k \in Ids \ {i} : registre'[k] = registre[k],
         \A p \in Procs \ {i} : verrous'[p] = verrous[p] /\ lus'[p] = lus[p],
         \/ etat' = etat
         \/ \E f \in Etats \ {"PENDING"} : etat' = [etat EXCEPT ![i] = f]
         \/ etat' = [etat EXCEPT ![i] = "PENDING"] /\ Paiement(i) /\ e = "fini",
         operateur' \in [Ids -> Operateurs],
         pannes' \in 0..MaxPannes,
         creeLe' \in [Ids -> Nat],
         suspendu' = suspendu, agents' = agents
  PROVE  IInv'
<1> USE DEF IInv, Autour
<1>1. /\ op' \in [Ids -> Operation]
      /\ op'[i].etape = e /\ op'[i].genre = op[i].genre
      /\ \A k \in Ids \ {i} : op'[k] = op[k]
  BY EtapeType
<1>2. /\ etat' \in [Ids -> Etats] /\ \A k \in Ids \ {i} : etat'[k] = etat[k]
      /\ etat'[i] = "PENDING" => etat[i] = "PENDING" \/ (Paiement(i) /\ e = "fini")
  <2>0. etat \in [Ids -> Etats]
    OBVIOUS
  <2>1. CASE etat' = etat
    BY <2>0, <2>1
  <2>2. CASE \E f \in Etats \ {"PENDING"} : etat' = [etat EXCEPT ![i] = f]
    BY <2>0, <2>2
  <2>3. CASE etat' = [etat EXCEPT ![i] = "PENDING"] /\ Paiement(i) /\ e = "fini"
    BY <2>0, <2>3 DEF Etats
  <2> QED BY <2>1, <2>2, <2>3
<1>3. etat[i] # "PENDING" /\ ~Rangee(i) /\ op[i].genre # "aucun"
  BY DEF OpTient, Rangee
<1>4. OpTient(i)'
  BY <1>1, <1>2, <1>3 DEF OpTient, Rangee, Paiement
<1> QED BY <1>1, <1>2, <1>3, <1>4, PasOp

(* A request takes a row and goes on with it.                               *)
LEMMA PasPrise ==
  ASSUME IInv, NEW i \in Ids, op[i].etape \notin {"libre", "fini"}, NEW e \in Etapes, Etape(i, e),
         NEW c \in Comptes, Prendre(i, c),
         UNCHANGED <<solde, suspendu, registre, etat, operateur, pannes, varsRecharge>>,
         \/ /\ op[i].etape = "premier" /\ e = "second" /\ c = Premier(i)
         \/ /\ op[i].etape = "second" /\ e = "virer" /\ c = Second(i) /\ Suffisant(i)
         \/ /\ e = "debiter" /\ c = op[i].compte /\ Suffisant(i)
         \/ /\ e = "rembourser" /\ c = op[i].compte
         \/ /\ e = "ecrire" /\ c = op[i].compte
            /\ op[i].genre = "admin_debit" => Suffisant(i)
  PROVE  IInv'
<1> USE DEF IInv, Autour, varsRecharge
<1>0. i \in Procs
  BY DEF Procs
<1>1. /\ op' \in [Ids -> Operation]
      /\ op'[i].etape = e /\ op'[i].genre = op[i].genre /\ op'[i].compte = op[i].compte
      /\ op'[i].vers = op[i].vers /\ op'[i].montant = op[i].montant
      /\ \A k \in Ids \ {i} : op'[k] = op[k]
  BY EtapeType
<1>2. /\ Argent'
      /\ verrous'[i] = verrous[i] \cup {c}
      /\ lus'[i][c] = solde[c]
      /\ \A d \in verrous[i] : lus'[i][d] = solde[d]
      /\ \A q \in Procs \ {i} : verrous'[q] = verrous[q] /\ lus'[q] = lus[q]
  BY <1>0, ArgentPrendre
<1>3. etat[i] # "PENDING" /\ ~Rangee(i) /\ op[i].genre # "aucun"
  BY DEF OpTient, Rangee
<1>4. Premier(i)' = Premier(i)
  BY <1>1 DEF Premier, DansLOrdre
<1>5. c = op[i].compte /\ Suffisant(i) => Couvert(i)'
  BY <1>1, <1>2 DEF Couvert, Suffisant
<1>6. OpTient(i)'
  <2>1. OpTient(i)
    OBVIOUS
  <2>2. CASE e = "second"
    BY <1>1, <1>2, <1>3, <1>4, <2>1, <2>2 DEF OpTient
  <2>3. CASE e = "virer"
    <3>1. op[i].compte \in verrous[i] \cup {c} /\ op[i].vers \in verrous[i] \cup {c}
      BY <2>1, <2>3 DEF OpTient, Premier, Second
    <3>2. Couvert(i)'
      BY <1>1, <1>2, <2>3, <3>1 DEF Couvert, Suffisant
    <3> QED BY <1>1, <1>2, <1>3, <2>1, <2>3, <3>1, <3>2 DEF OpTient
  <2> QED BY <1>1, <1>2, <1>3, <1>5, <2>1, <2>2, <2>3 DEF OpTient
<1> QED BY <1>1, <1>2, <1>3, <1>6, PasOp

(* The steps of a request.                                                  *)
LEMMA PasOpAvance ==
  ASSUME IInv, NEW i \in Ids, OpAvance(i)
  PROVE  IInv'
<1> USE DEF varsRecharge
<1>0. /\ i \in Procs /\ UNCHANGED varsRecharge /\ EtapeOp(i)
      /\ OpTient(i) /\ Argent /\ Autour
      /\ op[i].compte \in Comptes /\ op[i].vers \in Comptes /\ op[i].montant \in Nat
  BY DEF Procs, OpAvance, IInv, Autour, Operation
<1>1. Premier(i) \in Comptes /\ Second(i) \in Comptes
  BY <1>0 DEF Premier, Second
<1>a. UNCHANGED <<solde, registre, verrous, lus>> => Argent'
  BY <1>0, ArgentInchange
<1>b. CASE VerrouillerPremier(i)
  BY <1>0, <1>1, <1>b, PasPrise DEF VerrouillerPremier, Etapes
<1>c. CASE VerrouillerSecond(i)
  <2>1. CASE Prendre(i, Second(i)) /\ Etape(i, "virer") /\ Suffisant(i)
    BY <1>0, <1>1, <1>c, <2>1, PasPrise DEF VerrouillerSecond, Etapes
  <2>2. CASE Lacher(i) /\ Etape(i, "fini")
    <3>1. Argent'
      BY <1>0, <1>c, <2>2, ArgentLacher DEF VerrouillerSecond
    <3> QED BY <1>0, <1>c, <2>2, <3>1, LacherTout, PasLibre DEF VerrouillerSecond, Etapes, Autour
  <2> QED BY <1>c, <2>1, <2>2 DEF VerrouillerSecond
<1>d. CASE Virer(i)
  <2>1. /\ op[i].etape = "virer" /\ Lacher(i) /\ Etape(i, "fini")
        /\ UNCHANGED <<suspendu, etat, operateur, pannes>>
        /\ \/ UNCHANGED <<solde, registre>>
           \/ /\ solde' = [solde EXCEPT ![op[i].compte] = lus[i][op[i].compte] - op[i].montant,
                                        ![op[i].vers] = lus[i][op[i].vers] + op[i].montant]
              /\ registre' = [registre EXCEPT ![i] =
                               [registre[i] EXCEPT ![op[i].compte] = -op[i].montant,
                                                   ![op[i].vers] = op[i].montant]]
    BY <1>d, Zenon DEF Virer
  <2>2. /\ op[i].compte # op[i].vers
        /\ op[i].compte \in verrous[i] /\ op[i].vers \in verrous[i]
        /\ lus[i][op[i].compte] >= op[i].montant
        /\ \A d \in Comptes : registre[i][d] = 0
    BY <1>0, <2>1 DEF OpTient, Couvert
  <2>3. Argent' /\ \A k \in Ids \ {i} : registre'[k] = registre[k]
    <3>1. CASE UNCHANGED <<solde, registre>>
      BY <1>0, <2>1, <3>1, ArgentLacher
    <3>2. CASE ~ UNCHANGED <<solde, registre>>
      BY <1>0, <2>1, <2>2, <3>2, ArgentVirement
    <3> QED BY <3>1, <3>2
  <2> QED BY <1>0, <2>1, <2>3, LacherTout, PasLibre DEF Etapes, Autour
<1>e. CASE InsererRetrait(i)
  BY <1>0, <1>a, <1>e, PasLibre DEF InsererRetrait, Etapes, Etats, Autour
<1>f. CASE VerrouillerDebit(i)
  <2>1. CASE Prendre(i, op[i].compte) /\ Etape(i, "debiter") /\ Suffisant(i)
    BY <1>0, <1>f, <2>1, PasPrise DEF VerrouillerDebit, Etapes
  <2>2. CASE Etape(i, "echouer") /\ UNCHANGED <<verrous, lus>>
    BY <1>0, <1>a, <1>f, <2>2, PasLibre DEF VerrouillerDebit, Etapes, Autour
  <2> QED BY <1>f, <2>1, <2>2 DEF VerrouillerDebit
<1>g. CASE Debiter(i)
  <2>1. /\ op[i].etape = "debiter" /\ Mouvement(i, i, op[i].compte, -op[i].montant)
        /\ Lacher(i) /\ Etape(i, "envoyer") /\ UNCHANGED <<suspendu, etat, operateur, pannes>>
    BY <1>g DEF Debiter
  <2>2. lus[i][op[i].compte] \in Int
    BY <1>0 DEF Argent
  <2>3. op[i].compte \in verrous[i] /\ lus[i][op[i].compte] + -op[i].montant >= 0
    BY <1>0, <2>1, <2>2 DEF OpTient, Couvert
  <2>4. Argent' /\ \A k \in Ids \ {i} : registre'[k] = registre[k]
    <3>1. -op[i].montant \in Int
      BY <1>0
    <3> QED BY <1>0, <2>1, <2>3, <3>1, ArgentMouvement
  <2> QED BY <1>0, <2>1, <2>4, LacherTout, PasLibre DEF Etapes, Autour
<1>h. CASE Envoyer(i)
  BY <1>0, <1>a, <1>h, PasLibre DEF Envoyer, Etapes, Autour, Operateurs
<1>i. CASE Confirmer(i)
  <2>1. pannes' \in 0..MaxPannes
    BY <1>0, <1>i, PortefeuilleConstantes DEF Confirmer, Autour
  <2>2. /\ op[i].etape = "confirmer"
        /\ UNCHANGED <<solde, suspendu, registre, operateur, verrous, lus>>
        /\ etat' = etat \/ etat' = [etat EXCEPT ![i] = "COMPLETED"]
        /\ Etape(i, "fini") \/ Etape(i, "retour")
    BY <1>0, <1>i DEF Confirmer, Autour
  <2>3. "COMPLETED" \in Etats \ {"PENDING"} /\ "fini" \in Etapes /\ "retour" \in Etapes
    BY DEF Etats, Etapes
  <2> QED BY <1>0, <1>a, <2>1, <2>2, <2>3, PasLibre DEF Autour
<1>j. CASE VerrouillerRetour(i)
  <2>1. CASE Prendre(i, op[i].compte) /\ Etape(i, "rembourser")
    BY <1>0, <1>j, <2>1, PasPrise DEF VerrouillerRetour, Etapes
  <2>2. CASE Etape(i, "fini") /\ UNCHANGED <<verrous, lus>>
    BY <1>0, <1>a, <1>j, <2>2, PasLibre DEF VerrouillerRetour, Etapes, Autour
  <2> QED BY <1>j, <2>1, <2>2 DEF VerrouillerRetour
<1>k. CASE Rembourser(i)
  <2>1. /\ op[i].etape = "rembourser" /\ Mouvement(i, i, op[i].compte, op[i].montant)
        /\ Lacher(i) /\ Etape(i, "echouer") /\ UNCHANGED <<suspendu, etat, operateur, pannes>>
    BY <1>k DEF Rembourser
  <2>2. op[i].compte \in verrous[i]
    BY <1>0, <2>1 DEF OpTient
  <2>3. lus[i][op[i].compte] \in Int /\ lus[i][op[i].compte] >= 0
    BY <1>0, <2>2 DEF Argent, LusFrais, SoldePositif
  <2>4. Argent' /\ \A k \in Ids \ {i} : registre'[k] = registre[k]
    BY <1>0, <2>1, <2>2, <2>3, ArgentMouvement
  <2> QED BY <1>0, <2>1, <2>4, LacherTout, PasLibre DEF Etapes, Autour
<1>l. CASE MarquerEchec(i)
  BY <1>0, <1>a, <1>l, PasLibre DEF MarquerEchec, Etapes, Etats, Autour
<1>m. CASE VerrouillerAdmin(i)
  <2>1. CASE /\ Prendre(i, op[i].compte) /\ Etape(i, "ecrire")
             /\ op[i].genre = "admin_debit" => Suffisant(i)
    BY <1>0, <1>m, <2>1, PasPrise DEF VerrouillerAdmin, Etapes
  <2>2. CASE Etape(i, "fini") /\ UNCHANGED <<verrous, lus>>
    BY <1>0, <1>a, <1>m, <2>2, PasLibre DEF VerrouillerAdmin, Etapes, Autour
  <2> QED BY <1>m, <2>1, <2>2 DEF VerrouillerAdmin
<1>n. CASE EcrireAdmin(i)
  <2> DEFINE m == IF op[i].genre = "admin_credit" THEN op[i].montant
                  ELSE IF op[i].genre = "admin_debit" THEN -op[i].montant
                  ELSE -lus[i][op[i].compte]
  <2>1. /\ op[i].etape = "ecrire" /\ Mouvement(i, i, op[i].compte, m)
        /\ Lacher(i) /\ Etape(i, "fini") /\ UNCHANGED <<suspendu, etat, operateur, pannes>>
    BY <1>n DEF EcrireAdmin
  <2>2. /\ op[i].compte \in verrous[i]
        /\ op[i].genre = "admin_debit" => lus[i][op[i].compte] >= op[i].montant
    BY <1>0, <2>1 DEF OpTient, Couvert
  <2>3. lus[i][op[i].compte] \in Int /\ lus[i][op[i].compte] >= 0
    BY <1>0, <2>2 DEF Argent, LusFrais, SoldePositif
  <2>4. m \in Int /\ lus[i][op[i].compte] + m >= 0
    BY <1>0, <2>2, <2>3
  <2>5. Argent' /\ \A k \in Ids \ {i} : registre'[k] = registre[k]
    <3> HIDE DEF m
    <3> QED BY <1>0, <2>1, <2>2, <2>4, ArgentMouvement
  <2> QED BY <1>0, <2>1, <2>5, LacherTout, PasLibre DEF Etapes, Autour
<1> QED
  BY <1>0, <1>b, <1>c, <1>d, <1>e, <1>f, <1>g, <1>h, <1>i, <1>j, <1>k, <1>l, <1>m, <1>n
  DEF EtapeOp

(* A request that begins holds nothing, and has no ledger row.              *)
LEMMA PasNouvelle ==
  ASSUME IInv, NEW i \in Ids,
         NEW genre \in {"transfert", "retrait", "marchand", "recharge",
                        "admin_credit", "admin_debit", "admin_zero"},
         NEW c \in Comptes, NEW v \in Comptes, NEW m \in Montants, NEW k \in Cles \cup {SansCle},
         NEW e \in {"premier", "ligne", "admin"}, Nouvelle(i, genre, c, v, m, k, e),
         e = "premier" => c # v,
         operateur' \in [Ids -> Operateurs],
         UNCHANGED <<solde, suspendu, registre, etat, verrous, lus, pannes, varsRecharge>>
  PROVE  IInv'
<1> USE DEF varsRecharge
<1>1. /\ op' \in [Ids -> Operation]
      /\ op[i].genre = "aucun"
      /\ op'[i] = [genre |-> genre, compte |-> c, vers |-> v, montant |-> m,
                   cle |-> k, etape |-> e]
      /\ \A j \in Ids \ {i} : op'[j] = op[j]
  <2>1. /\ genre \in {"aucun", "transfert", "admin_zero"} \cup Plus \cup Moins
        /\ e \in Etapes /\ op \in [Ids -> Operation]
    BY DEF Plus, Moins, Etapes, IInv, Autour
  <2> QED BY <2>1, NouvelleType
<1>2. OpTient(i)
  BY DEF IInv
<1>3. op[i].etape = "libre" /\ ~Rangee(i)
  BY <1>1, <1>2 DEF OpTient, Rangee
<1>4. OpTient(i)'
  BY <1>1, <1>2, <1>3 DEF OpTient
<1>5. Argent'
  BY ArgentInchange DEF IInv
<1>6. Autour'
  BY <1>1 DEF IInv, Autour
<1> QED BY <1>1, <1>3, <1>4, <1>5, <1>6, PasOp

LEMMA PasDemande ==
  ASSUME IInv, NEW i \in Ids, Demande(i), UNCHANGED varsRecharge
  PROVE  IInv'
<1>0. /\ UNCHANGED operateur => operateur' \in [Ids -> Operateurs]
      /\ SansCle \in Cles \cup {SansCle}
  BY DEF IInv, Autour
<1>1. CASE RecevoirTransfert(i)
  <2>1. PICK c \in Comptes, v \in Comptes, m \in Montants, k \in Cles \cup {SansCle} :
          c # v /\ Nouvelle(i, "transfert", c, v, m, k, "premier")
    BY <1>1 DEF RecevoirTransfert
  <2> QED BY <1>0, <1>1, <2>1, PasNouvelle DEF RecevoirTransfert
<1>2. CASE RecevoirRetrait(i)
  <2>1. PICK c \in Comptes, m \in Montants :
          Nouvelle(i, "retrait", c, c, m, SansCle, "ligne")
    BY <1>2 DEF RecevoirRetrait
  <2> QED BY <1>0, <1>2, <2>1, PasNouvelle DEF RecevoirRetrait
<1>3. CASE RecevoirAdmin(i)
  <2>1. PICK genre \in {"admin_credit", "admin_debit", "admin_zero"},
             c \in Comptes, m \in Montants :
          Nouvelle(i, genre, c, c, m, SansCle, "admin")
    BY <1>3 DEF RecevoirAdmin
  <2> QED BY <1>0, <1>3, <2>1, PasNouvelle DEF RecevoirAdmin
<1> QED BY <1>1, <1>2, <1>3 DEF Demande

(* The other steps that are nobody's: payments, accounts, deaths.           *)
LEMMA PasInitier ==
  ASSUME IInv, NEW i \in Ids, Initier(i)
  PROVE  IInv'
<1>1. PICK genre \in {"marchand", "recharge"}, c \in Comptes, m \in Montants :
        Nouvelle(i, genre, c, c, m, SansCle, "ligne")
  BY DEF Initier
<1>2. operateur' \in [Ids -> Operateurs]
  BY DEF IInv, Autour, Initier, Operateurs
<1>3. SansCle \in Cles \cup {SansCle}
  OBVIOUS
<1>4. UNCHANGED <<solde, suspendu, registre, etat, verrous, lus, pannes, varsRecharge>>
  BY DEF Initier
<1> QED BY <1>1, <1>2, <1>3, <1>4, PasNouvelle

LEMMA PasEnregistrer ==
  ASSUME IInv, NEW i \in Ids, Enregistrer(i)
  PROVE  IInv'
<1>1. Argent'
  BY ArgentInchange DEF IInv, Enregistrer
<1>2. creeLe' \in [Ids -> Nat]
  <2>1. IsFiniteSet({k \in Ids : creeLe[k] > 0})
    BY Finis, FS_Subset
  <2>2. Cardinality({k \in Ids : creeLe[k] > 0}) \in Nat
    BY <2>1, FS_CardinalityType
  <2>3. creeLe \in [Ids -> Nat]
    BY DEF IInv, Autour
  <2> DEFINE n == Cardinality({k \in Ids : creeLe[k] > 0})
  <2>4. creeLe' = [creeLe EXCEPT ![i] = 1 + n]
    BY DEF Enregistrer
  <2> QED
    <3> HIDE DEF n
    <3> QED BY <2>2, <2>3, <2>4 DEF n
<1> QED BY <1>1, <1>2, PasLibre DEF Enregistrer, Etapes, IInv, Autour

LEMMA PasSansOp ==
  ASSUME IInv, UNCHANGED <<op, solde, registre, etat, verrous, lus, varsRecharge>>,
         suspendu' \in [Comptes -> BOOLEAN],
         operateur' \in [Ids -> Operateurs],
         pannes' \in 0..MaxPannes
  PROVE  IInv'
<1> USE DEF varsRecharge, IInv
<1>1. Argent'
  BY ArgentInchange
<1>2. Autour'
  BY DEF Autour
<1>3. \A i \in Ids : OpTient(i)'
  BY DEF OpTient, Couvert, Rangee, Paiement, Premier, DansLOrdre
<1>4. \A a \in Agents : AgentTient(a)'
  BY DEF AgentTient, Rangee, Paiement
<1> QED BY <1>1, <1>2, <1>3, <1>4

LEMMA PasMourir ==
  ASSUME IInv, NEW i \in Ids, Mourir(i), UNCHANGED varsRecharge
  PROVE  IInv'
<1>1. i \in Procs
  BY DEF Procs
<1>2. Argent'
  BY <1>1, ArgentLacher DEF IInv, Mourir
<1>3. \A p \in Procs \ {i} : verrous'[p] = verrous[p] /\ lus'[p] = lus[p]
  BY <1>1, LacherTout DEF IInv, Mourir
<1>4. pannes' \in 0..MaxPannes
  BY PortefeuilleConstantes DEF Mourir, IInv, Autour
<1> QED BY <1>2, <1>3, <1>4, PasLibre DEF Mourir, Etapes, IInv, Autour, varsRecharge

----------------------------------------------------------------------------
(* The settlement processes.                                                *)

(* Where a process goes when it is done with its row.                       *)
LEMMA SuiteTient ==
  ASSUME IInv, NEW a \in Agents, Suite(a), op' = op
  PROVE  /\ agents' \in [Agents -> Agent]
         /\ \A b \in Agents \ {a} : agents'[b] = agents[b]
         /\ AgentTient(a)'
<1> DEFINE r == IF agents[a].reste # {} THEN Suivante(agents[a].reste)
                ELSE Repos(IF a \in Crons THEN "libre" ELSE "fini")
<1>1. agents' = [agents EXCEPT ![a] = r]
  BY DEF Suite
<1>2. agents[a] \in Agent /\ AgentTient(a) /\ agents \in [Agents -> Agent]
      /\ creeLe \in [Ids -> Nat]
  BY DEF IInv, Autour
<1>3. agents[a].reste \in SUBSET Ids
  BY <1>2 DEF Agent
<1>4. CASE agents[a].reste # {}
  <2>1. /\ r \in Agent /\ r.etape = "consulter"
        /\ r.ligne \in agents[a].reste /\ r.reste \subseteq agents[a].reste
    BY <1>2, <1>3, <1>4, SuivanteType
  <2> HIDE DEF r
  <2>2. agents'[a] = r /\ agents' \in [Agents -> Agent]
    BY <1>1, <1>2, <2>1
  <2>3. AgentTient(a)'
    BY <1>2, <1>3, <2>1, <2>2 DEF AgentTient, Rangee, Paiement
  <2> QED BY <1>1, <2>2, <2>3
<1>5. CASE agents[a].reste = {}
  <2>1. /\ r \in Agent /\ r.etape \in {"libre", "fini"}
        /\ r.ligne = "aucune" /\ r.reste = {}
    BY <1>5 DEF Repos, Agent
  <2> HIDE DEF r
  <2>2. agents'[a] = r /\ agents' \in [Agents -> Agent]
    BY <1>1, <1>2, <2>1
  <2>3. AgentTient(a)'
    BY <2>1, <2>2 DEF AgentTient, EnCours
  <2> QED BY <1>1, <2>2, <2>3
<1> QED BY <1>4, <1>5

(* The same row, at another step.                                           *)
LEMMA AllerTient ==
  ASSUME IInv, NEW a \in Agents, agents[a].etape \in EnCours, NEW e \in EnCours \ {"crediter"},
         Aller(a, e), op' = op
  PROVE  /\ agents' \in [Agents -> Agent]
         /\ \A b \in Agents \ {a} : agents'[b] = agents[b]
         /\ AgentTient(a)'
<1>1. agents[a] \in Agent /\ AgentTient(a) /\ agents \in [Agents -> Agent]
  BY DEF IInv, Autour
<1>2. agents' = [agents EXCEPT ![a] = [agents[a] EXCEPT !.etape = e]]
  BY DEF Aller
<1>3. [agents[a] EXCEPT !.etape = e] \in Agent
  BY <1>1, Zenon DEF Agent, EnCours
<1>4. /\ agents'[a] = [agents[a] EXCEPT !.etape = e] /\ agents' \in [Agents -> Agent]
      /\ \A b \in Agents \ {a} : agents'[b] = agents[b]
  BY <1>1, <1>2, <1>3
<1>5. /\ agents'[a].etape = e /\ agents'[a].ligne = agents[a].ligne
      /\ agents'[a].reste = agents[a].reste
  BY <1>1, <1>4 DEF Agent
<1>6. AgentTient(a)'
  BY <1>1, <1>5 DEF AgentTient, Rangee, Paiement
<1> QED BY <1>4, <1>6

(* A callback or the cron begins.                                           *)
LEMMA PasRecevoirRappel ==
  ASSUME IInv, NEW a \in Agents, NEW i \in Ids, RecevoirRappel(a, i)
  PROVE  IInv'
<1> USE DEF varsPortefeuille
<1>1. /\ etat[i] = "PENDING" /\ agents' = [agents EXCEPT ![a] = Suivante({i})]
      /\ UNCHANGED <<varsPortefeuille, creeLe>>
  BY DEF RecevoirRappel
<1>2. Rangee(i) /\ creeLe \in [Ids -> Nat] /\ agents \in [Agents -> Agent]
  BY <1>1 DEF IInv, OpTient, Autour
<1>3. /\ Suivante({i}) \in Agent /\ Suivante({i}).etape = "consulter"
      /\ Suivante({i}).ligne = i /\ Suivante({i}).reste \subseteq {i}
  BY <1>2, SuivanteType
<1>4. /\ agents' \in [Agents -> Agent] /\ agents'[a] = Suivante({i})
      /\ \A b \in Agents \ {a} : agents'[b] = agents[b]
  BY <1>1, <1>2, <1>3
<1>5. AgentTient(a)'
  BY <1>1, <1>2, <1>3, <1>4 DEF AgentTient, Rangee, Paiement
<1>6. Argent'
  BY <1>1, ArgentInchange DEF IInv
<1>7. Autour'
  BY <1>1, <1>4 DEF IInv, Autour
<1> QED BY <1>1, <1>4, <1>5, <1>6, <1>7, PasAgent

LEMMA PasLireLot ==
  ASSUME IInv, NEW a \in Agents, LireLot(a)
  PROVE  IInv'
<1> USE DEF varsPortefeuille
<1> DEFINE S == {i \in EnAttente :
                   Cardinality({k \in EnAttente : creeLe[k] < creeLe[i]}) < Lot}
<1>1. /\ EnAttente # {} /\ agents' = [agents EXCEPT ![a] = Suivante(S)]
      /\ UNCHANGED <<varsPortefeuille, creeLe>>
  BY DEF LireLot
<1>2. creeLe \in [Ids -> Nat] /\ agents \in [Agents -> Agent]
  BY DEF IInv, Autour
<1>3. S # {} /\ S \in SUBSET Ids
  BY <1>1, <1>2, LotNonVide DEF EnAttente
<1>4. \A i \in S : i \in Ids /\ Rangee(i)
  BY DEF EnAttente, IInv, OpTient
<1> HIDE DEF S
<1>5. /\ Suivante(S) \in Agent /\ Suivante(S).etape = "consulter"
      /\ Suivante(S).ligne \in S /\ Suivante(S).reste \subseteq S
  BY <1>2, <1>3, SuivanteType
<1>6. /\ agents' \in [Agents -> Agent] /\ agents'[a] = Suivante(S)
      /\ \A b \in Agents \ {a} : agents'[b] = agents[b]
  BY <1>1, <1>2, <1>5
<1>7. AgentTient(a)'
  BY <1>1, <1>4, <1>5, <1>6 DEF AgentTient, Rangee, Paiement
<1>8. Argent'
  BY <1>1, ArgentInchange DEF IInv
<1>9. Autour'
  BY <1>1, <1>6 DEF IInv, Autour
<1> QED BY <1>1, <1>6, <1>7, <1>8, <1>9, PasAgent

(* The steps of a settlement.                                               *)
LEMMA PasEtapeAgent ==
  ASSUME IInv, NEW a \in Agents, EtapeAgent(a)
  PROVE  IInv'
<1> DEFINE i == agents[a].ligne
<1>0. /\ a \in Procs /\ Argent /\ Autour /\ agents[a] \in Agent /\ AgentTient(a)
      /\ etat \in [Ids -> Etats]
  BY DEF Procs, IInv, Autour
<1>1. agents[a].etape \in EnCours => i \in Ids /\ Rangee(i) /\ op[i] \in Operation
  BY <1>0 DEF AgentTient, Autour
<1>2. op[i] \in Operation => op[i].compte \in Comptes /\ op[i].montant \in Nat
  BY DEF Operation
<1>3. agents[a].etape = "crediter" => op[i].compte \in verrous[a]
  BY <1>0 DEF AgentTient
<1>a. UNCHANGED <<solde, registre, verrous, lus>> => Argent'
  BY <1>0, ArgentInchange
<1>b. /\ EtatValide(a) \in [Ids -> Etats]
      /\ \A k \in Ids : EtatValide(a)[k] = etat[k] \/ EtatValide(a)[k] = "COMPLETED"
  BY <1>0 DEF EtatValide, Etats
<1> HIDE DEF i
<1>c. CASE Consulter(a)
  <2>1. Suite(a) \/ Aller(a, "marquer") \/ Aller(a, "echec")
    BY <1>c, Zenon DEF Consulter
  <2>2. /\ agents[a].etape \in EnCours
        /\ UNCHANGED <<op, solde, suspendu, registre, etat, operateur, verrous, lus, creeLe>>
    BY <1>c DEF Consulter, EnCours
  <2>3. /\ agents' \in [Agents -> Agent]
        /\ \A b \in Agents \ {a} : agents'[b] = agents[b]
        /\ AgentTient(a)'
    <3>1. "marquer" \in EnCours \ {"crediter"} /\ "echec" \in EnCours \ {"crediter"}
      BY DEF EnCours
    <3> QED BY <2>1, <2>2, <3>1, SuiteTient, AllerTient
  <2>4. pannes' \in 0..MaxPannes
    BY <1>0, <1>c, PortefeuilleConstantes DEF Consulter, Autour
  <2>5. Autour'
    BY <1>0, <2>2, <2>3, <2>4 DEF Autour
  <2> QED BY <1>a, <2>2, <2>3, <2>5, PasAgent
<1>d. CASE MarquerFailed(a)
  <2>1. /\ Suite(a)
        /\ UNCHANGED <<op, solde, suspendu, registre, operateur, verrous, lus, pannes, creeLe>>
        /\ etat' = etat \/ etat' = [etat EXCEPT ![i] = "FAILED"]
    BY <1>d DEF MarquerFailed, i
  <2>2. etat' \in [Ids -> Etats] /\ \A k \in Ids : etat'[k] = etat[k] \/ etat'[k] # "PENDING"
    BY <1>0, <2>1 DEF Etats
  <2>3. /\ agents' \in [Agents -> Agent]
        /\ \A b \in Agents \ {a} : agents'[b] = agents[b]
        /\ AgentTient(a)'
    BY <2>1, SuiteTient
  <2>4. Autour'
    BY <1>0, <2>1, <2>2, <2>3 DEF Autour
  <2> QED BY <1>a, <2>1, <2>2, <2>3, <2>4, PasAgent
<1>e. CASE Marquer(a)
  <2>1. /\ agents[a].etape = "marquer"
        /\ UNCHANGED <<varsPortefeuille, creeLe>>
    BY <1>e DEF Marquer
  <2>2. agents' = [agents EXCEPT ![a] =
                     [agents[a] EXCEPT !.etape = "compte", !.mise = etat[i] = "PENDING"]]
    BY <1>e DEF Marquer, i
  <2> DEFINE r == [agents[a] EXCEPT !.etape = "compte", !.mise = etat[i] = "PENDING"]
  <2>3. r \in Agent
    BY <1>0, Zenon DEF Agent
  <2>4. r.etape = "compte" /\ r.ligne = agents[a].ligne /\ r.reste = agents[a].reste
    BY <1>0 DEF Agent
  <2> HIDE DEF r
  <2>5. /\ agents' \in [Agents -> Agent] /\ agents'[a] = r
        /\ \A b \in Agents \ {a} : agents'[b] = agents[b]
    BY <1>0, <2>2, <2>3 DEF r, Autour
  <2>6. AgentTient(a)'
    <3>1. agents[a].etape \in EnCours /\ UNCHANGED op
      BY <2>1 DEF EnCours, varsPortefeuille
    <3> QED BY <1>0, <2>4, <2>5, <3>1 DEF AgentTient, Rangee, Paiement
  <2>7. Autour'
    BY <1>0, <2>1, <2>5 DEF Autour, varsPortefeuille
  <2> QED BY <1>a, <2>1, <2>5, <2>6, <2>7, PasAgent DEF varsPortefeuille
<1>f. CASE VerrouillerCompte(a)
  <2>1. /\ agents[a].etape = "compte" /\ agents[a].etape \in EnCours
        /\ UNCHANGED <<op, solde, suspendu, registre, etat, operateur, pannes, creeLe>>
        /\ \/ Suite(a) /\ UNCHANGED <<verrous, lus>>
           \/ Prendre(a, op[i].compte) /\ Aller(a, "crediter")
    BY <1>f DEF VerrouillerCompte, EnCours, i
  <2>2. CASE Suite(a) /\ UNCHANGED <<verrous, lus>>
    <3>1. Autour'
      BY <1>0, <2>1, <2>2, SuiteTient DEF Autour
    <3> QED BY <1>a, <2>1, <2>2, <3>1, SuiteTient, PasAgent
  <2>3. CASE Prendre(a, op[i].compte) /\ Aller(a, "crediter")
    <3>1. /\ Argent' /\ verrous'[a] = verrous[a] \cup {op[i].compte}
          /\ \A p \in Procs \ {a} : verrous'[p] = verrous[p] /\ lus'[p] = lus[p]
      BY <1>0, <1>1, <1>2, <2>1, <2>3, ArgentPrendre
    <3>2. agents' = [agents EXCEPT ![a] = [agents[a] EXCEPT !.etape = "crediter"]]
      BY <2>3 DEF Aller
    <3>3. [agents[a] EXCEPT !.etape = "crediter"] \in Agent
      BY <1>0, Zenon DEF Agent
    <3>4. /\ agents' \in [Agents -> Agent]
          /\ agents'[a] = [agents[a] EXCEPT !.etape = "crediter"]
          /\ \A b \in Agents \ {a} : agents'[b] = agents[b]
      BY <1>0, <3>2, <3>3 DEF Autour
    <3>5. agents'[a].ligne = i /\ agents'[a].reste = agents[a].reste
      BY <1>0, <3>4 DEF Agent, i
    <3>6. AgentTient(a)'
      <4>0. PICK j \in Ids : j = i /\ Rangee(j)
        BY <1>1, <2>1
      <4>1. Rangee(j)' /\ op' = op /\ agents'[a].ligne = j
        BY <2>1, <3>5, <4>0 DEF Rangee, Paiement
      <4>2. \A k \in agents[a].reste : Rangee(k)'
        BY <1>0, <2>1 DEF AgentTient, Rangee, Paiement
      <4> QED BY <3>1, <3>5, <4>0, <4>1, <4>2 DEF AgentTient
    <3>7. Autour'
      BY <1>0, <2>1, <3>4 DEF Autour
    <3> QED BY <2>1, <3>1, <3>4, <3>6, <3>7, PasAgent
  <2> QED BY <2>1, <2>2, <2>3
<1>g. CASE Crediter(a)
  <2>1. /\ agents[a].etape = "crediter" /\ agents[a].etape \in EnCours
        /\ Mouvement(a, i, op[i].compte, op[i].montant) /\ Lacher(a)
        /\ UNCHANGED <<op, suspendu, operateur, pannes, creeLe>>
        /\ \/ etat' = EtatValide(a) /\ Suite(a)
           \/ Aller(a, "notifier") /\ UNCHANGED etat
    BY <1>g DEF Crediter, EnCours, i
  <2>2. /\ lus[a][op[i].compte] \in Int /\ lus[a][op[i].compte] >= 0
        /\ op[i].compte \in Comptes /\ op[i].montant \in Nat /\ op[i].montant \in Int
    BY <1>0, <1>1, <1>2, <1>3, <2>1 DEF Argent, LusFrais, SoldePositif
  <2>3. /\ Argent' /\ \A k \in Ids \ {i} : registre'[k] = registre[k]
    <3>1. lus[a][op[i].compte] + op[i].montant >= 0
      BY <2>2
    <3> QED BY <1>0, <1>1, <1>3, <2>1, <2>2, <3>1, ArgentMouvement
  <2>4. \A p \in Procs \ {a} : verrous'[p] = verrous[p] /\ lus'[p] = lus[p]
    BY <1>0, <2>1, LacherTout
  <2>5. etat' \in [Ids -> Etats] /\ \A k \in Ids : etat'[k] = etat[k] \/ etat'[k] # "PENDING"
    BY <1>0, <1>b, <2>1
  <2>6. /\ agents' \in [Agents -> Agent]
        /\ \A b \in Agents \ {a} : agents'[b] = agents[b]
        /\ AgentTient(a)'
    <3>1. "notifier" \in EnCours \ {"crediter"}
      BY DEF EnCours
    <3> QED BY <2>1, <3>1, SuiteTient, AllerTient
  <2>7. Autour'
    BY <1>0, <2>1, <2>5, <2>6 DEF Autour
  <2>8. \A k \in Ids : registre'[k] = registre[k] \/ Rangee(k)
    BY <1>1, <2>1, <2>3
  <2> QED BY <2>1, <2>3, <2>4, <2>5, <2>6, <2>7, <2>8, PasAgent
<1>h. CASE Notifier(a)
  <2>1. /\ Suite(a)
        /\ UNCHANGED <<op, solde, suspendu, registre, operateur, verrous, lus, creeLe>>
        /\ etat' = EtatValide(a) \/ etat' = etat
    BY <1>h DEF Notifier
  <2>2. pannes' \in 0..MaxPannes
    BY <1>0, <1>h, PortefeuilleConstantes DEF Notifier, Autour
  <2>3. etat' \in [Ids -> Etats] /\ \A k \in Ids : etat'[k] = etat[k] \/ etat'[k] # "PENDING"
    BY <1>0, <1>b, <2>1
  <2>4. /\ agents' \in [Agents -> Agent]
        /\ \A b \in Agents \ {a} : agents'[b] = agents[b]
        /\ AgentTient(a)'
    BY <2>1, SuiteTient
  <2>5. Autour'
    BY <1>0, <2>1, <2>2, <2>3, <2>4 DEF Autour
  <2> QED BY <1>a, <2>1, <2>3, <2>4, <2>5, PasAgent
<1> QED BY <1>c, <1>d, <1>e, <1>f, <1>g, <1>h DEF EtapeAgent

LEMMA PasMourirAgent ==
  ASSUME IInv, NEW a \in Agents, MourirAgent(a)
  PROVE  IInv'
<1> DEFINE r == Repos(IF a \in Crons THEN "libre" ELSE "fini")
<1>0. a \in Procs /\ Argent /\ Autour
  BY DEF Procs, IInv
<1>1. /\ agents' = [agents EXCEPT ![a] = r] /\ Lacher(a)
      /\ UNCHANGED <<op, solde, suspendu, registre, etat, operateur, creeLe>>
  BY DEF MourirAgent
<1>2. pannes' \in 0..MaxPannes
  BY <1>0, PortefeuilleConstantes DEF MourirAgent, Autour
<1>3. /\ r \in Agent /\ r.etape \in {"libre", "fini"} /\ r.reste = {}
  BY DEF Repos, Agent
<1> HIDE DEF r
<1>4. /\ agents' \in [Agents -> Agent] /\ agents'[a] = r
      /\ \A b \in Agents \ {a} : agents'[b] = agents[b]
  BY <1>0, <1>1, <1>3 DEF Autour
<1>5. AgentTient(a)'
  BY <1>3, <1>4 DEF AgentTient, EnCours
<1>6. Argent' /\ \A p \in Procs \ {a} : verrous'[p] = verrous[p] /\ lus'[p] = lus[p]
  BY <1>0, <1>1, ArgentLacher, LacherTout
<1>7. Autour'
  BY <1>0, <1>1, <1>2, <1>4 DEF Autour
<1> QED BY <1>1, <1>4, <1>5, <1>6, <1>7, PasAgent

----------------------------------------------------------------------------
(* The invariant.                                                           *)

LEMMA IInvInit == Init => IInv
<1> SUFFICES ASSUME Init PROVE IInv
  OBVIOUS
<1> USE DEF Init, InitPortefeuille
<1>1. (CHOOSE c \in Comptes : TRUE) \in Comptes
  BY PortefeuilleConstantes
<1>2. SoldeJournal
  <2> SUFFICES ASSUME NEW c \in Comptes
               PROVE  solde[c] = Depot + SumFunctionOnSet([i \in Ids |-> registre[i][c]], Ids)
    BY DEF SoldeJournal
  <2> DEFINE f == [i \in Ids |-> registre[i][c]]
  <2>1. \A i \in Ids : f[i] = 0
    OBVIOUS
  <2>2. SumFunctionOnSet(f, Ids) = 0
    <3> HIDE DEF f
    <3> QED BY <2>1, Finis, SommeNulle
  <2> QED BY <2>2, PortefeuilleConstantes
<1>3. Argent
  BY <1>2, PortefeuilleConstantes DEF Argent, Exclusion, LusFrais, SoldePositif
<1>4. Autour
  <2>1. op \in [Ids -> Operation]
    BY <1>1 DEF Operation
  <2>2. agents \in [Agents -> Agent]
    BY DEF Agent, Repos
  <2> QED BY <2>1, <2>2, PortefeuilleConstantes DEF Autour, Etats, Operateurs
<1>5. \A i \in Ids : OpTient(i)
  BY DEF OpTient
<1>6. \A a \in Agents : AgentTient(a)
  BY DEF AgentTient, EnCours, Repos
<1> QED BY <1>3, <1>4, <1>5, <1>6 DEF IInv

LEMMA IInvNext == IInv /\ [Next]_vars => IInv'
<1> SUFFICES ASSUME IInv, [Next]_vars PROVE IInv'
  OBVIOUS
<1>1. ASSUME NEW i \in Ids, Payer(i) PROVE IInv'
  BY <1>1, PasSansOp DEF Payer, IInv, Autour, Operateurs
<1>2. ASSUME NEW c \in Comptes, BasculerCompte(c), UNCHANGED varsRecharge PROVE IInv'
  BY <1>2, PasSansOp DEF BasculerCompte, IInv, Autour
<1>3. CASE UNCHANGED vars
  BY <1>3, PasSansOp DEF vars, varsPortefeuille, IInv, Autour
<1>4. CASE Exterieur
  BY <1>1, <1>2, <1>4, PasDemande, PasMourir, PasInitier, PasRecevoirRappel, PasMourirAgent
  DEF Exterieur
<1> QED
  BY <1>3, <1>4, PasOpAvance, PasEnregistrer, PasLireLot, PasEtapeAgent DEF Next

(* Every variable keeps its type, whatever the processes do.                *)
THEOREM TypeCorrect == Spec => []TypeOK
<1>1. IInv => TypeOK
  BY DEF IInv, Argent, Autour, TypeOK, TypePortefeuille
<1> QED BY <1>1, IInvInit, IInvNext, PTL DEF Spec

(* No movement that races another is lost: at every moment the balance of a *)
(* wallet is its deposit and the sum of its ledger rows, for any number of  *)
(* requests, callbacks and crons, that may die at any step.                 *)
THEOREM SoldeToujoursJournal == Spec => []SoldeJournal
<1>1. IInv => SoldeJournal
  BY DEF IInv, Argent
<1> QED BY <1>1, IInvInit, IInvNext, PTL DEF Spec

(* No interleaving of transfers, withdrawals and movements of the           *)
(* administrator takes more out of a wallet than it holds.                  *)
THEOREM SoldeJamaisNegatif == Spec => []SoldePositif
<1>1. IInv => SoldePositif
  BY DEF IInv, Argent
<1> QED BY <1>1, IInvInit, IInvNext, PTL DEF Spec
----------------------------------------------------------------------------
(* What the ledger, the row and the operator say of one operation, by its   *)
(* step: the second invariant, on top of IInv.                              *)

Ligne(i) == registre[i][op[i].compte]

Vierge(i) == \A d \in Comptes : registre[i][d] = 0

Seul(i) == \A d \in Comptes \ {op[i].compte} : registre[i][d] = 0

Vire(i) ==
  /\ registre[i][op[i].compte] = -op[i].montant /\ registre[i][op[i].vers] = op[i].montant
  /\ \A d \in Comptes \ {op[i].compte, op[i].vers} : registre[i][d] = 0

(* A transfer wrote its two rows or none.                                   *)
OpTransfert(i) ==
  op[i].genre = "transfert" =>
    /\ op[i].etape \in {"premier", "second", "virer", "fini"}
    /\ op[i].compte # op[i].vers /\ op[i].montant > 0
    /\ Vierge(i) \/ Vire(i)

(* A withdrawal is out of the wallet from its debit to its refund. Its row  *)
(* says nothing before the end, unless the answer of the UPDATE was lost.   *)
OpRetrait(i) ==
  op[i].genre = "retrait" =>
    /\ op[i].etape \in {"ligne", "debit", "debiter", "envoyer", "confirmer", "retour",
                         "rembourser", "echouer", "fini"}
    /\ Seul(i)
    /\ op[i].etape \in {"ligne", "debit", "debiter", "echouer"} => Ligne(i) = 0
    /\ op[i].etape \in {"envoyer", "confirmer", "retour", "rembourser"} =>
         Ligne(i) = -op[i].montant
    /\ op[i].etape = "confirmer" => operateur[i] = "acceptee"
    /\ op[i].etape \in {"ligne", "debit", "debiter", "envoyer", "confirmer"} =>
         etat[i] # "COMPLETED"
    /\ op[i].etape # "fini" => etat[i] # "FAILED"
    /\ etat[i] = "FAILED" => Ligne(i) = 0
    /\ etat[i] = "COMPLETED" =>
         /\ op[i].etape = "fini" \/ pannes > 0
         /\ \/ Ligne(i) = -op[i].montant /\ operateur[i] = "acceptee"
            \/ op[i].etape = "echouer"
            \/ pannes > 1

(* A payment credits its wallet once the operator has it.                   *)
OpPaiement(i) ==
  Paiement(i) =>
    /\ op[i].etape \in {"ligne", "fini"}
    /\ Seul(i) /\ Ligne(i) >= 0
    /\ Ligne(i) > 0 => operateur[i] = "SUCCESS"
    /\ etat[i] = "COMPLETED" => Ligne(i) >= op[i].montant
    /\ etat[i] = "FAILED" => operateur[i] = "FAILED" \/ pannes > 0

(* Before the request; and whom the operator may still answer.              *)
OpAutre(i) ==
  /\ op[i].genre # "cotisation"
  /\ op[i].genre = "aucun" => etat[i] = "absente" /\ operateur[i] = "rien"
  /\ operateur[i] = "PENDING" => Paiement(i)
  /\ op[i].genre \in {"admin_zero", "admin_credit", "admin_debit"} =>
       op[i].etape \in {"admin", "ecrire", "fini"}

(* The wallets a request holds at each step.                                *)
OpVerrous(i) ==
  /\ op[i].etape = "second" => verrous[i] = {Premier(i)}
  /\ op[i].etape \notin {"second", "virer", "debiter", "rembourser", "ecrire"} =>
       verrous[i] = {}

Juste(i) ==
  OpTransfert(i) /\ OpRetrait(i) /\ OpPaiement(i) /\ OpAutre(i) /\ OpVerrous(i)

(* What a settlement process learnt from the operator stays true; it may    *)
(* have misread a status.                                                   *)
AgentSait(a) ==
  /\ agents[a].etape \in {"marquer", "compte", "crediter", "notifier"} =>
       operateur[agents[a].ligne] = "SUCCESS"
  /\ agents[a].etape = "echec" => operateur[agents[a].ligne] = "FAILED" \/ pannes > 0
  /\ agents[a].etape = "notifier" => Ligne(agents[a].ligne) >= op[agents[a].ligne].montant
  /\ agents[a].etape # "crediter" => verrous[a] = {}

(* Two transfers of one sender with one key did not both move money.        *)
CleServieUneFois ==
  \A i, k \in Ids :
    /\ i # k /\ op[i].genre = "transfert" /\ op[k].genre = "transfert"
    /\ op[k].compte = op[i].compte /\ op[k].cle = op[i].cle /\ op[i].cle # SansCle
    => Ligne(i) = 0 \/ Ligne(k) = 0

JInv ==
  /\ \A i \in Ids : Juste(i)
  /\ \A a \in Agents : AgentSait(a)
  /\ CleServieUneFois

(* The failures that excuse a row are not forgotten.                        *)
PannesMontent == pannes \in Nat /\ pannes' \in Nat /\ pannes' >= pannes

LEMMA PannesComptees ==
  ASSUME IInv, [Next]_vars
  PROVE  PannesMontent
<1>1. pannes \in Nat
  BY PortefeuilleConstantes DEF IInv, Autour
<1>2. pannes' = pannes \/ pannes' = pannes + 1
  BY Zenon DEF Next, vars, varsPortefeuille, varsRecharge, OpAvance, EtapeOp, Demande, EtapeAgent,
     Exterieur, VerrouillerPremier, VerrouillerSecond, Virer, InsererRetrait, VerrouillerDebit,
     Debiter, Envoyer, Confirmer, VerrouillerRetour, Rembourser, MarquerEchec, VerrouillerAdmin,
     EcrireAdmin, RecevoirTransfert, RecevoirRetrait, RecevoirAdmin, BasculerCompte, Mourir,
     Initier, Enregistrer, Payer, RecevoirRappel, LireLot, Consulter, MarquerFailed, Marquer,
     VerrouillerCompte, Crediter, Notifier, MourirAgent
<1> QED BY <1>1, <1>2 DEF PannesMontent

(* A step of i, not over as a payment is, that leaves the others alone.     *)
LEMMA JusteOp ==
  ASSUME IInv, JInv, PannesMontent, NEW i \in Ids, ~Rangee(i), agents' = agents,
         \A k \in Ids \ {i} : /\ op'[k] = op[k] /\ registre'[k] = registre[k]
                              /\ etat'[k] = etat[k] /\ operateur'[k] = operateur[k],
         \A p \in Procs \ {i} : verrous'[p] = verrous[p],
         Juste(i)', CleServieUneFois'
  PROVE  JInv'
<1>1. ASSUME NEW k \in Ids PROVE Juste(k)'
  <2>1. CASE k # i
    <3>1. /\ op'[k] = op[k] /\ registre'[k] = registre[k] /\ verrous'[k] = verrous[k]
          /\ etat'[k] = etat[k] /\ operateur'[k] = operateur[k]
      BY <2>1 DEF Procs
    <3>2. Juste(k)
      BY DEF JInv
    <3> QED BY <3>1, <3>2
         DEF Juste, OpTransfert, OpRetrait, OpPaiement, OpAutre, OpVerrous, Paiement, Ligne,
             Vierge, Seul, Vire, Premier, DansLOrdre, PannesMontent
  <2> QED BY <2>1
<1>2. ASSUME NEW a \in Agents PROVE AgentSait(a)'
  <2>1. AgentSait(a) /\ AgentTient(a) /\ verrous'[a] = verrous[a]
    BY Finis DEF JInv, IInv, Procs
  <2>2. agents[a].etape \in EnCours => agents[a].ligne \in Ids \ {i}
    BY <2>1 DEF AgentTient
  <2> QED BY <2>1, <2>2 DEF AgentSait, Ligne, EnCours, PannesMontent
<1> QED BY <1>1, <1>2 DEF JInv

(* A key is not served twice by a step that moves no money of a transfer.   *)
LEMMA CleStable ==
  ASSUME JInv, NEW i \in Ids,
         \A k \in Ids \ {i} : op'[k] = op[k] /\ registre'[k] = registre[k],
         \/ op'[i].genre # "transfert"
         \/ registre'[i][op'[i].compte] = 0
         \/ /\ op'[i].genre = op[i].genre /\ op'[i].compte = op[i].compte
            /\ op'[i].cle = op[i].cle /\ registre'[i] = registre[i]
  PROVE  CleServieUneFois'
<1> SUFFICES ASSUME NEW j \in Ids, NEW k \in Ids, j # k,
                    op'[j].genre = "transfert", op'[k].genre = "transfert",
                    op'[k].compte = op'[j].compte, op'[k].cle = op'[j].cle,
                    op'[j].cle # SansCle
             PROVE  Ligne(j)' = 0 \/ Ligne(k)' = 0
  BY Zenon DEF CleServieUneFois
<1>1. \/ Ligne(i)' = 0
      \/ op'[i].genre # "transfert"
      \/ /\ op'[i].genre = op[i].genre /\ op'[i].compte = op[i].compte
         /\ op'[i].cle = op[i].cle /\ registre'[i] = registre[i]
  BY DEF Ligne
<1>2. CleServieUneFois
  BY DEF JInv
<1>3. CASE j = i
  BY <1>1, <1>2, <1>3 DEF CleServieUneFois, Ligne
<1>4. CASE k = i
  BY <1>1, <1>2, <1>4 DEF CleServieUneFois, Ligne
<1>5. CASE j # i /\ k # i
  BY <1>2, <1>5 DEF CleServieUneFois, Ligne
<1> QED BY <1>3, <1>4, <1>5

(* The genre of a request by its step, which a payment and a request that   *)
(* is not made yet never are at.                                            *)
LEMMA EtapeEngagee ==
  ASSUME IInv, JInv, NEW i \in Ids, op[i].etape \notin {"libre", "ligne", "fini"}
  PROVE  ~Paiement(i) /\ ~Rangee(i) /\ op[i].genre # "aucun" /\ operateur[i] # "PENDING"
BY DEF IInv, JInv, Juste, OpPaiement, OpAutre, OpTient, Rangee

(* A request moves on to step e: its row or the operator's answer may       *)
(* change with it, its ledger does not.                                     *)
LEMMA JusteEtape ==
  ASSUME IInv, JInv, PannesMontent, NEW i \in Ids, NEW e \in Etapes, Etape(i, e), ~Rangee(i),
         registre' = registre, agents' = agents,
         \A k \in Ids \ {i} : etat'[k] = etat[k] /\ operateur'[k] = operateur[k],
         \A p \in Procs \ {i} : verrous'[p] = verrous[p],
         OpTransfert(i)', OpRetrait(i)', OpPaiement(i)', OpAutre(i)', OpVerrous(i)'
  PROVE  JInv'
<1>1. /\ op'[i].genre = op[i].genre /\ op'[i].compte = op[i].compte /\ op'[i].cle = op[i].cle
      /\ \A k \in Ids \ {i} : op'[k] = op[k]
  BY EtapeType DEF IInv, Autour
<1>2. CleServieUneFois'
  BY <1>1, CleStable
<1>3. Juste(i)'
  BY DEF Juste
<1> QED BY <1>1, <1>2, <1>3, JusteOp

(* A request that only takes or drops rows.                                 *)
LEMMA JusteVerrou ==
  ASSUME IInv, JInv, PannesMontent, NEW i \in Ids, NEW e \in Etapes, Etape(i, e),
         op[i].etape \notin {"libre", "ligne", "fini"},
         UNCHANGED <<registre, etat, operateur, agents>>,
         \A p \in Procs \ {i} : verrous'[p] = verrous[p],
         OpVerrous(i)',
         \/ op[i].etape = "premier" /\ e = "second"
         \/ op[i].etape = "second" /\ e \in {"virer", "fini"}
         \/ op[i].etape = "debit" /\ e \in {"debiter", "echouer"}
         \/ op[i].etape = "retour" /\ e \in {"rembourser", "fini"}
         \/ op[i].etape = "admin" /\ e \in {"ecrire", "fini"}
  PROVE  JInv'
<1>1. /\ op'[i].etape = e
      /\ op'[i].genre = op[i].genre /\ op'[i].compte = op[i].compte /\ op'[i].cle = op[i].cle
      /\ op'[i].vers = op[i].vers /\ op'[i].montant = op[i].montant
  BY EtapeType DEF IInv, Autour
<1>2. ~Paiement(i) /\ ~Rangee(i) /\ op[i].genre # "aucun" /\ operateur[i] # "PENDING"
  BY EtapeEngagee
<1>3. OpTransfert(i) /\ OpRetrait(i) /\ OpAutre(i)
  BY DEF JInv, Juste
<1>4. OpTransfert(i)'
  BY <1>1, <1>3 DEF OpTransfert, Vierge, Vire
<1>5. OpRetrait(i)'
  BY <1>1, <1>3 DEF OpRetrait, Seul, Ligne, PannesMontent
<1>6. OpPaiement(i)'
  BY <1>1, <1>2 DEF OpPaiement, Paiement
<1>7. OpAutre(i)'
  BY <1>1, <1>2, <1>3 DEF OpAutre, Paiement
<1> QED BY <1>2, <1>4, <1>5, <1>6, <1>7, JusteEtape

(* A movement of a request that is no transfer.                             *)
LEMMA JusteMouvement ==
  ASSUME IInv, JInv, PannesMontent, NEW i \in Ids, NEW m \in Int, NEW e \in Etapes, Etape(i, e),
         Mouvement(i, i, op[i].compte, m), Lacher(i),
         UNCHANGED <<etat, operateur, agents>>,
         \/ op[i].etape = "debiter" /\ m = -op[i].montant /\ e = "envoyer"
         \/ op[i].etape = "rembourser" /\ m = op[i].montant /\ e = "echouer"
         \/ op[i].etape = "ecrire" /\ e = "fini"
  PROVE  JInv'
<1>0. i \in Procs /\ Argent /\ registre[i] \in [Comptes -> Int] /\ op[i].compte \in Comptes
      /\ op[i].montant \in Nat
  BY DEF Procs, IInv, Argent, Autour, Operation
<1>1. /\ op'[i].etape = e /\ op'[i].genre = op[i].genre /\ op'[i].compte = op[i].compte
      /\ op'[i].montant = op[i].montant
      /\ \A k \in Ids \ {i} : op'[k] = op[k]
  BY EtapeType DEF IInv, Autour
<1>2. ~Paiement(i) /\ ~Rangee(i) /\ op[i].genre # "aucun" /\ operateur[i] # "PENDING"
  BY EtapeEngagee
<1>3. OpTransfert(i) /\ OpRetrait(i) /\ OpAutre(i)
  BY DEF JInv, Juste
<1>4. op[i].genre # "transfert"
  BY <1>3 DEF OpTransfert
<1>5. /\ verrous'[i] = {} /\ \A p \in Procs \ {i} : verrous'[p] = verrous[p]
  BY <1>0, LacherTout
<1>6. registre' = [registre EXCEPT ![i] = [registre[i] EXCEPT ![op[i].compte] =
                                             registre[i][op[i].compte] + m]]
  BY Zenon DEF Mouvement
<1>7. /\ registre'[i][op[i].compte] = registre[i][op[i].compte] + m
      /\ \A d \in Comptes \ {op[i].compte} : registre'[i][d] = registre[i][d]
      /\ \A k \in Ids \ {i} : registre'[k] = registre[k]
  BY <1>0, <1>6 DEF Argent, IInv
<1>8. OpRetrait(i)'
  BY <1>0, <1>1, <1>3, <1>7 DEF OpRetrait, Seul, Ligne, PannesMontent
<1>9. OpTransfert(i)' /\ OpPaiement(i)' /\ OpAutre(i)' /\ OpVerrous(i)'
  BY <1>1, <1>2, <1>3, <1>4, <1>5 DEF OpTransfert, OpPaiement, OpAutre, OpVerrous, Paiement
<1>10. CleServieUneFois'
  BY <1>1, <1>4, <1>7, CleStable
<1> QED BY <1>1, <1>2, <1>5, <1>7, <1>8, <1>9, <1>10, JusteOp DEF Juste

(* Virer moves the money of a key that moved none before.                   *)
LEMMA JusteVirer ==
  ASSUME IInv, JInv, PannesMontent, NEW i \in Ids, Virer(i), agents' = agents
  PROVE  JInv'
<1>0. /\ i \in Procs /\ Argent /\ registre \in [Ids -> [Comptes -> Int]]
      /\ op[i].compte \in Comptes /\ op[i].vers \in Comptes /\ op[i].montant \in Nat
  BY DEF Procs, IInv, Argent, Autour, Operation
<1>1. /\ op[i].etape = "virer" /\ Etape(i, "fini") /\ Lacher(i)
      /\ UNCHANGED <<etat, operateur>>
  BY DEF Virer
<1>2. /\ op'[i].etape = "fini" /\ op'[i].genre = op[i].genre /\ op'[i].compte = op[i].compte
      /\ op'[i].vers = op[i].vers /\ op'[i].montant = op[i].montant /\ op'[i].cle = op[i].cle
      /\ \A k \in Ids \ {i} : op'[k] = op[k]
  BY <1>1, EtapeType DEF IInv, Autour, Etapes
<1>3. ~Paiement(i) /\ ~Rangee(i) /\ op[i].genre # "aucun" /\ operateur[i] # "PENDING"
  BY <1>1, EtapeEngagee
<1>4. OpTransfert(i) /\ OpRetrait(i) /\ OpAutre(i) /\ Vierge(i) /\ op[i].compte # op[i].vers
  BY <1>1 DEF JInv, Juste, IInv, OpTient, Vierge
<1>5. verrous'[i] = {} /\ \A p \in Procs \ {i} : verrous'[p] = verrous[p]
  BY <1>0, <1>1, LacherTout
<1>6. op[i].genre # "retrait"
  BY <1>1, <1>4 DEF OpRetrait
<1>7. OpRetrait(i)' /\ OpPaiement(i)' /\ OpAutre(i)' /\ OpVerrous(i)'
  BY <1>1, <1>2, <1>3, <1>4, <1>5, <1>6 DEF OpRetrait, OpPaiement, OpAutre, OpVerrous, Paiement
<1>8. CASE UNCHANGED registre
  <2>1. OpTransfert(i)'
    BY <1>2, <1>4, <1>8 DEF OpTransfert, Vierge
  <2> QED BY <1>1, <1>3, <1>5, <1>7, <1>8, <2>1, JusteEtape DEF Etapes
<1>9. CASE ~DoublonDeCle(i)
  <2>1. registre' = [registre EXCEPT ![i] = [registre[i] EXCEPT ![op[i].compte] = -op[i].montant,
                                                                ![op[i].vers] = op[i].montant]]
    BY <1>9 DEF Virer
  <2>2. /\ Vire(i)' /\ \A k \in Ids \ {i} : registre'[k] = registre[k]
    BY <1>0, <1>2, <1>4, <2>1 DEF Vire, Vierge
  <2>3. OpTransfert(i)'
    BY <1>2, <1>4, <2>2 DEF OpTransfert
  <2>4. \A k \in Ids \ {i} :
          op[k].genre = "transfert" /\ op[k].cle = op[i].cle /\ op[i].cle # SansCle
          /\ op[k].compte = op[i].compte => Ligne(k) = 0
    BY <1>9 DEF DoublonDeCle, Ligne
  <2>5. CleServieUneFois'
    <3> SUFFICES ASSUME NEW j \in Ids, NEW k \in Ids, j # k,
                        op'[j].genre = "transfert", op'[k].genre = "transfert",
                        op'[k].compte = op'[j].compte, op'[k].cle = op'[j].cle,
                        op'[j].cle # SansCle
                 PROVE  Ligne(j)' = 0 \/ Ligne(k)' = 0
      BY Zenon DEF CleServieUneFois
    <3>1. CASE j = i
      BY <1>2, <2>2, <2>4, <3>1 DEF Ligne
    <3>2. CASE k = i
      BY <1>2, <2>2, <2>4, <3>2 DEF Ligne
    <3>3. CASE j # i /\ k # i
      BY <1>2, <2>2, <3>3 DEF CleServieUneFois, JInv, Ligne
    <3> QED BY <3>1, <3>2, <3>3
  <2> QED BY <1>1, <1>2, <1>3, <1>5, <1>7, <2>2, <2>3, <2>5, JusteOp DEF Juste
<1> QED BY <1>8, <1>9 DEF Virer

(* The steps of a request.                                                  *)
LEMMA JusteOpAvance ==
  ASSUME IInv, JInv, PannesMontent, NEW i \in Ids, OpAvance(i)
  PROVE  JInv'
<1>0. /\ i \in Procs /\ agents' = agents /\ EtapeOp(i) /\ Argent
      /\ op[i].compte \in Comptes /\ op[i].vers \in Comptes /\ op[i].montant \in Nat
      /\ OpTransfert(i) /\ OpRetrait(i) /\ OpPaiement(i) /\ OpAutre(i) /\ OpVerrous(i)
      /\ etat \in [Ids -> Etats] /\ operateur \in [Ids -> Operateurs]
  BY DEF Procs, OpAvance, varsRecharge, IInv, Autour, Operation, JInv, Juste
<1>1. Premier(i) \in Comptes /\ Second(i) \in Comptes
  BY <1>0 DEF Premier, Second
<1>2. \A e \in Etapes : Etape(i, e) =>
        /\ op'[i].etape = e /\ op'[i].genre = op[i].genre /\ op'[i].compte = op[i].compte
        /\ op'[i].vers = op[i].vers /\ op'[i].montant = op[i].montant
        /\ \A k \in Ids \ {i} : op'[k] = op[k]
  BY EtapeType DEF IInv, Autour
<1>3. \A c \in Comptes : Prendre(i, c) /\ UNCHANGED <<solde, registre>> =>
        /\ verrous'[i] = verrous[i] \cup {c}
        /\ \A p \in Procs \ {i} : verrous'[p] = verrous[p]
  BY <1>0, ArgentPrendre
<1>4. Lacher(i) => verrous'[i] = {} /\ \A p \in Procs \ {i} : verrous'[p] = verrous[p]
  BY <1>0, LacherTout
<1>5. op[i].etape \notin {"libre", "ligne", "fini"} =>
        ~Paiement(i) /\ ~Rangee(i) /\ op[i].genre # "aucun" /\ operateur[i] # "PENDING"
  BY EtapeEngagee
<1> USE DEF Etapes
<1>b. CASE VerrouillerPremier(i)
  <2>1. OpVerrous(i)'
    BY <1>0, <1>1, <1>2, <1>3, <1>b DEF VerrouillerPremier, OpVerrous, Premier, DansLOrdre
  <2> QED BY <1>0, <1>1, <1>3, <1>b, <2>1, JusteVerrou DEF VerrouillerPremier
<1>c. CASE VerrouillerSecond(i)
  <2>1. OpVerrous(i)' /\ \A p \in Procs \ {i} : verrous'[p] = verrous[p]
    BY <1>0, <1>1, <1>2, <1>3, <1>4, <1>c DEF VerrouillerSecond, OpVerrous
  <2> QED BY <1>0, <1>c, <2>1, JusteVerrou DEF VerrouillerSecond
<1>d. CASE Virer(i)
  BY <1>0, <1>d, JusteVirer
<1>e. CASE InsererRetrait(i)
  <2>1. /\ op[i].etape = "ligne" /\ op[i].genre = "retrait" /\ Etape(i, "debit")
        /\ etat' = [etat EXCEPT ![i] = "PENDING_WITHDRAW"]
        /\ UNCHANGED <<registre, operateur, verrous>>
    BY <1>e DEF InsererRetrait
  <2>2. ~Rangee(i)
    BY <2>1 DEF Rangee
  <2>3. OpRetrait(i)'
    BY <1>0, <1>2, <2>1 DEF OpRetrait, Seul, Ligne
  <2>4. OpTransfert(i)' /\ OpPaiement(i)' /\ OpAutre(i)' /\ OpVerrous(i)'
    BY <1>0, <1>2, <2>1 DEF OpTransfert, OpPaiement, OpAutre, OpVerrous, Paiement
  <2> QED BY <1>0, <2>1, <2>2, <2>3, <2>4, JusteEtape
<1>f. CASE VerrouillerDebit(i)
  <2>1. OpVerrous(i)' /\ \A p \in Procs \ {i} : verrous'[p] = verrous[p]
    BY <1>0, <1>2, <1>3, <1>f DEF VerrouillerDebit, OpVerrous
  <2> QED BY <1>0, <1>f, <2>1, JusteVerrou DEF VerrouillerDebit
<1>g. CASE Debiter(i)
  BY <1>0, <1>g, JusteMouvement DEF Debiter
<1>h. CASE Envoyer(i)
  <2>0. op[i].etape = "envoyer" /\ UNCHANGED <<registre, etat, verrous>>
    BY <1>h DEF Envoyer
  <2>1. PICK r \in {"rien", "acceptee"}, e \in {"confirmer", "retour"} :
          /\ operateur' = [operateur EXCEPT ![i] = r] /\ Etape(i, e)
          /\ e = "confirmer" => r = "acceptee"
    BY <1>h DEF Envoyer
  <2>2. operateur'[i] = r /\ \A k \in Ids \ {i} : operateur'[k] = operateur[k]
    BY <1>0, <2>1
  <2>3. /\ op'[i].etape = e /\ op'[i].genre = op[i].genre /\ op'[i].compte = op[i].compte
        /\ op'[i].vers = op[i].vers /\ op'[i].montant = op[i].montant
    BY <1>2, <2>1
  <2>4. OpTransfert(i)' /\ OpVerrous(i)'
    BY <1>0, <2>0, <2>3 DEF OpTransfert, OpVerrous
  <2>5. OpRetrait(i)'
    BY <1>0, <2>0, <2>1, <2>2, <2>3 DEF OpRetrait, Seul, Ligne
  <2>6. OpPaiement(i)' /\ OpAutre(i)'
    BY <1>0, <1>5, <2>0, <2>1, <2>2, <2>3 DEF OpPaiement, OpAutre, Paiement
  <2> QED BY <1>0, <1>5, <2>0, <2>1, <2>2, <2>4, <2>5, <2>6, JusteEtape
<1>i. CASE Confirmer(i)
  <2>0. op[i].etape = "confirmer" /\ UNCHANGED <<registre, operateur, verrous>>
    BY <1>i DEF Confirmer
  <2>1. CASE etat' = [etat EXCEPT ![i] = "COMPLETED"] /\ Etape(i, "fini")
    <3>1. /\ op'[i].etape = "fini" /\ op'[i].genre = op[i].genre /\ op'[i].compte = op[i].compte
          /\ op'[i].vers = op[i].vers /\ op'[i].montant = op[i].montant
      BY <1>2, <2>1
    <3>2. OpRetrait(i)'
      BY <1>0, <2>0, <2>1, <3>1 DEF OpRetrait, Seul, Ligne
    <3>3. OpTransfert(i)' /\ OpPaiement(i)' /\ OpAutre(i)' /\ OpVerrous(i)'
      BY <1>0, <1>5, <2>0, <3>1 DEF OpTransfert, OpPaiement, OpAutre, OpVerrous, Paiement
    <3> QED BY <1>0, <1>5, <2>0, <2>1, <3>2, <3>3, JusteEtape
  <2>2. CASE /\ etat' = etat \/ etat' = [etat EXCEPT ![i] = "COMPLETED"]
             /\ Etape(i, "retour") /\ pannes' = pannes + 1
    <3>1. /\ op'[i].etape = "retour" /\ op'[i].genre = op[i].genre
          /\ op'[i].compte = op[i].compte
          /\ op'[i].vers = op[i].vers /\ op'[i].montant = op[i].montant
      BY <1>2, <2>2
    <3>2. OpRetrait(i)'
      BY <1>0, <2>0, <2>2, <3>1 DEF OpRetrait, Seul, Ligne, PannesMontent
    <3>3. OpTransfert(i)' /\ OpPaiement(i)' /\ OpAutre(i)' /\ OpVerrous(i)'
      BY <1>0, <1>5, <2>0, <2>2, <3>1 DEF OpTransfert, OpPaiement, OpAutre, OpVerrous, Paiement
    <3>4. \A k \in Ids \ {i} : etat'[k] = etat[k]
      BY <1>0, <2>2
    <3> QED BY <1>0, <1>5, <2>0, <2>2, <3>2, <3>3, <3>4, JusteEtape
  <2>3. etat \in [Ids -> Etats] /\ (etat' = [etat EXCEPT ![i] = etat[i]] => etat' = etat)
    BY <1>0
  <2> QED BY <1>i, <2>1, <2>2, <2>3, Zenon DEF Confirmer
<1>j. CASE VerrouillerRetour(i)
  <2>1. OpVerrous(i)' /\ \A p \in Procs \ {i} : verrous'[p] = verrous[p]
    BY <1>0, <1>2, <1>3, <1>j DEF VerrouillerRetour, OpVerrous
  <2> QED BY <1>0, <1>j, <2>1, JusteVerrou DEF VerrouillerRetour
<1>k. CASE Rembourser(i)
  BY <1>0, <1>k, JusteMouvement DEF Rembourser
<1>l. CASE MarquerEchec(i)
  <2>0. /\ op[i].etape = "echouer" /\ UNCHANGED <<registre, operateur, verrous>>
        /\ etat' = [etat EXCEPT ![i] = "FAILED"] /\ Etape(i, "fini")
    BY <1>l DEF MarquerEchec
  <2>1. /\ op'[i].etape = "fini" /\ op'[i].genre = op[i].genre /\ op'[i].compte = op[i].compte
        /\ op'[i].vers = op[i].vers /\ op'[i].montant = op[i].montant
    BY <1>2, <2>0
  <2>2. OpRetrait(i)'
    BY <1>0, <2>0, <2>1 DEF OpRetrait, Seul, Ligne
  <2>3. OpTransfert(i)' /\ OpPaiement(i)' /\ OpAutre(i)' /\ OpVerrous(i)'
    BY <1>0, <1>5, <2>0, <2>1 DEF OpTransfert, OpPaiement, OpAutre, OpVerrous, Paiement
  <2> QED BY <1>0, <1>5, <2>0, <2>2, <2>3, JusteEtape
<1>m. CASE VerrouillerAdmin(i)
  <2>1. OpVerrous(i)' /\ \A p \in Procs \ {i} : verrous'[p] = verrous[p]
    BY <1>0, <1>2, <1>3, <1>m DEF VerrouillerAdmin, OpVerrous
  <2> QED BY <1>0, <1>m, <2>1, JusteVerrou DEF VerrouillerAdmin
<1>n. CASE EcrireAdmin(i)
  <2> DEFINE m == IF op[i].genre = "admin_credit" THEN op[i].montant
                  ELSE IF op[i].genre = "admin_debit" THEN -op[i].montant
                  ELSE -lus[i][op[i].compte]
  <2>1. m \in Int
    BY <1>0 DEF Argent
  <2>2. /\ op[i].etape = "ecrire" /\ Mouvement(i, i, op[i].compte, m)
        /\ Lacher(i) /\ Etape(i, "fini") /\ UNCHANGED <<etat, operateur>>
    BY <1>n DEF EcrireAdmin
  <2> HIDE DEF m
  <2> QED BY <1>0, <2>1, <2>2, JusteMouvement
<1> QED BY <1>0, <1>b, <1>c, <1>d, <1>e, <1>f, <1>g, <1>h, <1>i, <1>j, <1>k, <1>l, <1>m, <1>n
        DEF EtapeOp

(* A request begins.                                                        *)
LEMMA JusteNouvelle ==
  ASSUME IInv, JInv, PannesMontent, NEW i \in Ids, NEW c \in Comptes, NEW v \in Comptes, NEW m \in Montants,
         NEW k \in Cles \cup {SansCle},
         NEW g \in {"transfert", "retrait", "marchand", "recharge",
                    "admin_credit", "admin_debit", "admin_zero"},
         NEW e \in {"premier", "ligne", "admin"},
         Nouvelle(i, g, c, v, m, k, e),
         g = "transfert" => e = "premier" /\ c # v,
         g \in {"retrait", "marchand", "recharge"} => e = "ligne",
         g \in {"admin_credit", "admin_debit", "admin_zero"} => e = "admin",
         UNCHANGED <<registre, etat, verrous, agents>>,
         \/ operateur' = operateur
         \/ operateur' = [operateur EXCEPT ![i] = "PENDING"] /\ g \in {"marchand", "recharge"}
  PROVE  JInv'
<1>0. /\ op[i].genre = "aucun" /\ OpTient(i) /\ OpAutre(i) /\ OpVerrous(i)
      /\ m \in Nat /\ m > 0 /\ operateur \in [Ids -> Operateurs]
  BY PortefeuilleConstantes DEF Nouvelle, JInv, Juste, IInv, Autour
<1>1. /\ op'[i] = [genre |-> g, compte |-> c, vers |-> v, montant |-> m,
                   cle |-> k, etape |-> e]
      /\ \A j \in Ids \ {i} : op'[j] = op[j]
  <2>1. e \in Etapes /\ g \in {"aucun", "transfert", "admin_zero"} \cup Plus \cup Moins
    BY DEF Etapes, Plus, Moins
  <2>2. op \in [Ids -> Operation]
    BY DEF IInv, Autour
  <2> QED BY <2>1, <2>2, NouvelleType
<1>2. op[i].etape = "libre" /\ Vierge(i) /\ verrous[i] = {}
  BY <1>0 DEF OpTient, Vierge, OpVerrous
<1>3. etat[i] = "absente" /\ ~Rangee(i)
  BY <1>0 DEF OpAutre, Rangee, Paiement
<1>4. /\ \A j \in Ids \ {i} : operateur'[j] = operateur[j]
      /\ operateur'[i] = "PENDING" => g \in {"marchand", "recharge"}
  BY <1>0 DEF OpAutre, Paiement
<1>5. OpTransfert(i)'
  BY <1>0, <1>1, <1>2 DEF OpTransfert, Vierge
<1>6. OpRetrait(i)'
  BY <1>1, <1>2, <1>3 DEF OpRetrait, Seul, Ligne, Vierge
<1>7. OpPaiement(i)'
  BY <1>1, <1>2, <1>3 DEF OpPaiement, Seul, Ligne, Vierge, Paiement
<1>8. OpAutre(i)' /\ OpVerrous(i)'
  BY <1>1, <1>2, <1>4 DEF OpAutre, OpVerrous, Paiement
<1>9. CleServieUneFois'
  BY <1>1, <1>2, CleStable DEF Vierge
<1> QED BY <1>1, <1>3, <1>4, <1>5, <1>6, <1>7, <1>8, <1>9, JusteOp DEF Juste

LEMMA JusteDemande ==
  ASSUME IInv, JInv, PannesMontent, NEW i \in Ids, Demande(i), UNCHANGED varsRecharge
  PROVE  JInv'
<1>0. SansCle \in Cles \cup {SansCle} /\ agents' = agents
  BY DEF varsRecharge
<1>1. CASE RecevoirTransfert(i)
  <2>1. PICK c \in Comptes, v \in Comptes, m \in Montants, k \in Cles \cup {SansCle} :
          c # v /\ Nouvelle(i, "transfert", c, v, m, k, "premier")
    BY <1>1 DEF RecevoirTransfert
  <2> QED BY <1>0, <1>1, <2>1, JusteNouvelle DEF RecevoirTransfert
<1>2. CASE RecevoirRetrait(i)
  <2>1. PICK c \in Comptes, m \in Montants :
          Nouvelle(i, "retrait", c, c, m, SansCle, "ligne")
    BY <1>2 DEF RecevoirRetrait
  <2> QED BY <1>0, <1>2, <2>1, JusteNouvelle DEF RecevoirRetrait
<1>3. CASE RecevoirAdmin(i)
  <2>1. PICK g \in {"admin_credit", "admin_debit", "admin_zero"},
             c \in Comptes, m \in Montants :
          Nouvelle(i, g, c, c, m, SansCle, "admin")
    BY <1>3 DEF RecevoirAdmin
  <2> QED BY <1>0, <1>3, <2>1, JusteNouvelle DEF RecevoirAdmin
<1> QED BY <1>1, <1>2, <1>3 DEF Demande

LEMMA JusteInitier ==
  ASSUME IInv, JInv, PannesMontent, NEW i \in Ids, Initier(i)
  PROVE  JInv'
<1>1. PICK g \in {"marchand", "recharge"}, c \in Comptes, m \in Montants :
        Nouvelle(i, g, c, c, m, SansCle, "ligne")
  BY DEF Initier
<1>2. /\ SansCle \in Cles \cup {SansCle}
      /\ operateur' = [operateur EXCEPT ![i] = "PENDING"]
      /\ UNCHANGED <<registre, etat, verrous, agents>>
  BY DEF Initier, varsRecharge
<1> QED BY <1>1, <1>2, JusteNouvelle

LEMMA JusteEnregistrer ==
  ASSUME IInv, JInv, PannesMontent, NEW i \in Ids, Enregistrer(i)
  PROVE  JInv'
<1>1. /\ op[i].etape = "ligne" /\ Paiement(i) /\ Etape(i, "fini")
      /\ etat' = [etat EXCEPT ![i] = "PENDING"]
      /\ UNCHANGED <<registre, operateur, verrous, agents>>
      /\ etat \in [Ids -> Etats]
  BY DEF Enregistrer, IInv, Autour
<1>2. /\ op'[i].etape = "fini" /\ op'[i].genre = op[i].genre /\ op'[i].compte = op[i].compte
      /\ op'[i].vers = op[i].vers /\ op'[i].montant = op[i].montant
  BY <1>1, EtapeType DEF IInv, Autour, Etapes
<1>3. ~Rangee(i) /\ OpPaiement(i) /\ OpAutre(i) /\ OpVerrous(i)
  BY <1>1 DEF Rangee, JInv, Juste
<1>4. OpPaiement(i)'
  BY <1>1, <1>2, <1>3 DEF OpPaiement, Paiement, Seul, Ligne
<1>5. OpTransfert(i)' /\ OpRetrait(i)' /\ OpAutre(i)' /\ OpVerrous(i)'
  BY <1>1, <1>2, <1>3 DEF OpTransfert, OpRetrait, OpAutre, OpVerrous, Paiement
<1> QED BY <1>1, <1>3, <1>4, <1>5, JusteEtape DEF Etapes

(* A death leaves the ledger and the row as they are.                       *)
LEMMA JusteMourir ==
  ASSUME IInv, JInv, PannesMontent, NEW i \in Ids, Mourir(i), UNCHANGED varsRecharge
  PROVE  JInv'
<1>1. /\ i \in Procs /\ op[i].etape \notin {"libre", "fini"} /\ Etape(i, "fini") /\ Lacher(i)
      /\ UNCHANGED <<registre, etat, operateur, agents>> /\ Argent
  BY DEF Procs, Mourir, varsRecharge, IInv
<1>2. /\ op'[i].etape = "fini" /\ op'[i].genre = op[i].genre /\ op'[i].compte = op[i].compte
      /\ op'[i].vers = op[i].vers /\ op'[i].montant = op[i].montant
  BY <1>1, EtapeType DEF IInv, Autour, Etapes
<1>3. ~Rangee(i) /\ OpTransfert(i) /\ OpRetrait(i) /\ OpPaiement(i) /\ OpAutre(i)
  BY <1>1 DEF Rangee, JInv, Juste
<1>4. verrous'[i] = {} /\ \A p \in Procs \ {i} : verrous'[p] = verrous[p]
  BY <1>1, LacherTout
<1>5. OpTransfert(i)'
  BY <1>1, <1>2, <1>3 DEF OpTransfert, Vierge, Vire
<1>6. OpRetrait(i)'
  <2>1. pannes' = pannes + 1 /\ pannes \in Nat
    BY DEF Mourir, PannesMontent
  <2> QED BY <1>1, <1>2, <1>3, <2>1 DEF OpRetrait, Seul, Ligne
<1>7. OpPaiement(i)'
  BY <1>1, <1>2, <1>3 DEF OpPaiement, Paiement, Seul, Ligne, PannesMontent
<1>8. OpAutre(i)' /\ OpVerrous(i)'
  BY <1>1, <1>2, <1>3, <1>4 DEF OpAutre, OpVerrous, Paiement
<1> QED BY <1>1, <1>3, <1>4, <1>5, <1>6, <1>7, <1>8, JusteEtape DEF Etapes

(* The client answers the operator: no process had acted on the payment.    *)
LEMMA JustePayer ==
  ASSUME IInv, JInv, NEW i \in Ids, Payer(i)
  PROVE  JInv'
<1>0. /\ operateur \in [Ids -> Operateurs]
      /\ registre \in [Ids -> [Comptes -> Int]] /\ op[i].compte \in Comptes
  BY DEF IInv, Autour, Argent, Operation
<1>1. PICK r \in {"SUCCESS", "FAILED"} : operateur' = [operateur EXCEPT ![i] = r]
  BY DEF Payer
<1>2. /\ operateur[i] = "PENDING" /\ operateur'[i] = r
      /\ \A k \in Ids \ {i} : operateur'[k] = operateur[k]
      /\ UNCHANGED <<op, registre, etat, verrous, pannes, agents>>
  BY <1>0, <1>1 DEF Payer, varsRecharge
<1>3. ASSUME NEW k \in Ids PROVE Juste(k)'
  <2>0. Juste(k) /\ Juste(i)
    BY DEF JInv
  <2>1. OpTransfert(k)' /\ OpVerrous(k)'
    BY <1>2, <2>0 DEF Juste, OpTransfert, Vierge, Vire, OpVerrous, Premier, DansLOrdre
  <2>2. OpRetrait(k)' /\ OpPaiement(k)' /\ OpAutre(k)'
    <3>1. CASE k # i
      BY <1>2, <2>0, <3>1 DEF Juste, OpRetrait, OpPaiement, OpAutre, Seul, Ligne, Paiement
    <3>2. CASE k = i
      <4>1. Paiement(i) /\ op[i].genre # "retrait" /\ op[i].genre # "aucun"
        BY <1>2, <2>0 DEF Juste, OpAutre, Paiement
      <4>2. Ligne(i) = 0 /\ (etat[i] = "FAILED" => pannes > 0)
        BY <1>0, <1>2, <2>0, <4>1 DEF Juste, OpPaiement, Ligne
      <4> QED BY <1>2, <2>0, <3>2, <4>1, <4>2
           DEF Juste, OpRetrait, OpPaiement, OpAutre, Seul, Ligne, Paiement
    <3> QED BY <3>1, <3>2
  <2> QED BY <2>1, <2>2 DEF Juste
<1>4. ASSUME NEW a \in Agents PROVE AgentSait(a)'
  <2>1. AgentSait(a) /\ AgentTient(a)
    BY DEF JInv, IInv
  <2>2. /\ agents[a].etape \in {"marquer", "compte", "crediter", "notifier"} =>
             agents[a].ligne \in Ids \ {i}
        /\ agents[a].etape = "echec" => agents[a].ligne \in Ids \ {i} \/ pannes > 0
    BY <1>2, <2>1 DEF AgentTient, AgentSait, EnCours
  <2> QED BY <1>2, <2>1, <2>2 DEF AgentSait, Ligne
<1>5. CleServieUneFois'
  BY <1>2 DEF JInv, CleServieUneFois, Ligne
<1> QED BY <1>3, <1>4, <1>5 DEF JInv

----------------------------------------------------------------------------
(* The settlement processes.                                                *)

(* A step of a: only payments it is allowed to touch change, and their      *)
(* ledger row only grows.                                                   *)
LEMMA JusteAgent ==
  ASSUME IInv, JInv, PannesMontent, NEW a \in Agents, op' = op, operateur' = operateur,
         Argent',
         \A k \in Ids : \/ registre'[k] = registre[k] /\ etat'[k] = etat[k]
                        \/ Rangee(k) /\ OpPaiement(k)' /\ Ligne(k)' >= Ligne(k),
         \A p \in Procs \ {a} : verrous'[p] = verrous[p],
         \A b \in Agents \ {a} : agents'[b] = agents[b],
         AgentSait(a)'
  PROVE  JInv'
<1>1. ASSUME NEW k \in Ids PROVE Juste(k)'
  <2>0. Juste(k) /\ verrous'[k] = verrous[k]
    BY Finis DEF JInv, Procs
  <2>1. OpVerrous(k)'
    BY <2>0 DEF Juste, OpVerrous, Premier, DansLOrdre
  <2>2. CASE registre'[k] = registre[k] /\ etat'[k] = etat[k]
    BY <2>0, <2>1, <2>2
    DEF Juste, OpTransfert, Vierge, Vire, OpRetrait, OpPaiement, OpAutre, Seul, Ligne, Paiement,
        PannesMontent
  <2>3. CASE Rangee(k) /\ OpPaiement(k)'
    <3>1. Paiement(k)' /\ Paiement(k)
      BY <2>3 DEF Rangee, Paiement
    <3> QED BY <2>0, <2>1, <2>3, <3>1
         DEF Juste, OpTransfert, OpRetrait, OpAutre, Paiement
  <2> QED BY <2>2, <2>3
<1>2. ASSUME NEW b \in Agents PROVE AgentSait(b)'
  <2>1. CASE b # a
    <3>1. AgentSait(b) /\ AgentTient(b) /\ agents'[b] = agents[b] /\ verrous'[b] = verrous[b]
      BY <2>1 DEF JInv, IInv, Procs
    <3>2. ASSUME agents[b].etape = "notifier"
          PROVE  registre'[agents[b].ligne][op[agents[b].ligne].compte]
                   >= op[agents[b].ligne].montant
      <4>1. PICK k \in Ids : k = agents[b].ligne
        BY <3>1, <3>2 DEF AgentTient, EnCours
      <4>2. Ligne(k) >= op[k].montant /\ op[k].montant \in Nat /\ op[k].compte \in Comptes
        BY <3>1, <3>2, <4>1 DEF AgentSait, IInv, Autour, Operation
      <4>3. Ligne(k) \in Int /\ Ligne(k)' \in Int
        BY <4>2 DEF IInv, Argent, Ligne
      <4>4. Ligne(k)' >= Ligne(k)
        BY <4>3 DEF Ligne
      <4> QED BY <4>1, <4>2, <4>3, <4>4 DEF Ligne
    <3> QED BY <3>1, <3>2 DEF AgentSait, Ligne, PannesMontent
  <2> QED BY <2>1
<1>3. CleServieUneFois'
  <2>1. \A k \in Ids : op[k].genre = "transfert" => registre'[k] = registre[k]
    BY DEF Rangee, Paiement
  <2> QED BY <2>1 DEF JInv, CleServieUneFois, Ligne
<1> QED BY <1>1, <1>2, <1>3 DEF JInv

(* After the end of a row a process knows nothing.                          *)
LEMMA SuiteSait ==
  ASSUME agents \in [Agents -> Agent], NEW a \in Agents, Suite(a)
  PROVE  /\ agents'[a].etape \in {"consulter", "libre", "fini"}
         /\ \A b \in Agents \ {a} : agents'[b] = agents[b]
BY DEF Suite, Suivante, Repos

LEMMA AllerSait ==
  ASSUME agents \in [Agents -> Agent], NEW a \in Agents, NEW e, Aller(a, e)
  PROVE  /\ agents'[a].etape = e /\ agents'[a].ligne = agents[a].ligne
         /\ \A b \in Agents \ {a} : agents'[b] = agents[b]
BY DEF Aller, Agent

LEMMA JusteEtapeAgent ==
  ASSUME IInv, JInv, PannesMontent, NEW a \in Agents, EtapeAgent(a)
  PROVE  JInv'
<1>9. PICK i : i = agents[a].ligne
  OBVIOUS
<1> USE <1>9
<1>0. /\ a \in Procs /\ Argent /\ AgentTient(a) /\ AgentSait(a)
      /\ agents \in [Agents -> Agent] /\ agents[a] \in Agent /\ etat \in [Ids -> Etats]
      /\ IInv'
  BY PasEtapeAgent DEF Procs, IInv, Autour, JInv
<1>1. agents[a].etape \in EnCours =>
        /\ i \in Ids /\ Rangee(i) /\ Paiement(i) /\ OpPaiement(i)
        /\ op[i].compte \in Comptes /\ op[i].montant \in Nat
  BY <1>0 DEF AgentTient, Rangee, JInv, Juste, IInv, Autour, Operation
<1>2. Argent' /\ registre \in [Ids -> [Comptes -> Int]]
  BY <1>0 DEF IInv, Argent
<1>c. CASE Consulter(a)
  <2>1. /\ agents[a].etape = "consulter"
        /\ UNCHANGED <<op, registre, etat, operateur, verrous>>
        /\ \/ operateur[i] = "SUCCESS" /\ Aller(a, "marquer")
           \/ (operateur[i] = "FAILED" \/ pannes' = pannes + 1) /\ Aller(a, "echec")
           \/ Suite(a)
    BY <1>c, Zenon DEF Consulter
  <2>2. /\ \A b \in Agents \ {a} : agents'[b] = agents[b]
        /\ AgentSait(a)'
    BY <1>0, <2>1, AllerSait, SuiteSait DEF AgentSait, PannesMontent
  <2> QED BY <1>2, <2>1, <2>2, JusteAgent
<1>d. CASE MarquerFailed(a)
  <2>1. /\ agents[a].etape = "echec" /\ agents[a].etape \in EnCours /\ Suite(a)
        /\ UNCHANGED <<op, registre, operateur, verrous>>
        /\ etat' = etat \/ etat' = [etat EXCEPT ![i] = "FAILED"]
    BY <1>d DEF MarquerFailed, EnCours
  <2>2. /\ \A b \in Agents \ {a} : agents'[b] = agents[b]
        /\ AgentSait(a)'
    BY <1>0, <2>1, SuiteSait DEF AgentSait
  <2>3. operateur[i] = "FAILED" \/ pannes' > 0
    BY <1>0, <2>1 DEF AgentSait, PannesMontent
  <2>4. etat' = etat \/ OpPaiement(i)'
    BY <1>0, <1>1, <2>1, <2>3 DEF OpPaiement, Paiement, Seul, Ligne
  <2>5. \A k \in Ids : \/ etat'[k] = etat[k]
                       \/ k = i /\ OpPaiement(i)' /\ Ligne(i)' >= Ligne(i)
    <3>1. Ligne(i)' >= Ligne(i)
      BY <1>1, <1>2, <2>1 DEF Ligne
    <3>2. \A k \in Ids : etat'[k] = etat[k] \/ k = i
      BY <1>0, <2>1
    <3> QED BY <2>4, <3>1, <3>2, Zenon
  <2> QED BY <1>1, <1>2, <2>1, <2>2, <2>5, JusteAgent
<1>e. CASE Marquer(a)
  <2>1. /\ agents[a].etape = "marquer"
        /\ UNCHANGED <<op, registre, etat, operateur, verrous>>
        /\ agents' = [agents EXCEPT ![a] =
                        [agents[a] EXCEPT !.etape = "compte", !.mise = etat[i] = "PENDING"]]
    BY <1>e DEF Marquer, varsPortefeuille
  <2>2. /\ agents'[a].etape = "compte" /\ agents'[a].ligne = agents[a].ligne
        /\ \A b \in Agents \ {a} : agents'[b] = agents[b]
    BY <1>0, <2>1 DEF Agent
  <2>3. AgentSait(a)'
    BY <1>0, <2>1, <2>2 DEF AgentSait
  <2> QED BY <1>2, <2>1, <2>2, <2>3, JusteAgent
<1>f. CASE VerrouillerCompte(a)
  <2>1. /\ agents[a].etape = "compte" /\ agents[a].etape \in EnCours
        /\ UNCHANGED <<op, solde, registre, etat, operateur>>
        /\ \/ Suite(a) /\ UNCHANGED verrous
           \/ Prendre(a, op[i].compte) /\ Aller(a, "crediter")
    BY <1>f DEF VerrouillerCompte, EnCours
  <2>2. CASE Suite(a) /\ UNCHANGED verrous
    <3>1. AgentSait(a)' /\ \A b \in Agents \ {a} : agents'[b] = agents[b]
      BY <1>0, <2>1, <2>2, SuiteSait DEF AgentSait
    <3> QED BY <1>2, <2>1, <2>2, <3>1, JusteAgent
  <2>3. CASE Prendre(a, op[i].compte) /\ Aller(a, "crediter")
    <3>1. \A p \in Procs \ {a} : verrous'[p] = verrous[p]
      BY <1>0, <1>1, <2>1, <2>3, ArgentPrendre
    <3>2. AgentSait(a)' /\ \A b \in Agents \ {a} : agents'[b] = agents[b]
      BY <1>0, <2>1, <2>3, AllerSait DEF AgentSait
    <3> QED BY <1>2, <2>1, <3>1, <3>2, JusteAgent
  <2> QED BY <2>1, <2>2, <2>3
<1>g. CASE Crediter(a)
  <2>1. /\ agents[a].etape = "crediter" /\ agents[a].etape \in EnCours
        /\ Mouvement(a, i, op[i].compte, op[i].montant) /\ Lacher(a)
        /\ UNCHANGED <<op, operateur, pannes>>
        /\ \/ etat' = EtatValide(a) /\ Suite(a)
           \/ Aller(a, "notifier") /\ UNCHANGED etat
    BY <1>g DEF Crediter, EnCours
  <2>2. /\ verrous'[a] = {} /\ \A p \in Procs \ {a} : verrous'[p] = verrous[p]
    BY <1>0, <2>1, LacherTout
  <2>3. registre' = [registre EXCEPT ![i] = [registre[i] EXCEPT ![op[i].compte] =
                                               registre[i][op[i].compte] + op[i].montant]]
    BY <2>1, Zenon DEF Mouvement
  <2>4. /\ Ligne(i)' = Ligne(i) + op[i].montant /\ Ligne(i) \in Int
        /\ \A d \in Comptes \ {op[i].compte} : registre'[i][d] = registre[i][d]
        /\ \A k \in Ids \ {i} : registre'[k] = registre[k]
    BY <1>1, <1>2, <2>1, <2>3 DEF Ligne
  <2>5. operateur[i] = "SUCCESS"
    BY <1>0, <2>1 DEF AgentSait
  <2>6. /\ \A k \in Ids \ {i} : etat'[k] = etat[k]
        /\ etat'[i] \in {etat[i], "COMPLETED"}
    BY <1>0, <1>1, <2>1 DEF EtatValide
  <2>7. OpPaiement(i)'
    <3>1. /\ op[i].montant \in Nat /\ Ligne(i) >= 0 /\ Seul(i)
          /\ op[i].etape \in {"ligne", "fini"}
          /\ etat[i] = "FAILED" => operateur[i] = "FAILED" \/ pannes > 0
          /\ etat[i] = "COMPLETED" => Ligne(i) >= op[i].montant
      BY <1>1, <2>1 DEF OpPaiement
    <3>2. Seul(i)'
      BY <2>1, <2>4, <3>1 DEF Seul
    <3>3. Ligne(i)' >= op[i].montant /\ Ligne(i)' >= 0
      BY <2>4, <3>1
    <3>4. etat'[i] = "FAILED" => operateur[i] = "FAILED" \/ pannes > 0
      BY <2>6, <3>1
    <3> QED BY <2>1, <2>5, <3>1, <3>2, <3>3, <3>4 DEF OpPaiement
  <2>8. AgentSait(a)' /\ \A b \in Agents \ {a} : agents'[b] = agents[b]
    <3>1. Ligne(i)' >= op[i].montant
      BY <1>1, <2>1, <2>4 DEF OpPaiement
    <3>2. CASE Suite(a)
      BY <1>0, <2>2, <3>2, SuiteSait DEF AgentSait
    <3>3. CASE Aller(a, "notifier")
      BY <1>0, <2>1, <2>2, <2>5, <3>1, <3>3, AllerSait DEF AgentSait
    <3> QED BY <2>1, <3>2, <3>3
  <2>9. \A k \in Ids : \/ registre'[k] = registre[k] /\ etat'[k] = etat[k]
                       \/ Rangee(k) /\ OpPaiement(k)' /\ Ligne(k)' >= Ligne(k)
    BY <1>1, <2>1, <2>4, <2>6, <2>7
  <2> QED BY <1>2, <2>1, <2>2, <2>8, <2>9, JusteAgent
<1>h. CASE Notifier(a)
  <2>1. /\ agents[a].etape = "notifier" /\ agents[a].etape \in EnCours /\ Suite(a)
        /\ UNCHANGED <<op, registre, operateur, verrous>>
        /\ etat' = EtatValide(a) \/ etat' = etat
    BY <1>h DEF Notifier, EnCours
  <2>2. AgentSait(a)' /\ \A b \in Agents \ {a} : agents'[b] = agents[b]
    BY <1>0, <2>1, SuiteSait DEF AgentSait
  <2>3. Ligne(i) >= op[i].montant /\ operateur[i] = "SUCCESS"
    BY <1>0, <2>1 DEF AgentSait
  <2>4. /\ \A k \in Ids \ {i} : etat'[k] = etat[k]
        /\ etat'[i] \in {etat[i], "COMPLETED"}
    BY <1>0, <1>1, <2>1 DEF EtatValide
  <2>5. OpPaiement(i)' /\ Ligne(i)' >= Ligne(i)
    BY <1>1, <1>2, <2>1, <2>3, <2>4 DEF OpPaiement, Paiement, Seul, Ligne, PannesMontent
  <2>6. \A k \in Ids : \/ registre'[k] = registre[k] /\ etat'[k] = etat[k]
                       \/ Rangee(k) /\ OpPaiement(k)' /\ Ligne(k)' >= Ligne(k)
    BY <1>1, <2>1, <2>4, <2>5
  <2> QED BY <1>2, <2>1, <2>2, <2>6, JusteAgent
<1> QED BY <1>c, <1>d, <1>e, <1>f, <1>g, <1>h DEF EtapeAgent

(* A process begins or dies.                                                *)
LEMMA JusteAgentSeul ==
  ASSUME IInv, JInv, PannesMontent, NEW a \in Agents,
         (\E i \in Ids : RecevoirRappel(a, i)) \/ LireLot(a) \/ MourirAgent(a)
  PROVE  JInv'
<1>0. /\ a \in Procs /\ Argent /\ agents \in [Agents -> Agent] /\ AgentSait(a)
      /\ UNCHANGED <<op, registre, etat, operateur>>
  BY DEF Procs, IInv, Autour, JInv, RecevoirRappel, LireLot, MourirAgent, varsPortefeuille
<1>1. Argent'
  BY PasRecevoirRappel, PasLireLot, PasMourirAgent DEF IInv
<1>2. CASE MourirAgent(a)
  <2>1. /\ verrous'[a] = {} /\ \A p \in Procs \ {a} : verrous'[p] = verrous[p]
    BY <1>0, <1>2, LacherTout DEF MourirAgent
  <2>2. /\ agents'[a].etape \in {"libre", "fini"}
        /\ \A b \in Agents \ {a} : agents'[b] = agents[b]
    BY <1>0, <1>2 DEF MourirAgent, Repos
  <2>3. AgentSait(a)'
    BY <2>1, <2>2 DEF AgentSait
  <2> QED BY <1>0, <1>1, <2>1, <2>2, <2>3, JusteAgent
<1>3. CASE (\E i \in Ids : RecevoirRappel(a, i)) \/ LireLot(a)
  <2>1. /\ agents[a].etape = "libre" /\ UNCHANGED verrous
        /\ agents'[a].etape = "consulter"
        /\ \A b \in Agents \ {a} : agents'[b] = agents[b]
    <3>1. PICK S : /\ agents' = [agents EXCEPT ![a] = Suivante(S)]
                   /\ agents[a].etape = "libre" /\ UNCHANGED verrous
      BY <1>3 DEF RecevoirRappel, LireLot, varsPortefeuille
    <3>2. Suivante(S).etape = "consulter"
      BY DEF Suivante
    <3> QED BY <1>0, <3>1, <3>2
  <2>2. AgentSait(a)'
    BY <1>0, <2>1 DEF AgentSait
  <2> QED BY <1>0, <1>1, <2>1, <2>2, JusteAgent
<1> QED BY <1>2, <1>3

LEMMA JInvInit == Init => JInv
<1> SUFFICES ASSUME Init PROVE JInv
  OBVIOUS
<1> USE DEF Init, InitPortefeuille
<1>1. (CHOOSE c \in Comptes : TRUE) \in Comptes
  BY PortefeuilleConstantes
<1>2. \A i \in Ids : Juste(i)
  BY DEF Juste, OpTransfert, OpRetrait, OpPaiement, OpAutre, OpVerrous, Paiement, Procs
<1>3. \A a \in Agents : AgentSait(a)
  BY DEF AgentSait, Repos, Procs
<1>4. CleServieUneFois
  BY DEF CleServieUneFois
<1> QED BY <1>2, <1>3, <1>4 DEF JInv

LEMMA JInvNext == IInv /\ JInv /\ [Next]_vars => JInv'
<1> SUFFICES ASSUME IInv, JInv, [Next]_vars PROVE JInv'
  OBVIOUS
<1>0. PannesMontent
  BY PannesComptees
<1>1. ASSUME UNCHANGED <<op, registre, etat, operateur, verrous, pannes, agents>> PROVE JInv'
  BY <1>1 DEF JInv, Juste, OpTransfert, Vierge, Vire, OpRetrait, OpPaiement, OpAutre, OpVerrous,
              Seul, Ligne, Paiement, Premier, DansLOrdre, AgentSait, CleServieUneFois
<1>2. ASSUME NEW c \in Comptes, BasculerCompte(c), UNCHANGED varsRecharge PROVE JInv'
  BY <1>1, <1>2 DEF BasculerCompte, varsRecharge
<1>3. CASE UNCHANGED vars
  BY <1>1, <1>3 DEF vars, varsPortefeuille, varsRecharge
<1>4. CASE Exterieur
  BY <1>0, <1>2, <1>4, JusteDemande, JusteMourir, JusteInitier, JustePayer, JusteAgentSeul
  DEF Exterieur
<1> QED
  BY <1>0, <1>3, <1>4, JusteOpAvance, JusteEnregistrer, JusteEtapeAgent, JusteAgentSeul DEF Next

----------------------------------------------------------------------------
(* What the invariants say of the properties.                               *)

(* The sum of an operation that touches one wallet, and of a transfer.      *)
LEMMA SommeSeule ==
  ASSUME NEW i \in Ids, registre[i] \in [Comptes -> Int], op[i].compte \in Comptes, Seul(i)
  PROVE  Somme(i) = Ligne(i)
<1> DEFINE z == [d \in Comptes |-> 0]
           r == registre[i]
<1>1. \A d \in Comptes : z[d] = 0
  OBVIOUS
<1>2. r[op[i].compte] \in Int /\ \A d \in Comptes \ {op[i].compte} : r[d] = z[d]
  BY DEF Seul
<1> HIDE DEF z, r
<1>3. SumFunctionOnSet(z, Comptes) = 0
  BY <1>1, Finis, SommeNulle
<1>4. SumFunctionOnSet(r, Comptes)
        = SumFunctionOnSet(z, Comptes) - z[op[i].compte] + r[op[i].compte]
  BY <1>1, <1>2, Finis, SommeMiseAJour
<1> QED BY <1>1, <1>2, <1>3, <1>4 DEF Somme, Ligne, r

LEMMA SommeVire ==
  ASSUME NEW i \in Ids, registre[i] \in [Comptes -> Int], op[i].montant \in Nat,
         op[i].compte \in Comptes, op[i].vers \in Comptes, op[i].compte # op[i].vers,
         Vierge(i) \/ Vire(i)
  PROVE  Somme(i) = 0
<1> DEFINE r == registre[i]
           z == [d \in Comptes |-> 0]
           g == [z EXCEPT ![op[i].compte] = -op[i].montant]
<1>1. CASE Vierge(i)
  BY <1>1, Finis, SommeNulle DEF Vierge, Somme
<1>2. CASE Vire(i)
  <2>1. \A d \in Comptes : z[d] = 0
    OBVIOUS
  <2>2. /\ g[op[i].compte] = -op[i].montant /\ g[op[i].vers] = 0
        /\ \A d \in Comptes \ {op[i].compte} : g[d] = z[d]
        /\ \A d \in Comptes : g[d] \in Int
    OBVIOUS
  <2>3. /\ r[op[i].vers] = op[i].montant
        /\ \A d \in Comptes \ {op[i].vers} : r[d] = g[d]
    BY <1>2 DEF Vire
  <2> HIDE DEF r, z, g
  <2>4. SumFunctionOnSet(z, Comptes) = 0
    BY <2>1, Finis, SommeNulle
  <2>5. SumFunctionOnSet(g, Comptes)
          = SumFunctionOnSet(z, Comptes) - z[op[i].compte] + g[op[i].compte]
    BY <2>1, <2>2, Finis, SommeMiseAJour
  <2>6. SumFunctionOnSet(r, Comptes)
          = SumFunctionOnSet(g, Comptes) - g[op[i].vers] + r[op[i].vers]
    BY <2>2, <2>3, Finis, SommeMiseAJour
  <2>7. SumFunctionOnSet(g, Comptes) = -op[i].montant
    BY <2>1, <2>2, <2>4, <2>5
  <2> QED BY <2>2, <2>3, <2>6, <2>7 DEF Somme, r
<1> QED BY <1>1, <1>2

LEMMA TypesJustes ==
  ASSUME IInv, JInv, NEW i \in Ids
  PROVE  /\ registre[i] \in [Comptes -> Int] /\ op[i].montant \in Nat
         /\ op[i].compte \in Comptes /\ op[i].vers \in Comptes
         /\ Juste(i)
BY DEF IInv, JInv, Argent, Autour, Operation

LEMMA CleJuste == IInv /\ JInv => UnTransfertParCle
<1> SUFFICES ASSUME IInv, JInv, NEW i \in Ids, op[i].genre = "transfert"
             PROVE  /\ Somme(i) = 0
                    /\ \A k \in Ids \ {i} :
                         /\ op[k].genre = "transfert" /\ op[k].compte = op[i].compte
                         /\ op[k].cle = op[i].cle /\ op[i].cle # SansCle
                         => registre[i][op[i].compte] = 0 \/ registre[k][op[k].compte] = 0
  BY Zenon DEF UnTransfertParCle
<1>1. Somme(i) = 0
  BY TypesJustes, SommeVire DEF Juste, OpTransfert
<1> QED BY <1>1 DEF JInv, CleServieUneFois, Ligne

LEMMA RetraitJuste == IInv /\ JInv => RetraitRegle
<1> SUFFICES ASSUME IInv, JInv, NEW i \in Ids, op[i].genre = "retrait"
             PROVE  /\ etat[i] = "FAILED" => Somme(i) = 0
                    /\ etat[i] = "COMPLETED" =>
                         \/ Somme(i) = -op[i].montant /\ operateur[i] = "acceptee"
                         \/ op[i].etape = "echouer"
                         \/ pannes > 1
  BY Zenon DEF RetraitRegle
<1>1. Somme(i) = Ligne(i)
  BY TypesJustes, SommeSeule DEF Juste, OpRetrait
<1> QED BY <1>1, TypesJustes DEF Juste, OpRetrait

LEMMA PaiementJuste == IInv /\ JInv => PaiementJustifie
<1> SUFFICES ASSUME IInv, JInv, NEW i \in Ids, Paiement(i)
             PROVE  /\ Somme(i) > 0 => operateur[i] = "SUCCESS"
                    /\ etat[i] = "COMPLETED" => Somme(i) >= op[i].montant
                    /\ etat[i] = "FAILED" => operateur[i] = "FAILED" \/ pannes > 0
  BY Zenon DEF PaiementJustifie
<1>1. Somme(i) = Ligne(i)
  BY TypesJustes, SommeSeule DEF Juste, OpPaiement
<1>2. OpPaiement(i) /\ Ligne(i) \in Int
  BY TypesJustes DEF Juste, Ligne
<1> QED BY <1>1, <1>2 DEF OpPaiement

(* A finite set of numbers that is not empty has a greatest one.            *)
LEMMA PlusGrand ==
  ASSUME NEW S, IsFiniteSet(S), S # {}
  PROVE  S \subseteq Nat => \E x \in S : \A y \in S : y <= x
<1> DEFINE Apres(x) == {y \in S : y > x}
           B == {Apres(x) : x \in S}
<1>1. B \in SUBSET (SUBSET S) /\ B # {}
  OBVIOUS
<1>2. PICK T \in B : \A U \in B : ~(U \subseteq T /\ U # T)
  <2> HIDE DEF B
  <2> QED BY <1>1, MinimalSubset
<1>3. PICK x \in S : T = Apres(x)
  OBVIOUS
<1>4. ASSUME S \subseteq Nat, NEW y \in S, y > x PROVE FALSE
  <2>1. y \in Apres(x) /\ y \notin Apres(y)
    BY <1>4
  <2>2. Apres(y) \subseteq Apres(x)
    <3> SUFFICES ASSUME NEW z \in S, z > y PROVE z > x
      OBVIOUS
    <3>1. x \in Nat /\ y \in Nat /\ z \in Nat
      BY <1>4
    <3> QED BY <1>4, <3>1
  <2> QED BY <1>2, <1>3, <2>1, <2>2
<1> QED BY <1>4

(* Who holds the greatest wallet of those that are held waits for none of   *)
(* them: a transfer that holds one wallet asks for a greater one.           *)
LEMMA OrdreSansCycle == IInv /\ JInv => SansInterblocage
<1> DEFINE H == {c \in Comptes : \E p \in Procs : c \in verrous[p]}
<1> SUFFICES ASSUME IInv, JInv, NEW q \in Procs, verrous[q] # {}
             PROVE  \E p \in Procs : /\ verrous[p] # {}
                                     /\ \A c \in Attend(p) : CompteLibre(p, c)
  BY DEF SansInterblocage
<1>1. verrous \in [Procs -> SUBSET Comptes] /\ Comptes \subseteq Nat /\ Ids \cap Agents = {}
  BY PortefeuilleConstantes DEF IInv, Argent
<1>2. H \in SUBSET Nat /\ H # {} /\ IsFiniteSet(H)
  BY <1>1, Finis, FS_Subset
<1>3. PICK g \in H : \A c \in H : c <= g
  <2> HIDE DEF H
  <2> QED BY <1>2, PlusGrand
<1>4. PICK p \in Procs : g \in verrous[p]
  OBVIOUS
<1>5. ASSUME NEW c \in Attend(p) PROVE CompteLibre(p, c)
  <2>1. CASE p \in Agents
    <3>1. agents[p].etape = "crediter"
      BY <1>4, <2>1 DEF JInv, AgentSait
    <3> QED BY <1>5, <2>1, <3>1 DEF Attend
  <2>2. CASE p \in Ids /\ p \notin Agents
    <3>1. Juste(p) /\ OpTient(p) /\ op[p].compte \in Comptes /\ op[p].vers \in Comptes
      BY <2>2, TypesJustes DEF IInv
    <3>2. op[p].etape \in {"second", "virer", "debiter", "rembourser", "ecrire"}
      BY <1>4, <3>1 DEF Juste, OpVerrous
    <3>3. op[p].etape = "second" /\ c = Second(p)
      BY <1>5, <2>2, <3>2 DEF Attend
    <3>4. g = Premier(p) /\ op[p].compte # op[p].vers
      BY <1>4, <3>1, <3>3 DEF Juste, OpVerrous, OpTient
    <3>5. c \in Comptes /\ c > g
      BY <1>1, <3>1, <3>3, <3>4 DEF Premier, Second, DansLOrdre
    <3>6. c \notin H
      BY <1>1, <1>3, <3>5
    <3> QED BY <3>5, <3>6 DEF CompteLibre
  <2> QED BY <2>1, <2>2 DEF Procs
<1> QED BY <1>4, <1>5

(* A key moves money once and a transfer neither makes nor loses any, for   *)
(* any number of retries of any number of transfers.                        *)
THEOREM CleToujoursServieUneFois == Spec => []UnTransfertParCle
BY IInvInit, IInvNext, JInvInit, JInvNext, CleJuste, PTL DEF Spec

(* The row of a withdrawal tells what became of its money, whatever fails   *)
(* or dies between the debit, the operator and the refund.                  *)
THEOREM RetraitToujoursRegle == Spec => []RetraitRegle
BY IInvInit, IInvNext, JInvInit, JInvNext, RetraitJuste, PTL DEF Spec

(* No callback, cron or public payment credits a wallet for money the       *)
(* operator does not have, nor completes a payment that was not credited.   *)
THEOREM PaiementToujoursJustifie == Spec => []PaiementJustifie
BY IInvInit, IInvNext, JInvInit, JInvNext, PaiementJuste, PTL DEF Spec

(* Transfers, withdrawals and settlements never wait for one another in a   *)
(* circle, for any number of wallets.                                       *)
THEOREM JamaisInterblocage == Spec => []SansInterblocage
BY IInvInit, IInvNext, JInvInit, JInvNext, OrdreSansCycle, PTL DEF Spec

----------------------------------------------------------------------------
(* The abstract ledger, step by step.                                       *)

PasLivre == [Livre!NextLivre]_<<solde, Faits>>

(* A request whose transfer neither appears nor goes leaves those made.     *)
LEMMA MemesFaits ==
  ASSUME NEW i \in Ids,
         \A k \in Ids \ {i} : op'[k] = op[k] /\ registre'[k][op[k].compte] = registre[k][op[k].compte],
         \/ i \notin Virements /\ i \notin Virements'
         \/ /\ op'[i].genre = op[i].genre /\ op'[i].compte = op[i].compte
            /\ op'[i].cle = op[i].cle
            /\ registre'[i][op[i].compte] = registre[i][op[i].compte]
  PROVE  Faits' = Faits
<1>1. Virements' = Virements
  BY DEF Virements
<1>2. \A k \in Virements : op'[k].compte = op[k].compte /\ op'[k].cle = op[k].cle
  BY <1>1 DEF Virements
<1> QED BY <1>1, <1>2 DEF Faits

(* Money that comes into one wallet or out of it.                           *)
LEMMA LivreMouvement ==
  ASSUME IInv, Argent', NEW c \in Comptes, NEW m \in Int,
         solde' = [solde EXCEPT ![c] = solde[c] + m], Faits' = Faits
  PROVE  PasLivre
<1>1. /\ solde \in [Comptes -> Int] /\ solde[c] \in Int /\ solde'[c] = solde[c] + m
      /\ solde' = [solde EXCEPT ![c] = solde'[c]]
      /\ solde'[c] >= 0
  BY DEF IInv, Argent, SoldePositif
<1>2. CASE m = 0
  <2>1. solde' = solde
    BY <1>1, <1>2
  <2> QED BY <2>1 DEF PasLivre
<1>3. CASE m > 0
  <2>1. Livre!Entrer(c)
    BY <1>1, <1>3 DEF Livre!Entrer
  <2> QED BY <2>1, Zenon DEF PasLivre, Livre!NextLivre
<1>4. CASE m < 0
  <2>1. solde'[c] \in 0 .. solde[c] - 1
    BY <1>1, <1>4
  <2>2. Livre!Sortir(c)
    BY <1>1, <2>1, Zenon DEF Livre!Sortir
  <2> QED BY <2>2, Zenon DEF PasLivre, Livre!NextLivre
<1> QED BY <1>2, <1>3, <1>4

(* A transfer: both balances were read under the locks it still has, its    *)
(* order is new and the unique index lets its key pass.                     *)
LEMMA LivreVirer ==
  ASSUME IInv, JInv, IInv', NEW i \in Ids, Virer(i)
  PROVE  PasLivre
<1> DEFINE c == op[i].compte
           v == op[i].vers
           m == op[i].montant
<1>0. /\ i \in Procs /\ Juste(i) /\ OpTient(i) /\ op[i].etape = "virer"
      /\ c \in Comptes /\ v \in Comptes /\ m \in Nat /\ op[i].cle \in Cles \cup {SansCle}
      /\ solde \in [Comptes -> Int] /\ registre \in [Ids -> [Comptes -> Int]]
      /\ Etape(i, "fini")
  BY DEF Procs, IInv, JInv, Argent, Autour, Operation, Virer
<1>1. op[i].genre = "transfert"
  <2>1. op[i] \in Operation
    BY DEF IInv, Autour
  <2> QED BY <1>0, <2>1, EtapeEngagee
       DEF Juste, OpRetrait, OpAutre, Paiement, Operation, Plus, Moins
<1>2. /\ c # v /\ c \in verrous[i] /\ v \in verrous[i]
      /\ lus[i][c] >= m /\ m > 0 /\ registre[i][c] = 0
  BY <1>0, <1>1 DEF OpTient, Juste, OpTransfert, Couvert
<1>3. lus[i][c] = solde[c] /\ lus[i][v] = solde[v] /\ solde[c] \in Int
  BY <1>0, <1>2 DEF IInv, Argent, LusFrais
<1>4. /\ op'[i].genre = op[i].genre /\ op'[i].compte = c /\ op'[i].cle = op[i].cle
      /\ \A k \in Ids \ {i} : op'[k] = op[k]
  BY <1>0, EtapeType DEF IInv, Autour, Etapes
<1>5. CASE UNCHANGED <<solde, registre>>
  <2>1. Faits' = Faits
    BY <1>4, <1>5, MemesFaits
  <2> QED BY <1>5, <2>1 DEF PasLivre
<1>6. CASE ~DoublonDeCle(i)
  <2>1. /\ solde' = [solde EXCEPT ![c] = lus[i][c] - m, ![v] = lus[i][v] + m]
        /\ registre' = [registre EXCEPT ![i] = [registre[i] EXCEPT ![c] = -m, ![v] = m]]
    BY <1>6 DEF Virer
  <2>2. solde' = [solde EXCEPT ![c] = solde[c] - m, ![v] = solde[v] + m]
    BY <1>3, <2>1
  <2>3. m \in 1 .. solde[c]
    BY <1>0, <1>2, <1>3
  <2>4. /\ registre'[i][c] # 0 /\ \A k \in Ids \ {i} : registre'[k] = registre[k]
    <3>1. registre'[i] = [registre[i] EXCEPT ![c] = -m, ![v] = m]
      BY <1>0, <2>1
    <3>2. registre'[i][c] = -m
      BY <1>0, <1>2, <3>1
    <3> QED BY <1>0, <1>2, <2>1, <3>2
  <2> HIDE DEF c, v, m
  <2>5. Virements' = Virements \cup {i}
    BY <1>1, <1>4, <2>4 DEF Virements, c
  <2>6. i \notin Virements
    BY <1>2 DEF Virements, c
  <2>7. Faits' = Faits \cup {<<i, c, op[i].cle>>}
    <3>1. \A k \in Virements : op'[k] = op[k]
      BY <1>4, <2>6 DEF Virements
    <3> QED BY <1>4, <2>5, <3>1 DEF Faits
  <2>8. \A f \in Faits : f[1] # i /\ ~(f[2] = c /\ f[3] = op[i].cle /\ op[i].cle # SansCle)
    <3> SUFFICES ASSUME NEW k \in Virements
                 PROVE  k # i /\ ~(op[k].compte = c /\ op[k].cle = op[i].cle
                                    /\ op[i].cle # SansCle)
      BY DEF Faits
    <3> QED BY <1>6, <2>6 DEF DoublonDeCle, Virements, c
  <2>9. Livre!Transferer(i, c, v, op[i].cle)
    <3>1. c # v
      BY <1>2
    <3> QED BY <2>2, <2>3, <2>7, <2>8, <3>1, Zenon DEF Livre!Transferer
  <2>10. c \in Comptes /\ v \in Comptes
    BY <1>0
  <2> QED BY <1>0, <2>9, <2>10, Zenon DEF PasLivre, Livre!NextLivre
<1> QED BY <1>5, <1>6 DEF Virer

(* A step of a request.                                                     *)
LEMMA LivreOp ==
  ASSUME IInv, JInv, IInv', NEW i \in Ids, OpAvance(i)
  PROVE  PasLivre
<1>0. /\ i \in Procs /\ Argent' /\ solde \in [Comptes -> Int]
      /\ registre \in [Ids -> [Comptes -> Int]] /\ op[i] \in Operation
      /\ Juste(i) /\ OpTient(i)
  BY DEF Procs, IInv, JInv, Argent, Autour
<1>1. ASSUME NEW e \in Etapes, Etape(i, e), UNCHANGED <<solde, registre>>
      PROVE  PasLivre
  <2>1. /\ op'[i].genre = op[i].genre /\ op'[i].compte = op[i].compte /\ op'[i].cle = op[i].cle
        /\ \A k \in Ids \ {i} : op'[k] = op[k]
    BY <1>1, EtapeType DEF IInv, Autour
  <2>2. Faits' = Faits
    BY <1>1, <2>1, MemesFaits
  <2> QED BY <1>1, <2>2 DEF PasLivre
<1>2. ASSUME NEW e \in Etapes, Etape(i, e), NEW m \in Int,
             op[i].etape \in {"debiter", "rembourser", "ecrire"},
             Mouvement(i, i, op[i].compte, m)
      PROVE  PasLivre
  <2>1. /\ op'[i].genre = op[i].genre
        /\ \A k \in Ids \ {i} : op'[k] = op[k]
    BY <1>2, EtapeType DEF IInv, Autour
  <2>2. op[i].genre # "transfert"
    BY <1>0, <1>2 DEF Juste, OpTransfert
  <2>3. op[i].compte \in Comptes /\ op[i].compte \in verrous[i]
    BY <1>0, <1>2 DEF Operation, OpTient
  <2>4. lus[i][op[i].compte] = solde[op[i].compte]
    BY <1>0, <2>3 DEF IInv, Argent, LusFrais
  <2>5. /\ solde' = [solde EXCEPT ![op[i].compte] = lus[i][op[i].compte] + m]
        /\ registre' = [registre EXCEPT ![i] =
                          [registre[i] EXCEPT ![op[i].compte] = registre[i][op[i].compte] + m]]
    BY <1>2, Zenon DEF Mouvement
  <2>6. \A k \in Ids \ {i} : registre'[k] = registre[k]
    BY <1>0, <2>5
  <2>7. Faits' = Faits
    BY <2>1, <2>2, <2>6, MemesFaits DEF Virements
  <2>8. solde' = [solde EXCEPT ![op[i].compte] = solde[op[i].compte] + m]
    BY <2>4, <2>5
  <2> QED BY <1>0, <1>2, <2>3, <2>7, <2>8, LivreMouvement
<1>3. op[i].montant \in Int /\ -op[i].montant \in Int
  BY <1>0 DEF Operation
<1>4. CASE Virer(i)
  BY <1>4, LivreVirer
<1>5. CASE Debiter(i)
  BY <1>2, <1>3, <1>5 DEF Debiter, Etapes
<1>6. CASE Rembourser(i)
  BY <1>2, <1>3, <1>6 DEF Rembourser, Etapes
<1>7. CASE EcrireAdmin(i)
  <2> DEFINE m == IF op[i].genre = "admin_credit" THEN op[i].montant
                  ELSE IF op[i].genre = "admin_debit" THEN -op[i].montant
                  ELSE -lus[i][op[i].compte]
  <2>1. op[i].etape = "ecrire" /\ Mouvement(i, i, op[i].compte, m) /\ Etape(i, "fini")
    BY <1>7, Zenon DEF EcrireAdmin
  <2>2. lus[i][op[i].compte] \in Int
    BY <1>0, <2>1 DEF IInv, Argent, Operation
  <2>3. m \in Int
    BY <1>3, <2>2
  <2> HIDE DEF m
  <2> QED BY <1>2, <2>1, <2>3 DEF Etapes
<1>8. CASE VerrouillerPremier(i)
  BY <1>1, <1>8 DEF VerrouillerPremier, Etapes
<1>9. CASE VerrouillerSecond(i)
  BY <1>1, <1>9 DEF VerrouillerSecond, Etapes
<1>10. CASE InsererRetrait(i)
  BY <1>1, <1>10 DEF InsererRetrait, Etapes
<1>11. CASE VerrouillerDebit(i)
  BY <1>1, <1>11 DEF VerrouillerDebit, Etapes
<1>12. CASE Envoyer(i)
  BY <1>1, <1>12 DEF Envoyer, Etapes
<1>13. CASE Confirmer(i)
  BY <1>1, <1>13 DEF Confirmer, Etapes
<1>14. CASE VerrouillerRetour(i)
  BY <1>1, <1>14 DEF VerrouillerRetour, Etapes
<1>15. CASE MarquerEchec(i)
  BY <1>1, <1>15 DEF MarquerEchec, Etapes
<1>16. CASE VerrouillerAdmin(i)
  BY <1>1, <1>16 DEF VerrouillerAdmin, Etapes
<1> QED
  BY <1>4, <1>5, <1>6, <1>7, <1>8, <1>9, <1>10, <1>11, <1>12, <1>13, <1>14, <1>15, <1>16
  DEF OpAvance, EtapeOp

(* A request that arrives has moved nothing yet.                            *)
LEMMA LivreNouvelle ==
  ASSUME IInv, NEW i \in Ids, UNCHANGED <<solde, registre>>,
         NEW genre \in {"aucun", "transfert", "admin_zero"} \cup Plus \cup Moins,
         NEW c \in Comptes, NEW v \in Comptes, NEW m \in Montants, NEW k \in Cles \cup {SansCle},
         NEW e \in Etapes, Nouvelle(i, genre, c, v, m, k, e)
  PROVE  PasLivre
<1>1. /\ op[i].genre = "aucun" /\ op'[i].compte \in Comptes
      /\ \A j \in Ids \ {i} : op'[j] = op[j]
  <2>1. op \in [Ids -> Operation]
    BY DEF IInv, Autour
  <2>2. /\ op'[i] = [genre |-> genre, compte |-> c, vers |-> v, montant |-> m,
                     cle |-> k, etape |-> e]
        /\ op[i].genre = "aucun" /\ \A j \in Ids \ {i} : op'[j] = op[j]
    BY <2>1, NouvelleType
  <2> QED BY <2>2
<1>2. \A d \in Comptes : registre[i][d] = 0
  BY <1>1 DEF IInv, OpTient
<1>3. Faits' = Faits
  BY <1>1, <1>2, MemesFaits DEF Virements
<1> QED BY <1>3 DEF PasLivre

LEMMA LivreDemande ==
  ASSUME IInv, NEW i \in Ids, Demande(i) \/ Initier(i)
  PROVE  PasLivre
<1>0. SansCle \in Cles \cup {SansCle}
  OBVIOUS
<1>1. CASE RecevoirTransfert(i)
  <2>1. PICK c \in Comptes, v \in Comptes, m \in Montants, k \in Cles \cup {SansCle} :
          c # v /\ Nouvelle(i, "transfert", c, v, m, k, "premier")
    BY <1>1 DEF RecevoirTransfert
  <2> QED BY <1>1, <2>1, LivreNouvelle DEF RecevoirTransfert, Etapes
<1>2. CASE RecevoirRetrait(i)
  <2>1. PICK c \in Comptes, m \in Montants :
          Nouvelle(i, "retrait", c, c, m, SansCle, "ligne")
    BY <1>2 DEF RecevoirRetrait
  <2> QED BY <1>0, <1>2, <2>1, LivreNouvelle DEF RecevoirRetrait, Etapes, Moins
<1>3. CASE RecevoirAdmin(i)
  <2>1. PICK genre \in {"admin_credit", "admin_debit", "admin_zero"},
             c \in Comptes, m \in Montants :
          Nouvelle(i, genre, c, c, m, SansCle, "admin")
    BY <1>3 DEF RecevoirAdmin
  <2> QED BY <1>0, <1>3, <2>1, LivreNouvelle DEF RecevoirAdmin, Etapes, Plus, Moins
<1>4. CASE Initier(i)
  <2>1. PICK genre \in {"marchand", "recharge"}, c \in Comptes, m \in Montants :
          Nouvelle(i, genre, c, c, m, SansCle, "ligne")
    BY <1>4 DEF Initier
  <2> QED BY <1>0, <1>4, <2>1, LivreNouvelle DEF Initier, Etapes, Plus
<1> QED BY <1>1, <1>2, <1>3, <1>4 DEF Demande

(* A settlement credits the wallet of a payment, or touches no balance.     *)
LEMMA LivreAgent ==
  ASSUME IInv, IInv', NEW a \in Agents, EtapeAgent(a)
  PROVE  PasLivre
<1>1. ASSUME UNCHANGED <<op, solde, registre>> PROVE PasLivre
  BY <1>1 DEF PasLivre, Faits, Virements
<1>2. CASE Crediter(a)
  <2>0. /\ agents[a].etape = "crediter" /\ agents[a].etape \in EnCours
        /\ Mouvement(a, agents[a].ligne, op[agents[a].ligne].compte, op[agents[a].ligne].montant)
        /\ UNCHANGED op
    BY <1>2 DEF Crediter, EnCours
  <2>1. PICK i \in Ids : i = agents[a].ligne /\ Rangee(i)
    BY <2>0 DEF IInv, AgentTient
  <2>2. /\ op[i].compte \in Comptes /\ op[i].montant \in Int /\ a \in Procs
        /\ op[i].compte \in verrous[a] /\ op[i].genre # "transfert" /\ Argent'
        /\ solde \in [Comptes -> Int] /\ registre \in [Ids -> [Comptes -> Int]]
    BY <2>0, <2>1 DEF IInv, AgentTient, Autour, Argent, Operation, Procs, Rangee, Paiement
  <2>3. lus[a][op[i].compte] = solde[op[i].compte]
    BY <2>2 DEF IInv, Argent, LusFrais
  <2>4. /\ solde' = [solde EXCEPT ![op[i].compte] = lus[a][op[i].compte] + op[i].montant]
        /\ registre' = [registre EXCEPT ![i] = [registre[i] EXCEPT
                          ![op[i].compte] = registre[i][op[i].compte] + op[i].montant]]
    BY <2>0, <2>1, Zenon DEF Mouvement
  <2>5. \A k \in Ids \ {i} : registre'[k] = registre[k]
    BY <2>2, <2>4
  <2>6. Faits' = Faits
    BY <2>0, <2>2, <2>5, MemesFaits DEF Virements
  <2>7. solde' = [solde EXCEPT ![op[i].compte] = solde[op[i].compte] + op[i].montant]
    BY <2>3, <2>4
  <2> QED BY <2>2, <2>6, <2>7, LivreMouvement
<1> QED
  BY <1>1, <1>2 DEF EtapeAgent, Consulter, MarquerFailed, Marquer, VerrouillerCompte, Notifier,
     varsPortefeuille

LEMMA LivrePas ==
  ASSUME IInv, JInv, IInv', [Next]_vars
  PROVE  PasLivre
<1>1. ASSUME UNCHANGED <<op, solde, registre>> PROVE PasLivre
  BY <1>1 DEF PasLivre, Faits, Virements
<1>2. ASSUME NEW i \in Ids, NEW e \in Etapes, Etape(i, e), UNCHANGED <<solde, registre>>
      PROVE  PasLivre
  <2>1. /\ op'[i].genre = op[i].genre /\ op'[i].compte = op[i].compte /\ op'[i].cle = op[i].cle
        /\ \A k \in Ids \ {i} : op'[k] = op[k]
    BY <1>2, EtapeType DEF IInv, Autour
  <2>2. Faits' = Faits
    BY <1>2, <2>1, MemesFaits
  <2> QED BY <1>2, <2>2 DEF PasLivre
<1>3. ASSUME NEW i \in Ids, Enregistrer(i) \/ Mourir(i) PROVE PasLivre
  <2>1. Etape(i, "fini") /\ "fini" \in Etapes /\ UNCHANGED <<solde, registre>>
    BY <1>3 DEF Enregistrer, Mourir, Etapes
  <2> QED BY <1>2, <2>1
<1>4. ASSUME NEW i \in Ids, Payer(i) PROVE PasLivre
  BY <1>1, <1>4 DEF Payer
<1>5. ASSUME NEW c \in Comptes, BasculerCompte(c) PROVE PasLivre
  BY <1>1, <1>5 DEF BasculerCompte
<1>6. ASSUME NEW a \in Agents, LireLot(a) \/ MourirAgent(a) PROVE PasLivre
  BY <1>1, <1>6 DEF LireLot, MourirAgent, varsPortefeuille
<1>7. ASSUME NEW i \in Ids, NEW a \in Agents, RecevoirRappel(a, i) PROVE PasLivre
  BY <1>1, <1>7 DEF RecevoirRappel, varsPortefeuille
<1>8. CASE Exterieur
  BY <1>3, <1>4, <1>5, <1>6, <1>7, <1>8, LivreDemande DEF Exterieur
<1>9. CASE UNCHANGED vars
  BY <1>1, <1>9 DEF vars, varsPortefeuille
<1> QED BY <1>3, <1>6, <1>8, <1>9, LivreOp, LivreAgent DEF Next

LEMMA LivreInit == Init => Livre!InitLivre
<1> SUFFICES ASSUME Init PROVE Livre!InitLivre
  OBVIOUS
<1>1. Virements = {}
  BY DEF Init, InitPortefeuille, Virements
<1>2. Faits = {}
  BY <1>1 DEF Faits
<1> QED BY <1>2 DEF Init, InitPortefeuille, Livre!InitLivre

(* The locks, the unique index and the order of the steps implement the     *)
(* ledger the owners see: every movement at once, of no more than there is, *)
(* and one per key, for any number of processes that fail or die anywhere.  *)
THEOREM LivreToujoursTenu == Spec => LivreTenu
<1>1. IInv /\ JInv /\ IInv' /\ [Next]_vars => [Livre!NextLivre]_<<solde, Faits>>
  BY LivrePas DEF PasLivre
<1> QED
  BY <1>1, LivreInit, IInvInit, IInvNext, JInvInit, JInvNext, PTL
  DEF Spec, LivreTenu, Livre!SpecLivre, Livre!varsLivre
=============================================================================

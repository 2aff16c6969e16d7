----------------------------- MODULE FileProofs -----------------------------
(***************************************************************************)
(* For any number of operations, accounts and overlapping replay loops: the *)
(* queue of the till keeps the promise of module Promesse, money is never   *)
(* given up, and the order of the queue is kept.                            *)
(*                                                                          *)
(* None of these is inductive.  A loop acts on an answer to a request that  *)
(* left earlier, for an operation other loops may have taken meanwhile: the *)
(* invariant says what a request carries and what its answer is worth       *)
(* (Courriers), that the server did at least once what it knows the key of  *)
(* (Unicite), and what the snapshot of a loop stands for in the queue of    *)
(* now (BoucleTient, BoucleOrdonnee).                                       *)
(***************************************************************************)
EXTENDS FileHorsLigne, TLAPS

Vole(a) == appels[a].reponse # "rien"

Fait(o) == \E c \in Comptes : effets[<<o, c>>] = 1

(* An operation the telephone has taken: it keeps its account and its date. *)
Prise(o) == place[o] \notin {"neuve", "directe"}

(* A request is for an operation that was entered, under its own key.       *)
Sincere(q) == q.cle = q.op /\ place[q.op] # "neuve"

(* ... and the answers say what the server did.                             *)
Courrier(a) ==
  Vole(a) => /\ Sincere(appels[a].requete)
             /\ Repondu(a, "ok") => Fait(appels[a].requete.op)
             /\ Repondu(a, "refus") => appels[a].requete.op \in refusees

Courriers == /\ \A a \in Appelants : Courrier(a)
             /\ \A q \in errantes : Sincere(q)

(* A key is known when its operation was done, once in an account.          *)
Unicite ==
  \A o \in Ops, c \in Comptes :
    /\ effets[<<o, c>>] \in {0, 1}
    /\ effets[<<o, c>>] = 1 => <<o, c>> \in cles
    /\ <<o, c>> \in cles => Fait(o)

(* A first send and a loop wait for the answer about their own operation.   *)
EnvoiTient(o) == Vole(o) => appels[o].requete.op = o

BoucleTient(b) ==
  /\ boucles[b].pas = "attente" => boucles[b].op \in Ops
  /\ boucles[b].pas = "plafond" => boucles[b].op \in Ops \ Argent
  /\ Vole(b) => boucles[b].pas = "attente" /\ appels[b].requete.op = boucles[b].op

Attentes == /\ \A o \in Ops : EnvoiTient(o)
            /\ \A b \in Boucles : BoucleTient(b)

(* What a loop still has in hand.                                           *)
Reprise(b) ==
  boucles[b].reste \cup (IF boucles[b].pas \in {"attente", "plafond"} THEN {boucles[b].op} ELSE {})

(* It was in the queue at the snapshot; what its owner has in the queue now *)
(* is in hand or was entered later.                                         *)
BoucleOrdonnee(b) ==
  /\ \A p \in Reprise(b) : Prise(p) /\ proprio[p] = boucles[b].uid
  /\ boucles[b].pas # "repos" =>
       \A o \in Ops : EnFile(o) /\ proprio[o] = boucles[b].uid =>
         o \in Reprise(b) \/ \A p \in Reprise(b) : ts[p] <= ts[o]
  /\ boucles[b].pas \in {"attente", "plafond"} =>
       \A p \in boucles[b].reste : ts[boucles[b].op] <= ts[p]

Ordres == /\ \A o \in Ops : ts[o] <= horloge
          /\ \A b \in Boucles : BoucleOrdonnee(b)

IFile == TypeOK /\ Courriers /\ Unicite /\ Attentes /\ ArgentJamaisAbandonne /\ Ordres

----------------------------------------------------------------------------
(* Types.                                                                   *)
LEMMA TypesInit == Init => TypeOK
<1> SUFFICES ASSUME Init PROVE TypeOK
  OBVIOUS
<1>1. Arret \in Boucle
  BY DEF Arret, Boucle
<1> QED
  BY <1>1, FileConstantes DEF Init, TypeOK, Places, Requete

LEMMA EmettreType ==
  ASSUME TypeOK, NEW a \in Appelants, NEW o \in Ops, Emettre(a, o, o)
  PROVE  appels' \in [Appelants -> Appel \cup {Rien}]
<1>1. [op |-> o, cle |-> o, compte |-> session] \in Requete
  BY DEF TypeOK, Requete
<1>2. [requete |-> [op |-> o, cle |-> o, compte |-> session], reponse |-> "attente"] \in Appel
  BY <1>1 DEF Appel, Reponses
<1> QED
  BY <1>2, Zenon DEF TypeOK, Emettre

LEMMA RepondreType ==
  ASSUME TypeOK, NEW a \in Appelants, Vole(a), NEW r \in Reponses, Repondre(a, r)
  PROVE  appels' \in [Appelants -> Appel \cup {Rien}]
<1>1. appels[a] \in Appel
  BY DEF TypeOK, Vole, Rien
<1>2. [appels[a] EXCEPT !.reponse = r] \in Appel
  BY <1>1 DEF Appel
<1>3. appels' = [appels EXCEPT ![a] = [appels[a] EXCEPT !.reponse = r]]
  BY DEF Repondre
<1> QED
  BY <1>2, <1>3, Zenon DEF TypeOK

LEMMA RequeteType ==
  ASSUME TypeOK, NEW a \in Appelants, Vole(a)
  PROVE  appels[a].requete \in Requete /\ appels[a].reponse \in Reponses
BY DEF TypeOK, Vole, Rien, Appel

LEMMA ExecuterType ==
  ASSUME TypeOK, NEW q \in Requete, Sincere(q), Executer(q)
  PROVE  /\ effets' \in [Ops \X Comptes -> Nat]
         /\ cles' \subseteq Ops \X Comptes
         /\ refusees' \subseteq Ops
<1>1. q.op \in Ops /\ q.cle \in Ops /\ q.compte \in Comptes
  BY DEF Requete, Executer
<1>2. cles' \subseteq Ops \X Comptes /\ refusees' \subseteq Ops
  BY <1>1 DEF TypeOK, Executer
<1>3. <<q.op, q.compte>> \in Ops \X Comptes
  BY <1>1
<1>4. effets' \in [Ops \X Comptes -> Nat]
  <2>1. CASE DejaVue(q)
    BY <2>1 DEF TypeOK, Executer
  <2>2. CASE ~DejaVue(q)
    <3>1. effets' = [effets EXCEPT ![<<q.op, q.compte>>] = effets[<<q.op, q.compte>>] + 1]
      BY <2>2 DEF Executer
    <3>2. effets[<<q.op, q.compte>>] + 1 \in Nat
      BY <1>3 DEF TypeOK
    <3> QED
      BY <3>1, <3>2, <1>3 DEF TypeOK
  <2> QED
    BY <2>1, <2>2
<1> QED
  BY <1>2, <1>4

(* The record a loop becomes has its type.                                  *)
LEMMA AvancerType ==
  ASSUME TypeOK, NEW b \in Boucles, Avancer(b)
  PROVE  boucles' \in [Boucles -> Boucle]
<1>1. boucles[b] \in Boucle
  BY DEF TypeOK
<1>2. Arret \in Boucle
  BY DEF Arret, Boucle
<1>3. [pas |-> "envoi", uid |-> boucles[b].uid, op |-> "aucune", reste |-> boucles[b].reste]
        \in Boucle
  BY <1>1 DEF Boucle
<1> QED
  BY <1>2, <1>3, Zenon DEF TypeOK, Avancer

LEMMA RaccrocherType ==
  ASSUME TypeOK, NEW a \in Appelants, Raccrocher(a)
  PROVE  appels' \in [Appelants -> Appel \cup {Rien}]
BY DEF TypeOK, Raccrocher

LEMMA SortirType ==
  ASSUME TypeOK, NEW o \in Ops, NEW p \in Places, Sortir(o, p)
  PROVE  place' \in [Ops -> Places]
BY DEF TypeOK, Sortir, Poser

(* The steps that touch neither a request nor a loop.                       *)
LEMMA TypesSaisie ==
  ASSUME TypeOK, NEW o \in Ops,
         SaisirHorsLigne(o) \/ SaisirEnLigne(o) \/ FinirEnvoi(o) \/ Purger(o)
  PROVE  TypeOK'
<1> USE DEF Places
<1>a. o \in Appelants
  BY DEF Appelants
<1>1. CASE SaisirHorsLigne(o)
  BY <1>1 DEF TypeOK, SaisirHorsLigne, Enfiler, Poser, serveur, compteurs
<1>2. CASE SaisirEnLigne(o)
  <2>1. appels' \in [Appelants -> Appel \cup {Rien}]
    BY <1>2, <1>a, EmettreType DEF SaisirEnLigne
  <2> QED
    BY <1>2, <2>1 DEF TypeOK, SaisirEnLigne, Poser, serveur, compteurs
<1>3. CASE FinirEnvoi(o)
  <2>1. appels' \in [Appelants -> Appel \cup {Rien}]
    BY <1>3, <1>a, RaccrocherType DEF FinirEnvoi
  <2>2. /\ place' \in [Ops -> Places] /\ proprio' \in [Ops -> Comptes \cup {Personne}]
        /\ ts' \in [Ops -> Nat] /\ horloge' \in Nat
    BY <1>3 DEF TypeOK, FinirEnvoi, Enfiler, Poser
  <2> QED
    BY <1>3, <2>1, <2>2 DEF TypeOK, FinirEnvoi, serveur, compteurs
<1>4. CASE Purger(o)
  BY <1>4 DEF TypeOK, Purger, Poser, serveur, compteurs
<1> QED
  BY <1>1, <1>2, <1>3, <1>4

(* The steps of the network and of the server.                              *)
LEMMA TypesReseau ==
  ASSUME TypeOK, Courriers, NEW a \in Appelants,
         Traiter(a) \/ Refuser(a) \/ Perdre(a) \/ Rafraichir(a) \/ Expirer(a)
  PROVE  TypeOK'
<1>v. Vole(a)
  BY DEF Vole, Traiter, Refuser, Perdre, Rafraichir, Expirer, Repondu
<1>q. appels[a].requete \in Requete
  BY <1>v, RequeteType
<1>r. Sincere(appels[a].requete)
  BY <1>v DEF Courriers, Courrier
<1>1. CASE Traiter(a)
  <2>1. appels' \in [Appelants -> Appel \cup {Rien}]
    BY <1>1, <1>v, RepondreType DEF Traiter, Reponses
  <2>2. effets' \in [Ops \X Comptes -> Nat] /\ cles' \subseteq Ops \X Comptes /\ refusees' \subseteq Ops
    BY <1>1, <1>q, <1>r, ExecuterType DEF Traiter
  <2> QED
    BY <1>1, <2>1, <2>2 DEF TypeOK, Traiter, client, compteurs
<1>2. CASE Refuser(a)
  <2>1. appels' \in [Appelants -> Appel \cup {Rien}]
    BY <1>2, <1>v, RepondreType DEF Refuser, Reponses
  <2>2. refusees' \subseteq Ops
    BY <1>2, <1>q DEF TypeOK, Refuser, Requete
  <2> QED
    BY <1>2, <2>1, <2>2 DEF TypeOK, Refuser, client, compteurs
<1>3. CASE Perdre(a)
  <2>1. appels' \in [Appelants -> Appel \cup {Rien}]
    BY <1>3, <1>v, RepondreType DEF Perdre, Reponses
  <2>2. errantes' \subseteq Requete
    BY <1>3, <1>q DEF TypeOK, Perdre, EnRoute
  <2> QED
    BY <1>3, <2>1, <2>2 DEF TypeOK, Perdre, Incident, client, serveur
<1>4. CASE Rafraichir(a)
  <2>0. appels[a] \in Appel
    BY <1>v DEF TypeOK, Vole, Rien
  <2>1. [appels[a] EXCEPT !.requete = [appels[a].requete EXCEPT !.compte = session]] \in Appel
    BY <2>0 DEF TypeOK, Appel, Requete
  <2>2. appels' = [appels EXCEPT ![a] =
          [appels[a] EXCEPT !.requete = [appels[a].requete EXCEPT !.compte = session]]]
    BY <1>4 DEF Rafraichir
  <2>3. appels' \in [Appelants -> Appel \cup {Rien}]
    BY <2>1, <2>2, Zenon DEF TypeOK
  <2> QED
    BY <1>4, <2>3 DEF TypeOK, Rafraichir, Incident, client, serveur
<1>5. CASE Expirer(a)
  <2>1. appels' \in [Appelants -> Appel \cup {Rien}]
    BY <1>5, <1>v, RepondreType DEF Expirer, Reponses
  <2> QED
    BY <1>5, <2>1 DEF TypeOK, Expirer, Incident, client, serveur
<1> QED
  BY <1>1, <1>2, <1>3, <1>4, <1>5

(* The steps of a replay loop.                                              *)
LEMMA TypesBoucle ==
  ASSUME TypeOK, Attentes, NEW b \in Boucles, Tour(b)
  PROVE  TypeOK'
<1> USE DEF Places
<1>a. b \in Appelants
  BY DEF Appelants
<1>b. boucles[b] \in Boucle
  BY DEF TypeOK
<1>1. CASE Lancer(b)
  <2>1. [pas |-> "envoi", uid |-> session, op |-> "aucune", reste |-> Siennes(session)] \in Boucle
    BY DEF TypeOK, Boucle, Siennes
  <2>2. boucles' \in [Boucles -> Boucle]
    BY <1>1, <2>1, Zenon DEF TypeOK, Lancer
  <2> QED
    BY <1>1, <2>2 DEF TypeOK, Lancer, serveur, compteurs
<1>2. CASE Poster(b)
  <2>1. PICK o \in boucles[b].reste :
          /\ Emettre(b, o, CleDeRejeu(o))
          /\ boucles' = [boucles EXCEPT ![b] =
               [pas |-> "attente", uid |-> @.uid, op |-> o, reste |-> @.reste \ {o}]]
    BY <1>2 DEF Poster
  <2>2. o \in Ops
    BY <1>b DEF Boucle
  <2>3. [pas |-> "attente", uid |-> boucles[b].uid, op |-> o, reste |-> boucles[b].reste \ {o}]
          \in Boucle
    BY <1>b, <2>2 DEF Boucle
  <2>4. boucles' \in [Boucles -> Boucle]
    BY <2>1, <2>3, Zenon DEF TypeOK
  <2>5. appels' \in [Appelants -> Appel \cup {Rien}]
    BY <2>1, <2>2, <1>a, EmettreType DEF CleDeRejeu
  <2> QED
    BY <1>2, <2>4, <2>5 DEF TypeOK, Poster, serveur, compteurs
<1>3. CASE Retirer(b)
  <2>1. Courante(b) \in Ops
    BY <1>3 DEF Attentes, BoucleTient, Retirer, Courante
  <2>2. place' \in [Ops -> Places]
    BY <1>3, <2>1, SortirType DEF Retirer
  <2>3. boucles' \in [Boucles -> Boucle] /\ appels' \in [Appelants -> Appel \cup {Rien}]
    BY <1>3, <1>a, AvancerType, RaccrocherType DEF Retirer
  <2> QED
    BY <1>3, <2>2, <2>3 DEF TypeOK, Retirer, serveur, compteurs
<1>4. CASE Enterrer(b)
  <2>1. Courante(b) \in Ops
    BY <1>4 DEF Attentes, BoucleTient, Enterrer, Courante
  <2>2. place' \in [Ops -> Places]
    BY <1>4, <2>1, SortirType DEF Enterrer
  <2>3. boucles' \in [Boucles -> Boucle] /\ appels' \in [Appelants -> Appel \cup {Rien}]
    BY <1>4, <1>a, AvancerType, RaccrocherType DEF Enterrer
  <2> QED
    BY <1>4, <2>2, <2>3 DEF TypeOK, Enterrer, serveur, compteurs
<1>5. CASE CompterEchec(b)
  <2>1. [boucles[b] EXCEPT !.pas = "plafond"] \in Boucle /\ Arret \in Boucle
    BY <1>b DEF Boucle, Arret
  <2>2. boucles' \in [Boucles -> Boucle]
    BY <1>5, <2>1, Zenon DEF TypeOK, CompterEchec
  <2>3. appels' \in [Appelants -> Appel \cup {Rien}]
    BY <1>5, <1>a, RaccrocherType DEF CompterEchec
  <2>4. essais' \in [Ops -> Nat]
    <3> DEFINE n == IF EnFile(Courante(b)) THEN essais[Courante(b)] + 1
                    ELSE essais[Courante(b)]
    <3>1. Courante(b) \in Ops
      BY <1>5 DEF Attentes, BoucleTient, CompterEchec, Courante
    <3>2. n \in Nat
      BY <3>1 DEF TypeOK
    <3>3. essais' = [essais EXCEPT ![Courante(b)] = n]
      BY <1>5 DEF CompterEchec
    <3> QED
      BY <3>2, <3>3 DEF TypeOK
  <2> QED
    BY <1>5, <2>2, <2>3, <2>4 DEF TypeOK, CompterEchec, serveur, compteurs
<1> QED
  BY <1>1, <1>2, <1>3, <1>4, <1>5 DEF Tour

LEMMA TypesErrante ==
  ASSUME TypeOK, Courriers, NEW q \in errantes, TraiterErrante(q)
  PROVE  TypeOK'
<1>1. q \in Requete /\ Sincere(q)
  BY DEF TypeOK, Courriers
<1>2. effets' \in [Ops \X Comptes -> Nat] /\ cles' \subseteq Ops \X Comptes /\ refusees' \subseteq Ops
  BY <1>1, ExecuterType DEF TraiterErrante
<1> QED
  BY <1>2 DEF TypeOK, TraiterErrante, client, compteurs

LEMMA TypesFermer ==
  ASSUME TypeOK, Fermer
  PROVE  TypeOK'
<1>1. Arret \in Boucle
  BY DEF Arret, Boucle
<1>2. boucles' \in [Boucles -> Boucle] /\ appels' \in [Appelants -> Appel \cup {Rien}]
  BY <1>1 DEF Fermer
<1>3. place' \in [Ops -> Places]
  BY DEF TypeOK, Fermer, Places
<1>4. errantes' \subseteq Requete
  <2>1. ASSUME NEW a \in Appelants
        PROVE  EnRoute(a) \subseteq Requete
    BY RequeteType DEF EnRoute, Repondu, Vole
  <2> QED
    BY <2>1 DEF TypeOK, Fermer
<1> QED
  BY <1>2, <1>3, <1>4 DEF TypeOK, Fermer, Incident, serveur

LEMMA TypesPas ==
  ASSUME IFile, [Next]_vars
  PROVE  TypeOK'
<1>i. TypeOK /\ Courriers /\ Attentes
  BY DEF IFile
<1>1. CASE \E c \in Comptes : Connexion(c)
  BY <1>i, <1>1 DEF TypeOK, Connexion, client, serveur
<1>2. CASE Deconnexion
  BY <1>i, <1>2 DEF TypeOK, Deconnexion, client, serveur, compteurs
<1>3. CASE \E o \in Ops : \/ SaisirHorsLigne(o) \/ SaisirEnLigne(o)
                          \/ FinirEnvoi(o) \/ Purger(o)
  BY <1>i, <1>3, TypesSaisie
<1>4. CASE \E a \in Appelants : \/ Traiter(a) \/ Refuser(a) \/ Perdre(a)
                                \/ Rafraichir(a) \/ Expirer(a)
  BY <1>i, <1>4, TypesReseau
<1>5. CASE \E q \in errantes : TraiterErrante(q)
  BY <1>i, <1>5, TypesErrante
<1>6. CASE \E b \in Boucles : Tour(b)
  BY <1>i, <1>6, TypesBoucle
<1>7. CASE Fermer
  BY <1>i, <1>7, TypesFermer
<1>8. CASE UNCHANGED vars
  BY <1>i, <1>8 DEF TypeOK, vars, client, serveur, compteurs
<1> QED
  BY <1>1, <1>2, <1>3, <1>4, <1>5, <1>6, <1>7, <1>8 DEF Next, Tour

----------------------------------------------------------------------------
(* The server.                                                              *)

(* What the other steps rely on: nothing taken, done or refused is undone.  *)
Progres ==
  /\ \A o \in Ops : place[o] # "neuve" => place'[o] # "neuve"
  /\ \A o \in Ops : Fait(o) => Fait(o)'
  /\ refusees \subseteq refusees'

LEMMA ExecuterUnicite ==
  ASSUME TypeOK, Unicite, NEW q \in Requete, Sincere(q), Executer(q)
  PROVE  /\ Unicite'
         /\ \A o \in Ops : Fait(o) => Fait(o)'
         /\ Fait(q.op)'
         /\ \/ UNCHANGED effets
            \/ /\ effets[<<q.op, q.compte>>] = 0
               /\ effets' = [effets EXCEPT ![<<q.op, q.compte>>] = 1]
<1>1. q.op \in Ops /\ q.compte \in Comptes /\ q.cle = q.op
  BY DEF Requete, Executer, Sincere
<1>2. cles' = cles \cup {<<q.op, q.compte>>}
  BY <1>1 DEF Executer
<1>3. <<q.op, q.compte>> \in Ops \X Comptes
  BY <1>1
<1>4. CASE DejaVue(q)
  <2>1. UNCHANGED effets
    BY <1>4 DEF Executer
  <2>2. PICK v \in cles : v[1] = q.op
    BY <1>1, <1>4 DEF DejaVue
  <2>3. PICK d \in Comptes : v = <<q.op, d>>
    BY <2>2 DEF TypeOK
  <2>4. Fait(q.op)
    BY <1>1, <2>2, <2>3 DEF Unicite
  <2>5. \A o \in Ops : Fait(o)' <=> Fait(o)
    BY <2>1 DEF Fait
  <2>6. Fait(q.op)'
    BY <2>4, <2>5, <1>1
  <2>7. Unicite'
    <3> SUFFICES ASSUME NEW o \in Ops, NEW c \in Comptes
                 PROVE  /\ effets'[<<o, c>>] \in {0, 1}
                        /\ effets'[<<o, c>>] = 1 => <<o, c>> \in cles'
                        /\ <<o, c>> \in cles' => Fait(o)'
      BY DEF Unicite
    <3> QED
      BY <1>2, <2>1, <2>5, <2>6 DEF Unicite
  <2> QED
    BY <2>1, <2>5, <2>6, <2>7
<1>5. CASE ~DejaVue(q)
  <2>1. <<q.op, q.compte>> \notin cles
    <3> SUFFICES ASSUME <<q.op, q.compte>> \in cles PROVE FALSE
      OBVIOUS
    <3>1. <<q.op, q.compte>>[1] = q.cle /\ <<q.op, q.compte>>[2] = q.compte
      BY <1>1
    <3> QED
      BY <1>5, <3>1 DEF DejaVue
  <2>2. effets[<<q.op, q.compte>>] = 0
    BY <1>1, <2>1 DEF Unicite
  <2>3. effets' = [effets EXCEPT ![<<q.op, q.compte>>] = 1]
    BY <1>5, <2>2 DEF Executer
  <2>4. effets'[<<q.op, q.compte>>] = 1
    BY <2>3, <1>3 DEF TypeOK
  <2>5. ASSUME NEW o \in Ops, NEW c \in Comptes, <<o, c>> # <<q.op, q.compte>>
        PROVE  effets'[<<o, c>>] = effets[<<o, c>>]
    BY <2>3, <2>5 DEF TypeOK
  <2>6. Fait(q.op)'
    BY <1>1, <2>4 DEF Fait
  <2>7. \A o \in Ops : Fait(o) => Fait(o)'
    BY <2>4, <2>5 DEF Fait
  <2>8. Unicite'
    <3> SUFFICES ASSUME NEW o \in Ops, NEW c \in Comptes
                 PROVE  /\ effets'[<<o, c>>] \in {0, 1}
                        /\ effets'[<<o, c>>] = 1 => <<o, c>> \in cles'
                        /\ <<o, c>> \in cles' => Fait(o)'
      BY DEF Unicite
    <3>1. CASE <<o, c>> = <<q.op, q.compte>>
      BY <3>1, <1>2, <2>4, <2>6
    <3>2. CASE <<o, c>> # <<q.op, q.compte>>
      BY <3>2, <1>2, <2>5, <2>7 DEF Unicite
    <3> QED
      BY <3>1, <3>2
  <2> QED
    BY <2>2, <2>3, <2>6, <2>7, <2>8
<1> QED
  BY <1>4, <1>5

(* A request that does not change keeps saying the truth.                   *)
LEMMA CourrierStable ==
  ASSUME TypeOK, Progres, NEW a \in Appelants, Courrier(a), appels'[a] = appels[a]
  PROVE  Courrier(a)'
<1> SUFFICES ASSUME Vole(a)'
             PROVE  /\ Sincere(appels[a].requete)'
                    /\ Repondu(a, "ok")' => Fait(appels[a].requete.op)'
                    /\ Repondu(a, "refus")' => (appels[a].requete.op \in refusees)'
  BY DEF Courrier
<1>1. Vole(a)
  BY DEF Vole
<1>2. PICK o \in Ops : o = appels[a].requete.op
  BY <1>1, RequeteType DEF Requete
<1>3. Sincere(appels[a].requete)'
  BY <1>1, <1>2 DEF Courrier, Progres, Sincere
<1>4. ASSUME Repondu(a, "ok")' PROVE Fait(appels[a].requete.op)'
  <2>1. Fait(o)'
    BY <1>1, <1>2, <1>4 DEF Courrier, Progres, Repondu
  <2> QED
    BY <2>1, <1>2 DEF Fait
<1>5. ASSUME Repondu(a, "refus")' PROVE (appels[a].requete.op \in refusees)'
  BY <1>1, <1>5 DEF Courrier, Progres, Repondu
<1> QED
  BY <1>3, <1>4, <1>5

LEMMA SincereStable ==
  ASSUME Progres, NEW q \in Requete, Sincere(q)
  PROVE  Sincere(q)'
BY DEF Progres, Sincere, Requete

(* A step that changes the request of one caller, or gives it up.           *)
LEMMA CourriersSauf ==
  ASSUME TypeOK, Courriers, Progres, NEW a \in Appelants,
         \A x \in Appelants \ {a} : appels'[x] = appels[x],
         Courrier(a)', errantes' \subseteq errantes \cup EnRoute(a)
  PROVE  Courriers'
<1>1. ASSUME NEW x \in Appelants PROVE Courrier(x)'
  BY CourrierStable DEF Courriers
<1>2. ASSUME NEW q \in errantes' PROVE Sincere(q)'
  <2>1. q \in Requete /\ Sincere(q)
    BY RequeteType DEF EnRoute, Courriers, Courrier, TypeOK, Repondu, Vole
  <2> QED
    BY <2>1, SincereStable
<1> QED
  BY <1>1, <1>2 DEF Courriers

LEMMA SansEffet ==
  ASSUME TypeOK, Unicite, UNCHANGED <<effets, cles>>
  PROVE  Unicite' /\ \A o \in Ops : Fait(o)' <=> Fait(o)
<1>1. \A o \in Ops : Fait(o)' <=> Fait(o)
  BY DEF Fait
<1> QED
  BY <1>1 DEF Unicite

LEMMA ServeurSaisie ==
  ASSUME TypeOK, Courriers, Unicite, NEW o \in Ops,
         SaisirHorsLigne(o) \/ SaisirEnLigne(o) \/ FinirEnvoi(o) \/ Purger(o)
  PROVE  Progres /\ Courriers' /\ Unicite'
<1>a. o \in Appelants
  BY DEF Appelants
<1>s. UNCHANGED serveur /\ UNCHANGED errantes
  BY DEF SaisirHorsLigne, SaisirEnLigne, FinirEnvoi, Purger
<1>u. Unicite' /\ \A x \in Ops : Fait(x)' <=> Fait(x)
  BY <1>s, SansEffet DEF serveur
<1>1. \A x \in Ops : place[x] # "neuve" => place'[x] # "neuve"
  BY DEF TypeOK, SaisirHorsLigne, SaisirEnLigne, FinirEnvoi, Purger, Enfiler, Poser
<1>2. Progres
  BY <1>1, <1>s, <1>u DEF Progres, serveur
<1>3. \A x \in Appelants \ {o} : appels'[x] = appels[x]
  BY DEF TypeOK, SaisirHorsLigne, SaisirEnLigne, FinirEnvoi, Purger, Emettre, Raccrocher
<1>4. Courrier(o)'
  <2>1. CASE SaisirHorsLigne(o) \/ Purger(o)
    BY <2>1, <1>2, <1>a, CourrierStable DEF Courriers, SaisirHorsLigne, Purger
  <2>2. CASE SaisirEnLigne(o)
    <3>1. appels'[o] = [requete |-> [op |-> o, cle |-> o, compte |-> session], reponse |-> "attente"]
      BY <2>2, <1>a DEF TypeOK, SaisirEnLigne, Emettre
    <3>2. place'[o] = "directe"
      BY <2>2 DEF TypeOK, SaisirEnLigne, Poser
    <3> QED
      BY <3>1, <3>2 DEF Courrier, Sincere, Repondu
  <2>3. CASE FinirEnvoi(o)
    <3>1. appels'[o] = Rien
      BY <2>3, <1>a DEF TypeOK, FinirEnvoi, Raccrocher
    <3> QED
      BY <3>1 DEF Courrier, Vole, Rien
  <2> QED
    BY <2>1, <2>2, <2>3
<1> QED
  BY <1>a, <1>s, <1>u, <1>2, <1>3, <1>4, CourriersSauf

LEMMA ServeurReseau ==
  ASSUME TypeOK, Courriers, Unicite, NEW a \in Appelants,
         Traiter(a) \/ Refuser(a) \/ Perdre(a) \/ Rafraichir(a) \/ Expirer(a)
  PROVE  Progres /\ Courriers' /\ Unicite'
<1>v. Vole(a)
  BY DEF Vole, Traiter, Refuser, Perdre, Rafraichir, Expirer, Repondu
<1>q. PICK q \in Requete : q = appels[a].requete
  BY <1>v, RequeteType
<1>r. Sincere(q)
  BY <1>v, <1>q DEF Courriers, Courrier
<1>p. UNCHANGED place
  BY DEF Traiter, Refuser, Perdre, Rafraichir, Expirer, client
<1>1. CASE Traiter(a)
  <2>1. Unicite' /\ (\A o \in Ops : Fait(o) => Fait(o)') /\ Fait(q.op)'
    BY <1>1, <1>q, <1>r, ExecuterUnicite DEF Traiter
  <2>2. Progres
    BY <1>1, <1>p, <2>1 DEF Progres, Traiter, Executer
  <2>3. appels' = [appels EXCEPT ![a] = [appels[a] EXCEPT !.reponse = "ok"]]
    BY <1>1 DEF Traiter, Repondre
  <2>4. appels'[a].requete = q /\ appels'[a].reponse = "ok"
    BY <2>3, <1>v, <1>q DEF TypeOK, Vole, Rien, Appel
  <2>5. Courrier(a)'
    <3>1. Sincere(q)'
      BY <1>r, <2>2, SincereStable
    <3> QED
      BY <2>1, <2>4, <3>1 DEF Courrier, Repondu, Sincere, Fait
  <2>6. \A x \in Appelants \ {a} : appels'[x] = appels[x]
    BY <2>3 DEF TypeOK
  <2>7. UNCHANGED errantes
    BY <1>1 DEF Traiter
  <2> QED
    BY <2>1, <2>2, <2>5, <2>6, <2>7, CourriersSauf
<1>2. CASE Refuser(a)
  <2>1. Unicite' /\ (\A o \in Ops : Fait(o) => Fait(o)')
    BY <1>2, SansEffet DEF Refuser
  <2>2. Progres
    BY <1>2, <1>p, <2>1 DEF Progres, Refuser
  <2>3. appels' = [appels EXCEPT ![a] = [appels[a] EXCEPT !.reponse = "refus"]]
    BY <1>2 DEF Refuser, Repondre
  <2>4. appels'[a].requete = q /\ appels'[a].reponse = "refus"
    BY <2>3, <1>v, <1>q DEF TypeOK, Vole, Rien, Appel
  <2>5. Courrier(a)'
    <3>1. Sincere(q)'
      BY <1>r, <2>2, SincereStable
    <3>2. q.op \in refusees'
      BY <1>2, <1>q DEF Refuser
    <3> QED
      BY <2>4, <3>1, <3>2 DEF Courrier, Repondu, Sincere
  <2>6. \A x \in Appelants \ {a} : appels'[x] = appels[x]
    BY <2>3 DEF TypeOK
  <2>7. UNCHANGED errantes
    BY <1>2 DEF Refuser
  <2> QED
    BY <2>1, <2>2, <2>5, <2>6, <2>7, CourriersSauf
<1>3. CASE Perdre(a) \/ Expirer(a)
  <2>1. Unicite' /\ (\A o \in Ops : Fait(o) => Fait(o)')
    BY <1>3, SansEffet DEF Perdre, Expirer, serveur
  <2>2. Progres
    BY <1>3, <1>p, <2>1 DEF Progres, Perdre, Expirer, serveur
  <2>3. appels' = [appels EXCEPT ![a] = [appels[a] EXCEPT !.reponse = "panne"]]
    BY <1>3 DEF Perdre, Expirer, Repondre
  <2>4. appels'[a].requete = q /\ appels'[a].reponse = "panne"
    BY <2>3, <1>v, <1>q DEF TypeOK, Vole, Rien, Appel
  <2>5. Courrier(a)'
    <3>1. Sincere(q)'
      BY <1>r, <2>2, SincereStable
    <3> QED
      BY <2>4, <3>1 DEF Courrier, Repondu, Sincere
  <2>6. \A x \in Appelants \ {a} : appels'[x] = appels[x]
    BY <2>3 DEF TypeOK
  <2>7. errantes' \subseteq errantes \cup EnRoute(a)
    BY <1>3 DEF Perdre, Expirer
  <2> QED
    BY <2>1, <2>2, <2>5, <2>6, <2>7, CourriersSauf
<1>4. CASE Rafraichir(a)
  <2>1. Unicite' /\ (\A o \in Ops : Fait(o) => Fait(o)')
    BY <1>4, SansEffet DEF Rafraichir, serveur
  <2>2. Progres
    BY <1>4, <1>p, <2>1 DEF Progres, Rafraichir, serveur
  <2>3. appels' = [appels EXCEPT ![a] =
          [appels[a] EXCEPT !.requete = [appels[a].requete EXCEPT !.compte = session]]]
    BY <1>4 DEF Rafraichir
  <2>4. /\ appels'[a].requete.op = q.op /\ appels'[a].requete.cle = q.cle
        /\ appels'[a].reponse = "attente"
    BY <1>4, <2>3, <1>v, <1>q DEF TypeOK, Vole, Rien, Appel, Requete, Rafraichir, Repondu
  <2>5. Courrier(a)'
    <3>1. Sincere(q)'
      BY <1>r, <2>2, SincereStable
    <3> QED
      BY <2>4, <3>1 DEF Courrier, Repondu, Sincere
  <2>6. \A x \in Appelants \ {a} : appels'[x] = appels[x]
    BY <2>3 DEF TypeOK
  <2>7. UNCHANGED errantes
    BY <1>4 DEF Rafraichir
  <2> QED
    BY <2>1, <2>2, <2>5, <2>6, <2>7, CourriersSauf
<1> QED
  BY <1>1, <1>2, <1>3, <1>4

LEMMA ServeurErrante ==
  ASSUME TypeOK, Courriers, Unicite, NEW q \in errantes, TraiterErrante(q)
  PROVE  Progres /\ Courriers' /\ Unicite'
<1>1. q \in Requete /\ Sincere(q)
  BY DEF TypeOK, Courriers
<1>2. Unicite' /\ (\A o \in Ops : Fait(o) => Fait(o)')
  BY <1>1, ExecuterUnicite DEF TraiterErrante
<1>3. Progres
  BY <1>2 DEF Progres, TraiterErrante, Executer, client
<1>4. \A a \in Appelants : Courrier(a)'
  BY <1>3, CourrierStable DEF Courriers, TraiterErrante
<1>5. ASSUME NEW e \in errantes' PROVE Sincere(e)'
  BY <1>3, SincereStable DEF TypeOK, Courriers, TraiterErrante
<1> QED
  BY <1>2, <1>3, <1>4, <1>5 DEF Courriers

LEMMA ServeurBoucle ==
  ASSUME TypeOK, Courriers, Unicite, Ordres, NEW b \in Boucles, Tour(b)
  PROVE  Progres /\ Courriers' /\ Unicite'
<1>a. b \in Appelants
  BY DEF Appelants
<1>s. UNCHANGED serveur /\ UNCHANGED errantes
  BY DEF Tour, Lancer, Poster, Retirer, Enterrer, CompterEchec
<1>u. Unicite' /\ \A x \in Ops : Fait(x)' <=> Fait(x)
  BY <1>s, SansEffet DEF serveur
<1>1. \A x \in Ops : place[x] # "neuve" => place'[x] # "neuve"
  BY DEF TypeOK, Tour, Lancer, Poster, Retirer, Enterrer, CompterEchec, Sortir, Poser
<1>2. Progres
  BY <1>1, <1>s, <1>u DEF Progres, serveur
<1>3. \A x \in Appelants \ {b} : appels'[x] = appels[x]
  BY DEF TypeOK, Tour, Lancer, Poster, Retirer, Enterrer, CompterEchec, Emettre, Raccrocher
<1>4. Courrier(b)'
  <2>1. CASE Lancer(b)
    BY <2>1, <1>2, <1>a, CourrierStable DEF Courriers, Lancer
  <2>2. CASE Poster(b)
    <3>1. PICK o \in boucles[b].reste : Emettre(b, o, CleDeRejeu(o))
      BY <2>2 DEF Poster
    <3>2. appels'[b] = [requete |-> [op |-> o, cle |-> o, compte |-> session], reponse |-> "attente"]
      BY <3>1, <1>a DEF TypeOK, Emettre, CleDeRejeu
    <3>3. place[o] # "neuve" /\ UNCHANGED place
      BY <2>2 DEF Poster, Ordres, BoucleOrdonnee, Reprise, Prise
    <3> QED
      BY <3>2, <3>3 DEF Courrier, Sincere, Repondu
  <2>3. CASE Retirer(b) \/ Enterrer(b) \/ CompterEchec(b)
    <3>1. appels'[b] = Rien
      BY <2>3, <1>a DEF TypeOK, Retirer, Enterrer, CompterEchec, Raccrocher
    <3> QED
      BY <3>1 DEF Courrier, Vole, Rien
  <2> QED
    BY <2>1, <2>2, <2>3 DEF Tour
<1> QED
  BY <1>a, <1>s, <1>u, <1>2, <1>3, <1>4, CourriersSauf

LEMMA ServeurFermer ==
  ASSUME TypeOK, Courriers, Unicite, Fermer
  PROVE  Progres /\ Courriers' /\ Unicite'
<1>u. Unicite' /\ \A x \in Ops : Fait(x)' <=> Fait(x)
  BY SansEffet DEF Fermer, serveur
<1>1. Progres
  BY <1>u DEF Progres, Fermer, TypeOK, serveur
<1>2. ASSUME NEW a \in Appelants PROVE Courrier(a)'
  <2>1. appels'[a] = Rien
    BY DEF Fermer
  <2> QED
    BY <2>1 DEF Courrier, Vole, Rien
<1>3. ASSUME NEW q \in errantes' PROVE Sincere(q)'
  <2>1. CASE q \in errantes
    BY <2>1, <1>1, SincereStable DEF TypeOK, Courriers
  <2>2. CASE q \notin errantes
    <3>1. PICK a \in Appelants : q \in EnRoute(a)
      BY <2>2 DEF Fermer
    <3>2. q \in Requete /\ Sincere(q)
      BY <3>1, RequeteType DEF EnRoute, Courriers, Courrier, Repondu, Vole
    <3> QED
      BY <3>2, <1>1, SincereStable
  <2> QED
    BY <2>1, <2>2
<1> QED
  BY <1>u, <1>1, <1>2, <1>3 DEF Courriers

LEMMA ServeurPas ==
  ASSUME IFile, [Next]_vars
  PROVE  Progres /\ Courriers' /\ Unicite'
<1>i. TypeOK /\ Courriers /\ Unicite /\ Ordres
  BY DEF IFile
<1>1. CASE (\E c \in Comptes : Connexion(c)) \/ Deconnexion \/ UNCHANGED vars
  <2>1. UNCHANGED <<client, appels, errantes, serveur>>
    BY <1>1 DEF Connexion, Deconnexion, vars
  <2>2. Unicite' /\ \A x \in Ops : Fait(x)' <=> Fait(x)
    BY <1>i, <2>1, SansEffet DEF serveur
  <2>3. Progres
    BY <2>1, <2>2 DEF Progres, client, serveur
  <2>4. ASSUME NEW a \in Appelants PROVE Courrier(a)'
    BY <1>i, <2>1, <2>3, CourrierStable DEF Courriers
  <2>5. ASSUME NEW q \in errantes' PROVE Sincere(q)'
    BY <1>i, <2>1, <2>3, SincereStable DEF Courriers, TypeOK
  <2> QED
    BY <2>2, <2>3, <2>4, <2>5 DEF Courriers
<1>2. CASE \E o \in Ops : \/ SaisirHorsLigne(o) \/ SaisirEnLigne(o)
                          \/ FinirEnvoi(o) \/ Purger(o)
  BY <1>i, <1>2, ServeurSaisie
<1>3. CASE \E a \in Appelants : \/ Traiter(a) \/ Refuser(a) \/ Perdre(a)
                                \/ Rafraichir(a) \/ Expirer(a)
  BY <1>i, <1>3, ServeurReseau
<1>4. CASE \E q \in errantes : TraiterErrante(q)
  BY <1>i, <1>4, ServeurErrante
<1>5. CASE \E b \in Boucles : Tour(b)
  BY <1>i, <1>5, ServeurBoucle
<1>6. CASE Fermer
  BY <1>i, <1>6, ServeurFermer
<1> QED
  BY <1>1, <1>2, <1>3, <1>4, <1>5, <1>6 DEF Next, Tour

----------------------------------------------------------------------------
(* The callers.                                                             *)

(* A caller whose request is of the same operation or gone, and whose loop  *)
(* did not move.                                                            *)
LEMMA AttentesStable ==
  ASSUME Attentes, UNCHANGED boucles,
         \A a \in Appelants : Vole(a)' =>
           Vole(a) /\ appels'[a].requete.op = appels[a].requete.op
  PROVE  Attentes'
<1>1. ASSUME NEW o \in Ops PROVE EnvoiTient(o)'
  BY DEF Attentes, EnvoiTient, Appelants
<1>2. ASSUME NEW b \in Boucles PROVE BoucleTient(b)'
  BY DEF Attentes, BoucleTient, Appelants
<1> QED
  BY <1>1, <1>2 DEF Attentes

(* Only loop b and its request change.                                      *)
LEMMA AttentesBoucle ==
  ASSUME Attentes, NEW b \in Boucles, BoucleTient(b)',
         \A a \in Appelants \ {b} : appels'[a] = appels[a],
         \A x \in Boucles \ {b} : boucles'[x] = boucles[x]
  PROVE  Attentes'
<1>1. ASSUME NEW o \in Ops PROVE EnvoiTient(o)'
  <2>1. o \in Appelants \ {b}
    BY FileConstantes DEF Appelants
  <2> QED
    BY <2>1 DEF Attentes, EnvoiTient, Vole
<1>2. ASSUME NEW x \in Boucles \ {b} PROVE BoucleTient(x)'
  BY DEF Attentes, BoucleTient, Appelants, Vole
<1> QED
  BY <1>1, <1>2 DEF Attentes

LEMMA AttentesPas ==
  ASSUME IFile, [Next]_vars
  PROVE  Attentes'
<1>i. TypeOK /\ Attentes
  BY DEF IFile
<1>1. CASE \/ \E c \in Comptes : Connexion(c)
           \/ Deconnexion \/ UNCHANGED vars
           \/ \E o \in Ops : SaisirHorsLigne(o) \/ Purger(o)
           \/ \E q \in errantes : TraiterErrante(q)
  <2>1. UNCHANGED <<boucles, appels>>
    BY <1>1 DEF Connexion, Deconnexion, SaisirHorsLigne, Purger, TraiterErrante, vars, client
  <2> QED
    BY <1>i, <2>1, AttentesStable DEF Vole
<1>2. CASE \E o \in Ops : SaisirEnLigne(o)
  <2>1. PICK o \in Ops : SaisirEnLigne(o)
    BY <1>2
  <2>2. o \in Appelants \ Boucles
    BY FileConstantes DEF Appelants
  <2>3. /\ appels'[o].requete.op = o
        /\ \A a \in Appelants \ {o} : appels'[a] = appels[a]
        /\ UNCHANGED boucles
    BY <1>i, <2>1, <2>2 DEF TypeOK, SaisirEnLigne, Emettre
  <2>4. ASSUME NEW p \in Ops PROVE EnvoiTient(p)'
    BY <1>i, <2>3 DEF Attentes, EnvoiTient, Appelants, Vole
  <2>5. ASSUME NEW b \in Boucles PROVE BoucleTient(b)'
    <3>1. b \in Appelants \ {o}
      BY <2>2 DEF Appelants
    <3> QED
      BY <1>i, <2>3, <3>1 DEF Attentes, BoucleTient, Vole
  <2> QED
    BY <2>4, <2>5 DEF Attentes
<1>3. CASE \/ \E o \in Ops : FinirEnvoi(o)
           \/ \E a \in Appelants : \/ Traiter(a) \/ Refuser(a) \/ Perdre(a)
                                   \/ Rafraichir(a) \/ Expirer(a)
  <2>1. UNCHANGED boucles
    BY <1>3 DEF FinirEnvoi, Traiter, Refuser, Perdre, Rafraichir, Expirer, client
  <2>2. ASSUME NEW a \in Appelants, Vole(a)'
        PROVE  Vole(a) /\ appels'[a].requete.op = appels[a].requete.op
    <3>1. CASE \E o \in Ops : FinirEnvoi(o)
      BY <1>i, <2>2, <3>1 DEF TypeOK, FinirEnvoi, Raccrocher, Vole, Rien
    <3>2. CASE \E x \in Appelants : Traiter(x) \/ Refuser(x) \/ Perdre(x) \/ Expirer(x)
      <4>1. PICK x \in Appelants, r \in Reponses :
              Vole(x) /\ appels' = [appels EXCEPT ![x] = [appels[x] EXCEPT !.reponse = r]]
        BY <3>2 DEF Traiter, Refuser, Perdre, Expirer, Repondre, Repondu, Vole, Reponses
      <4>2. appels[x] \in Appel
        BY <1>i, <4>1 DEF TypeOK, Vole, Rien
      <4> QED
        BY <1>i, <2>2, <4>1, <4>2 DEF TypeOK, Vole, Appel
    <3>3. CASE \E x \in Appelants : Rafraichir(x)
      <4>1. PICK x \in Appelants : Vole(x) /\ appels' = [appels EXCEPT ![x] =
              [appels[x] EXCEPT !.requete = [appels[x].requete EXCEPT !.compte = session]]]
        BY <3>3 DEF Rafraichir, Repondu, Vole
      <4>2. appels[x] \in Appel
        BY <1>i, <4>1 DEF TypeOK, Vole, Rien
      <4> QED
        BY <1>i, <2>2, <4>1, <4>2 DEF TypeOK, Vole, Appel, Requete
    <3> QED
      BY <1>3, <3>1, <3>2, <3>3
  <2> QED
    BY <1>i, <2>1, <2>2, AttentesStable
<1>4. CASE \E b \in Boucles : Tour(b)
  <2>1. PICK b \in Boucles : Tour(b)
    BY <1>4
  <2>a. b \in Appelants
    BY DEF Appelants
  <2>2. /\ \A a \in Appelants \ {b} : appels'[a] = appels[a]
        /\ \A x \in Boucles \ {b} : boucles'[x] = boucles[x]
    BY <1>i, <2>1, <2>a DEF TypeOK, Tour, Lancer, Poster, Retirer, Enterrer, CompterEchec,
       Emettre, Raccrocher, Avancer
  <2>3. BoucleTient(b)'
    <3>1. CASE Lancer(b)
      <4>1. ~Vole(b)
        BY <1>i, <3>1 DEF Attentes, BoucleTient, Lancer
      <4>2. boucles'[b].pas = "envoi" /\ appels'[b] = appels[b]
        BY <1>i, <3>1 DEF TypeOK, Lancer
      <4> QED
        BY <4>1, <4>2 DEF BoucleTient, Vole
    <3>2. CASE Poster(b)
      <4>1. PICK o \in boucles[b].reste :
              /\ Emettre(b, o, CleDeRejeu(o))
              /\ boucles' = [boucles EXCEPT ![b] =
                   [pas |-> "attente", uid |-> @.uid, op |-> o, reste |-> @.reste \ {o}]]
        BY <3>2 DEF Poster
      <4>2. o \in Ops
        BY <1>i DEF TypeOK, Boucle
      <4>3. boucles'[b].pas = "attente" /\ boucles'[b].op = o /\ appels'[b].requete.op = o
        BY <1>i, <4>1, <2>a DEF TypeOK, Emettre
      <4> QED
        BY <4>2, <4>3 DEF BoucleTient
    <3>3. CASE Retirer(b) \/ Enterrer(b) \/ CompterEchec(b)
      <4>1. appels'[b] = Rien
        BY <1>i, <3>3, <2>a DEF TypeOK, Retirer, Enterrer, CompterEchec, Raccrocher
      <4>2. CASE Retirer(b) \/ Enterrer(b)
        <5>1. boucles'[b].pas \in {"repos", "envoi"}
          BY <1>i, <4>2 DEF TypeOK, Retirer, Enterrer, Avancer, Arret
        <5> QED
          BY <4>1, <5>1 DEF BoucleTient, Vole, Rien
      <4>3. CASE CompterEchec(b)
        <5>1. boucles[b].op \in Ops
          BY <1>i, <4>3 DEF Attentes, BoucleTient, CompterEchec
        <5>2. \/ boucles'[b] = Arret
              \/ /\ Plafonnee(boucles[b].op)
                 /\ boucles'[b] = [boucles[b] EXCEPT !.pas = "plafond"]
          BY <1>i, <4>3 DEF TypeOK, CompterEchec, Courante
        <5>3. boucles[b] \in Boucle
          BY <1>i DEF TypeOK
        <5>4. CASE boucles'[b] = Arret
          BY <4>1, <5>4 DEF BoucleTient, Vole, Rien, Arret
        <5>5. CASE boucles'[b] # Arret
          <6>1. boucles'[b].pas = "plafond" /\ boucles'[b].op = boucles[b].op
            BY <5>2, <5>3, <5>5 DEF Boucle
          <6>2. boucles[b].op \notin Argent
            BY <5>2, <5>5 DEF Plafonnee
          <6> QED
            BY <4>1, <5>1, <6>1, <6>2 DEF BoucleTient, Vole, Rien
        <5> QED
          BY <5>4, <5>5
      <4> QED
        BY <3>3, <4>2, <4>3
    <3> QED
      BY <2>1, <3>1, <3>2, <3>3 DEF Tour
  <2> QED
    BY <1>i, <2>2, <2>3, AttentesBoucle
<1>5. CASE Fermer
  <2>1. /\ \A a \in Appelants : appels'[a] = Rien
        /\ \A b \in Boucles : boucles'[b] = Arret
    BY <1>5 DEF Fermer
  <2> QED
    BY <2>1 DEF Attentes, EnvoiTient, BoucleTient, Vole, Rien, Arret, Appelants
<1> QED
  BY <1>1, <1>2, <1>3, <1>4, <1>5 DEF Next, Tour

(* Money is buried on a verdict of the server.                              *)
LEMMA ArgentPas ==
  ASSUME IFile, [Next]_vars
  PROVE  ArgentJamaisAbandonne'
<1>i. TypeOK /\ Courriers /\ Attentes /\ ArgentJamaisAbandonne
  BY DEF IFile
<1>p. Progres
  BY ServeurPas
<1>s. Argent \subseteq Ops
  BY FileConstantes
<1>1. CASE \E b \in Boucles : Enterrer(b)
  <2>1. PICK b \in Boucles : Enterrer(b)
    BY <1>1
  <2>2. boucles[b].op \in Argent => boucles[b].op \in refusees
    <3>1. CASE boucles[b].pas = "plafond"
      BY <1>i, <3>1 DEF Attentes, BoucleTient
    <3>2. CASE boucles[b].pas # "plafond"
      <4>1. Vole(b) /\ Repondu(b, "refus")
        BY <2>1, <3>2 DEF Enterrer, Repondu, Vole
      <4>2. appels[b].requete.op = boucles[b].op
        BY <1>i, <4>1 DEF Attentes, BoucleTient
      <4> QED
        BY <1>i, <4>1, <4>2 DEF Courriers, Courrier, Appelants
    <3> QED
      BY <3>1, <3>2
  <2>3. \A o \in Ops : place'[o] \in {"morte", "purgee"} =>
          place[o] \in {"morte", "purgee"} \/ o = boucles[b].op
    BY <1>i, <2>1 DEF TypeOK, Enterrer, Sortir, Poser, Courante
  <2> QED
    BY <1>i, <1>p, <1>s, <2>2, <2>3 DEF ArgentJamaisAbandonne, Progres
<1>2. CASE ~ \E b \in Boucles : Enterrer(b)
  <2>1. \A o \in Ops : place'[o] \in {"morte", "purgee"} => place[o] \in {"morte", "purgee"}
    BY <1>i, <1>2 DEF TypeOK, Next, vars, client, Connexion, Deconnexion, SaisirHorsLigne,
       SaisirEnLigne, FinirEnvoi, Purger, Enfiler, Poser, Traiter, Refuser, Perdre, Rafraichir,
       Expirer, TraiterErrante, Lancer, Poster, Retirer, CompterEchec, Sortir, Fermer
  <2> QED
    BY <1>i, <1>p, <1>s, <2>1 DEF ArgentJamaisAbandonne, Progres
<1> QED
  BY <1>1, <1>2

----------------------------------------------------------------------------
(* The order of the queue.                                                  *)

(* What a step does to the queue: operations leave it, or enter it last.    *)
Chronique ==
  /\ \A o \in Ops : Prise(o) =>
       Prise(o)' /\ ts'[o] = ts[o] /\ proprio'[o] = proprio[o] /\ (EnFile(o)' => EnFile(o))
  /\ \A o \in Ops : ~Prise(o) /\ EnFile(o)' => ts'[o] = horloge
  /\ \A o \in Ops : ts'[o] <= horloge'

LEMMA ChroniquePas ==
  ASSUME TypeOK, Attentes, Ordres, [Next]_vars
  PROVE  Chronique
<1>1. CASE \/ \E c \in Comptes : Connexion(c)
           \/ Deconnexion \/ UNCHANGED vars
           \/ \E a \in Appelants : \/ Traiter(a) \/ Refuser(a) \/ Perdre(a)
                                   \/ Rafraichir(a) \/ Expirer(a)
           \/ \E q \in errantes : TraiterErrante(q)
           \/ \E b \in Boucles : Lancer(b) \/ Poster(b) \/ CompterEchec(b)
  <2>1. UNCHANGED <<place, proprio, ts, horloge>>
    BY <1>1 DEF Connexion, Deconnexion, vars, client, Traiter, Refuser, Perdre, Rafraichir,
       Expirer, TraiterErrante, Lancer, Poster, CompterEchec
  <2> QED
    BY <2>1 DEF Chronique, Ordres, Prise, EnFile
<1>2. CASE \E o \in Ops : SaisirHorsLigne(o)
  <2>1. PICK o \in Ops : SaisirHorsLigne(o)
    BY <1>2
  <2> QED
    BY <2>1 DEF TypeOK, Chronique, Ordres, SaisirHorsLigne, Enfiler, Poser, Prise, EnFile
<1>3. CASE \E o \in Ops : SaisirEnLigne(o) \/ Purger(o)
  <2>1. PICK o \in Ops : SaisirEnLigne(o) \/ Purger(o)
    BY <1>3
  <2> QED
    BY <2>1 DEF TypeOK, Chronique, Ordres, SaisirEnLigne, Purger, Poser, Prise, EnFile
<1>4. CASE \E o \in Ops : FinirEnvoi(o)
  <2>1. PICK o \in Ops : FinirEnvoi(o)
    BY <1>4
  <2>2. place[o] = "directe" /\ ~Prise(o)
    BY <2>1 DEF FinirEnvoi, Prise
  <2>3. CASE Repondu(o, "panne") /\ Enfiler(o, proprio[o])
    <3>1. /\ place' = [place EXCEPT ![o] = "file"] /\ proprio' = [proprio EXCEPT ![o] = proprio[o]]
          /\ ts' = [ts EXCEPT ![o] = horloge] /\ horloge' = horloge + 1
      BY <2>3 DEF Enfiler, Poser
    <3> QED
      BY <2>2, <3>1 DEF TypeOK, Chronique, Ordres, Prise, EnFile
  <2>4. CASE UNCHANGED <<proprio, ts, horloge>> /\ (Poser(o, "confirmee") \/ Poser(o, "rendue"))
    BY <2>2, <2>4 DEF TypeOK, Chronique, Ordres, Poser, Prise, EnFile
  <2> QED
    BY <2>1, <2>3, <2>4 DEF FinirEnvoi
<1>5. CASE \E b \in Boucles : Retirer(b) \/ Enterrer(b)
  <2>1. PICK b \in Boucles : Retirer(b) \/ Enterrer(b)
    BY <1>5
  <2> QED
    BY <2>1 DEF TypeOK, Chronique, Ordres, Retirer, Enterrer, Sortir, Poser, Prise, EnFile
<1>6. CASE Fermer
  BY <1>6 DEF TypeOK, Chronique, Ordres, Fermer, Prise, EnFile
<1> QED
  BY <1>1, <1>2, <1>3, <1>4, <1>5, <1>6 DEF Next

LEMMA RepriseOps ==
  ASSUME TypeOK, Attentes, NEW b \in Boucles
  PROVE  Reprise(b) \subseteq Ops
BY DEF TypeOK, Boucle, Attentes, BoucleTient, Reprise

(* A loop that does not move still stands for the queue of its owner.       *)
LEMMA OrdreStable ==
  ASSUME TypeOK, Attentes, Ordres, Chronique, NEW b \in Boucles, boucles'[b] = boucles[b]
  PROVE  BoucleOrdonnee(b)'
<1>r. Reprise(b)' = Reprise(b) /\ Reprise(b) \subseteq Ops
  BY RepriseOps DEF Reprise
<1>o. BoucleOrdonnee(b)
  BY DEF Ordres
<1>t. ts \in [Ops -> Nat] /\ horloge \in Nat /\ boucles[b] \in Boucle
  BY DEF TypeOK
<1>1. ASSUME NEW p \in Reprise(b)
      PROVE  /\ Prise(p)' /\ proprio'[p] = boucles[b].uid
             /\ ts'[p] = ts[p] /\ ts[p] <= horloge
  BY <1>1, <1>r, <1>o DEF BoucleOrdonnee, Ordres, Chronique
<1>2. ASSUME boucles[b].pas # "repos", NEW o \in Ops,
             EnFile(o)', proprio'[o] = boucles[b].uid, o \notin Reprise(b), NEW p \in Reprise(b)
      PROVE  ts'[p] <= ts'[o]
  <2>1. CASE Prise(o)
    BY <1>1, <1>2, <1>o, <2>1 DEF BoucleOrdonnee, Chronique
  <2>2. CASE ~Prise(o)
    BY <1>1, <1>2, <2>2 DEF Chronique
  <2> QED
    BY <2>1, <2>2
<1>3. ASSUME boucles[b].pas \in {"attente", "plafond"}, NEW p \in boucles[b].reste
      PROVE  ts'[boucles[b].op] <= ts'[p]
  <2>1. p \in Reprise(b) /\ boucles[b].op \in Reprise(b)
    BY <1>3 DEF Reprise
  <2> QED
    BY <1>1, <1>3, <1>o, <2>1 DEF BoucleOrdonnee
<1> QED
  BY <1>r, <1>1, <1>2, <1>3 DEF BoucleOrdonnee

(* The snapshot of a loop that starts.                                      *)
LEMMA OrdreLancer ==
  ASSUME TypeOK, NEW b \in Boucles, Lancer(b)
  PROVE  BoucleOrdonnee(b)'
<1>1. /\ boucles'[b].pas = "envoi" /\ boucles'[b].uid = session
      /\ boucles'[b].reste = Siennes(session)
  BY DEF TypeOK, Lancer
<1>2. Reprise(b)' = Siennes(session)
  BY <1>1 DEF Reprise
<1>3. UNCHANGED <<place, proprio, ts>>
  BY DEF Lancer
<1> QED
  BY <1>1, <1>2, <1>3 DEF BoucleOrdonnee, Siennes, EnFile, Prise

LEMMA OrdrePoster ==
  ASSUME TypeOK, Attentes, Ordres, NEW b \in Boucles, Poster(b)
  PROVE  BoucleOrdonnee(b)'
<1>1. PICK o \in boucles[b].reste :
        /\ \A p \in boucles[b].reste : ts[o] <= ts[p]
        /\ boucles' = [boucles EXCEPT ![b] =
             [pas |-> "attente", uid |-> @.uid, op |-> o, reste |-> @.reste \ {o}]]
  BY DEF Poster
<1>2. /\ boucles'[b].pas = "attente" /\ boucles'[b].uid = boucles[b].uid
      /\ boucles'[b].op = o /\ boucles'[b].reste = boucles[b].reste \ {o}
  BY <1>1 DEF TypeOK
<1>3. Reprise(b)' = Reprise(b) /\ boucles[b].pas = "envoi"
  BY <1>2 DEF Reprise, Poster
<1>4. UNCHANGED <<place, proprio, ts>>
  BY DEF Poster
<1>5. BoucleOrdonnee(b)
  BY DEF Ordres
<1> QED
  BY <1>1, <1>2, <1>3, <1>4, <1>5 DEF BoucleOrdonnee, EnFile, Prise

(* The operation the loop had in hand is no longer in the queue.            *)
LEMMA OrdreAvancer ==
  ASSUME TypeOK, Attentes, Ordres, Chronique, NEW b \in Boucles,
         boucles[b].pas \in {"attente", "plafond"}, Avancer(b),
         NEW x \in Ops, x = boucles[b].op, ~EnFile(x)'
  PROVE  BoucleOrdonnee(b)'
<1>b. boucles[b] \in Boucle
  BY DEF TypeOK
<1>1. CASE boucles[b].reste = {}
  <2>1. boucles'[b] = Arret
    BY <1>1 DEF TypeOK, Avancer
  <2> QED
    BY <2>1 DEF BoucleOrdonnee, Reprise, Arret
<1>2. CASE boucles[b].reste # {}
  <2>1. /\ boucles'[b].pas = "envoi" /\ boucles'[b].uid = boucles[b].uid
        /\ boucles'[b].reste = boucles[b].reste
    BY <1>2 DEF TypeOK, Avancer
  <2>2. Reprise(b)' = boucles[b].reste /\ Reprise(b) = boucles[b].reste \cup {boucles[b].op}
    BY <2>1 DEF Reprise
  <2>3. Reprise(b) \subseteq Ops
    BY RepriseOps
  <2>o. BoucleOrdonnee(b)
    BY DEF Ordres
  <2>t. ts \in [Ops -> Nat] /\ horloge \in Nat
    BY DEF TypeOK
  <2>4. ASSUME NEW p \in boucles[b].reste
        PROVE  /\ Prise(p)' /\ proprio'[p] = boucles[b].uid
               /\ ts'[p] = ts[p] /\ ts[p] <= horloge
    BY <2>2, <2>3, <2>o DEF BoucleOrdonnee, Ordres, Chronique
  <2>5. ASSUME NEW o \in Ops, EnFile(o)', proprio'[o] = boucles[b].uid,
               o \notin boucles[b].reste, NEW p \in boucles[b].reste
        PROVE  ts'[p] <= ts'[o]
    <3>1. CASE Prise(o)
      BY <2>2, <2>4, <2>5, <2>o, <3>1 DEF BoucleOrdonnee, Chronique
    <3>2. CASE ~Prise(o)
      BY <2>4, <2>5, <3>2 DEF Chronique
    <3> QED
      BY <3>1, <3>2
  <2> QED
    BY <2>1, <2>2, <2>4, <2>5 DEF BoucleOrdonnee
<1> QED
  BY <1>1, <1>2

LEMMA OrdreCompter ==
  ASSUME TypeOK, Ordres, NEW b \in Boucles, CompterEchec(b)
  PROVE  BoucleOrdonnee(b)'
<1>b. boucles[b] \in Boucle
  BY DEF TypeOK
<1>1. UNCHANGED <<place, proprio, ts>>
  BY DEF CompterEchec
<1>2. CASE boucles'[b] = Arret
  BY <1>2 DEF BoucleOrdonnee, Reprise, Arret
<1>3. CASE boucles'[b] # Arret
  <2>1. boucles'[b] = [boucles[b] EXCEPT !.pas = "plafond"]
    BY <1>3 DEF TypeOK, CompterEchec
  <2>2. /\ boucles'[b].pas = "plafond" /\ boucles'[b].uid = boucles[b].uid
        /\ boucles'[b].op = boucles[b].op /\ boucles'[b].reste = boucles[b].reste
        /\ boucles[b].pas = "attente"
    BY <1>b, <2>1 DEF Boucle, CompterEchec
  <2>3. Reprise(b)' = Reprise(b)
    BY <2>2 DEF Reprise
  <2>4. BoucleOrdonnee(b)
    BY DEF Ordres
  <2> QED
    BY <1>1, <2>2, <2>3, <2>4 DEF BoucleOrdonnee, EnFile, Prise
<1> QED
  BY <1>2, <1>3

LEMMA OrdresPas ==
  ASSUME IFile, [Next]_vars
  PROVE  Ordres'
<1>i. TypeOK /\ Attentes /\ Ordres
  BY DEF IFile
<1>c. Chronique
  BY <1>i, ChroniquePas
<1>1. CASE \E b \in Boucles : Tour(b)
  <2>1. PICK b \in Boucles : Tour(b)
    BY <1>1
  <2>2. \A x \in Boucles \ {b} : boucles'[x] = boucles[x]
    BY <1>i, <2>1 DEF TypeOK, Tour, Lancer, Poster, Retirer, Enterrer, CompterEchec, Avancer
  <2>3. BoucleOrdonnee(b)'
    <3>1. CASE Retirer(b) \/ Enterrer(b)
      <4>1. boucles[b].pas \in {"attente", "plafond"} /\ Avancer(b)
        BY <3>1 DEF Retirer, Enterrer
      <4>2. boucles[b].op \in Ops
        BY <1>i, <4>1 DEF Attentes, BoucleTient
      <4>3. PICK x \in Ops : x = boucles[b].op
        BY <4>2
      <4>4. ~EnFile(x)'
        BY <1>i, <3>1, <4>3 DEF TypeOK, Retirer, Enterrer, Sortir, Poser, EnFile, Courante
      <4> QED
        BY <1>i, <1>c, <4>1, <4>3, <4>4, OrdreAvancer
    <3> QED
      BY <1>i, <2>1, <3>1, OrdreLancer, OrdrePoster, OrdreCompter DEF Tour
  <2> QED
    BY <1>i, <1>c, <2>2, <2>3, OrdreStable DEF Ordres, Chronique
<1>2. CASE Fermer
  <2>1. ASSUME NEW b \in Boucles PROVE BoucleOrdonnee(b)'
    <3>1. boucles'[b] = Arret
      BY <1>2 DEF Fermer
    <3> QED
      BY <3>1 DEF BoucleOrdonnee, Reprise, Arret
  <2> QED
    BY <1>c, <2>1 DEF Ordres, Chronique
<1>3. CASE ~Fermer /\ ~ \E b \in Boucles : Tour(b)
  <2>1. UNCHANGED boucles
    BY <1>3 DEF Next, vars, client, Connexion, Deconnexion, SaisirHorsLigne, SaisirEnLigne,
       FinirEnvoi, Purger, Traiter, Refuser, Perdre, Rafraichir, Expirer, TraiterErrante, Tour
  <2> QED
    BY <1>i, <1>c, <2>1, OrdreStable DEF Ordres, Chronique
<1> QED
  BY <1>1, <1>2, <1>3

----------------------------------------------------------------------------
(* The invariant.                                                           *)
LEMMA InvariantInit == Init => IFile
<1> SUFFICES ASSUME Init PROVE IFile
  OBVIOUS
<1>1. TypeOK
  BY TypesInit
<1>2. Courriers /\ Attentes
  BY DEF Init, Courriers, Courrier, Attentes, EnvoiTient, BoucleTient, Vole, Rien, Arret, Appelants
<1>3. Unicite
  BY DEF Init, Unicite
<1>4. ArgentJamaisAbandonne
  BY FileConstantes DEF Init, ArgentJamaisAbandonne
<1>5. Ordres
  BY DEF Init, Ordres, BoucleOrdonnee, Reprise, Arret
<1> QED
  BY <1>1, <1>2, <1>3, <1>4, <1>5 DEF IFile

(* IFile is an inductive invariant of the queue, the network and the server.*)
THEOREM Invariant == Spec => []IFile
<1>1. Init => IFile
  BY InvariantInit
<1>2. IFile /\ [Next]_vars => IFile'
  BY TypesPas, ServeurPas, AttentesPas, ArgentPas, OrdresPas DEF IFile
<1> QED
  BY <1>1, <1>2, PTL DEF Spec

(* Every reachable state of the queue is well typed.                        *)
THEOREM TypeCorrect == Spec => []TypeOK
<1>1. IFile => TypeOK
  BY DEF IFile
<1> QED
  BY <1>1, Invariant, PTL

(* A sale or an expense leaves the queue for the dead letters only when the *)
(* server refused it, however many times the network fails (ARG-03).        *)
THEOREM ArgentToujoursGarde == Spec => []ArgentJamaisAbandonne
<1>1. IFile => ArgentJamaisAbandonne
  BY DEF IFile
<1> QED
  BY <1>1, Invariant, PTL

(* The break of synchroniser keeps the order of the queue, however many     *)
(* loops overlap: what is being replayed is the oldest of its merchant.     *)
THEOREM OrdreToujoursGarde == Spec => []OrdreDeFile
<1>1. ASSUME IFile PROVE OrdreDeFile
  <2> SUFFICES ASSUME NEW b \in Boucles, boucles[b].pas = "attente",
                      NEW o \in Ops, EnFile(o), proprio[o] = proprio[boucles[b].op]
               PROVE  ts[boucles[b].op] <= ts[o]
    BY DEF OrdreDeFile, Courante
  <2>1. boucles[b].op \in Ops /\ boucles[b].op \in Reprise(b)
    BY <1>1 DEF IFile, Attentes, BoucleTient, Reprise
  <2>2. BoucleOrdonnee(b)
    BY <1>1 DEF IFile, Ordres
  <2>3. proprio[o] = boucles[b].uid
    BY <2>1, <2>2 DEF BoucleOrdonnee
  <2>4. CASE o \in Reprise(b)
    <3>1. o \in boucles[b].reste \/ o = boucles[b].op
      BY <2>4 DEF Reprise
    <3>2. ts[o] \in Nat
      BY <1>1 DEF IFile, TypeOK
    <3> QED
      BY <2>2, <3>1, <3>2 DEF BoucleOrdonnee
  <2>5. CASE o \notin Reprise(b)
    BY <2>1, <2>2, <2>3, <2>5 DEF BoucleOrdonnee
  <2> QED
    BY <2>4, <2>5
<1> QED
  BY <1>1, Invariant, PTL

----------------------------------------------------------------------------
(* The queue implements the promise.                                        *)
Etat == [o \in Ops |-> Sort(place[o])]

LEMMA PromesseInit == Init => P!Init
BY DEF Init, P!Init, Sort

(* A move of one operation is a move of the promise.                        *)
LEMMA PoserPasse ==
  ASSUME TypeOK, NEW o \in Ops, NEW p \in Places, Poser(o, p)
  PROVE  Etat' = [Etat EXCEPT ![o] = Sort(p)]
<1>1. place' = [place EXCEPT ![o] = p]
  BY DEF Poser
<1>2. ASSUME NEW x \in Ops PROVE Sort(place'[x]) = [Etat EXCEPT ![o] = Sort(p)][x]
  BY <1>1 DEF TypeOK, Etat
<1>3. Etat' = [x \in Ops |-> Sort(place'[x])]
  BY DEF Etat, Sort
<1> QED
  BY <1>2, <1>3 DEF Etat

LEMMA Immobile ==
  ASSUME UNCHANGED <<place, effets>>
  PROVE  UNCHANGED <<Etat, effets>>
BY DEF Etat

(* What the server does is done once, or was done before.                   *)
LEMMA ExecuterPromesse ==
  ASSUME TypeOK, Unicite, NEW q \in Requete, Sincere(q), Executer(q), UNCHANGED place
  PROVE  P!Next \/ UNCHANGED <<Etat, effets>>
<1>1. q.op \in Ops /\ q.compte \in Comptes /\ place[q.op] # "neuve"
  BY DEF Requete, Executer, Sincere
<1>2. UNCHANGED Etat
  BY DEF Etat
<1>3. CASE UNCHANGED effets
  BY <1>2, <1>3
<1>4. CASE /\ effets[<<q.op, q.compte>>] = 0
           /\ effets' = [effets EXCEPT ![<<q.op, q.compte>>] = 1]
  <2>1. Etat[q.op] # "neuve"
    BY <1>1 DEF Etat, Sort
  <2>2. P!Faire(q.op, q.compte)
    BY <1>2, <1>4, <2>1 DEF P!Faire, Etat
  <2> QED
    BY <1>1, <2>2 DEF P!Next
<1> QED
  BY <1>3, <1>4, ExecuterUnicite

LEMMA PromessePas ==
  ASSUME IFile, [Next]_vars
  PROVE  P!Next \/ UNCHANGED <<Etat, effets>>
<1>i. TypeOK /\ Courriers /\ Unicite /\ Attentes
  BY DEF IFile
<1> USE DEF Places
<1>1. CASE \/ \E c \in Comptes : Connexion(c)
           \/ Deconnexion \/ UNCHANGED vars
           \/ \E a \in Appelants : \/ Refuser(a) \/ Perdre(a) \/ Rafraichir(a) \/ Expirer(a)
           \/ \E b \in Boucles : Lancer(b) \/ Poster(b) \/ CompterEchec(b)
  BY <1>1, Immobile DEF Connexion, Deconnexion, vars, client, serveur, Refuser, Perdre,
     Rafraichir, Expirer, Lancer, Poster, CompterEchec
<1>2. CASE \E a \in Appelants : Traiter(a)
  <2>1. PICK a \in Appelants : Traiter(a)
    BY <1>2
  <2>2. Vole(a) /\ UNCHANGED place
    BY <2>1 DEF Traiter, Repondu, Vole, client
  <2>3. appels[a].requete \in Requete /\ Sincere(appels[a].requete)
    BY <1>i, <2>2, RequeteType DEF Courriers, Courrier
  <2> QED
    BY <1>i, <2>1, <2>2, <2>3, ExecuterPromesse DEF Traiter
<1>3. CASE \E q \in errantes : TraiterErrante(q)
  <2>1. PICK q \in errantes : TraiterErrante(q)
    BY <1>3
  <2>2. q \in Requete /\ Sincere(q)
    BY <1>i DEF TypeOK, Courriers
  <2> QED
    BY <1>i, <2>1, <2>2, ExecuterPromesse DEF TraiterErrante, client
<1>4. CASE \E o \in Ops : SaisirHorsLigne(o) \/ SaisirEnLigne(o)
  <2>1. PICK o \in Ops : SaisirHorsLigne(o) \/ SaisirEnLigne(o)
    BY <1>4
  <2>2. Etat[o] = "neuve" /\ UNCHANGED effets
    BY <2>1 DEF Etat, Sort, SaisirHorsLigne, SaisirEnLigne, serveur
  <2>3. CASE SaisirHorsLigne(o)
    <3>1. Etat' = [Etat EXCEPT ![o] = "gardee"]
      BY <1>i, <2>3, PoserPasse DEF SaisirHorsLigne, Enfiler, Sort
    <3> QED
      BY <2>2, <3>1 DEF P!Next, P!Garder, P!Passer, Etat
  <2>4. CASE SaisirEnLigne(o)
    <3>1. Etat' = [Etat EXCEPT ![o] = "envoi"]
      BY <1>i, <2>4, PoserPasse DEF SaisirEnLigne, Sort
    <3> QED
      BY <2>2, <3>1 DEF P!Next, P!Prendre, P!Passer, Etat
  <2> QED
    BY <2>1, <2>3, <2>4
<1>5. CASE \E o \in Ops : FinirEnvoi(o)
  <2>1. PICK o \in Ops : FinirEnvoi(o)
    BY <1>5
  <2>2. Etat[o] = "envoi" /\ UNCHANGED effets
    BY <2>1 DEF Etat, Sort, FinirEnvoi, serveur
  <2>3. CASE Repondu(o, "ok") /\ Poser(o, "confirmee")
    <3>1. Etat' = [Etat EXCEPT ![o] = "acquise"]
      BY <1>i, <2>3, PoserPasse DEF Sort
    <3>2. Vole(o) /\ o \in Appelants
      BY <2>3 DEF Repondu, Vole, Appelants
    <3>3. Fait(o)
      BY <1>i, <2>3, <3>2 DEF Courriers, Courrier, Attentes, EnvoiTient
    <3> QED
      BY <2>2, <3>1, <3>3 DEF P!Next, P!Acquerir, P!Passer, Etat, Fait
  <2>4. CASE Poser(o, "rendue")
    <3>1. Etat' = [Etat EXCEPT ![o] = "rendue"]
      BY <1>i, <2>4, PoserPasse DEF Sort
    <3> QED
      BY <2>2, <3>1 DEF P!Next, P!Rendre, P!Passer, Etat
  <2>5. CASE Enfiler(o, proprio[o])
    <3>1. Etat' = [Etat EXCEPT ![o] = "gardee"]
      BY <1>i, <2>5, PoserPasse DEF Enfiler, Sort
    <3> QED
      BY <2>2, <3>1 DEF P!Next, P!Garder, P!Passer, Etat
  <2> QED
    BY <2>1, <2>3, <2>4, <2>5 DEF FinirEnvoi
<1>6. CASE \E o \in Ops : Purger(o)
  <2>1. PICK o \in Ops : Purger(o)
    BY <1>6
  <2>2. Etat' = [Etat EXCEPT ![o] = "rendue"] /\ UNCHANGED effets
    BY <1>i, <2>1, PoserPasse DEF Purger, Sort, serveur
  <2>3. Etat[o] = "rendue"
    BY <2>1 DEF Etat, Sort, Purger
  <2> QED
    BY <2>2, <2>3 DEF Etat
<1>7. CASE \E b \in Boucles : Retirer(b)
  <2>1. PICK b \in Boucles : Retirer(b)
    BY <1>7
  <2>2. boucles[b].op \in Ops /\ UNCHANGED effets
    BY <1>i, <2>1 DEF Attentes, BoucleTient, Retirer, serveur
  <2>3. CASE EnFile(boucles[b].op)
    <3>1. Etat' = [Etat EXCEPT ![boucles[b].op] = "acquise"]
      BY <1>i, <2>1, <2>2, <2>3, PoserPasse DEF Retirer, Sortir, Courante, Sort
    <3>2. Vole(b) /\ b \in Appelants
      BY <2>1 DEF Retirer, Repondu, Vole, Appelants
    <3>3. Fait(boucles[b].op)
      BY <1>i, <2>1, <3>2 DEF Courriers, Courrier, Attentes, BoucleTient, Retirer
    <3>4. Etat[boucles[b].op] = "gardee"
      BY <2>2, <2>3 DEF Etat, Sort, EnFile
    <3> QED
      BY <2>2, <3>1, <3>3, <3>4 DEF P!Next, P!Acquerir, P!Passer, Etat, Fait
  <2>4. CASE ~EnFile(boucles[b].op)
    BY <2>1, <2>2, <2>4, Immobile DEF Retirer, Sortir, Courante
  <2> QED
    BY <2>3, <2>4
<1>8. CASE \E b \in Boucles : Enterrer(b)
  <2>1. PICK b \in Boucles : Enterrer(b)
    BY <1>8
  <2>2. boucles[b].op \in Ops /\ UNCHANGED effets
    BY <1>i, <2>1 DEF Attentes, BoucleTient, Enterrer, serveur
  <2>3. CASE EnFile(boucles[b].op)
    <3>1. Etat' = [Etat EXCEPT ![boucles[b].op] = "rendue"]
      BY <1>i, <2>1, <2>2, <2>3, PoserPasse DEF Enterrer, Sortir, Courante, Sort
    <3>2. Etat[boucles[b].op] = "gardee"
      BY <2>2, <2>3 DEF Etat, Sort, EnFile
    <3> QED
      BY <2>2, <3>1, <3>2 DEF P!Next, P!Rendre, P!Passer, Etat
  <2>4. CASE ~EnFile(boucles[b].op)
    BY <2>1, <2>2, <2>4, Immobile DEF Enterrer, Sortir, Courante
  <2> QED
    BY <2>3, <2>4
<1>9. CASE Fermer
  <2> DEFINE S == {o \in Ops : place[o] = "directe"}
  <2>1. \A o \in S : Etat[o] = "envoi"
    BY DEF Etat, Sort
  <2>2. place' = [o \in Ops |-> IF o \in S THEN "oubliee" ELSE place[o]] /\ UNCHANGED effets
    BY <1>9 DEF Fermer, serveur
  <2>3. Etat' = [o \in Ops |-> IF o \in S THEN "oubliee" ELSE Etat[o]]
    BY <2>2 DEF Etat, Sort
  <2>4. P!Oublier(S)
    BY <2>1, <2>2, <2>3 DEF P!Oublier, Etat
  <2> QED
    BY <2>4 DEF P!Next
<1> QED
  BY <1>1, <1>2, <1>3, <1>4, <1>5, <1>6, <1>7, <1>8, <1>9 DEF Next, Tour

(* The queue, its overlapping loops, the network that loses answers and     *)
(* delivers late, the restarts and the server's keys together implement the *)
(* promise: an operation entered is done at most once in an account, and    *)
(* leaves the queue only done or given back.                                *)
THEOREM PromesseToujoursTenue == Spec => PromesseTenue
<1>1. Init => P!Init
  BY PromesseInit
<1>2. IFile /\ [Next]_vars => [P!Next]_<<Etat, effets>>
  BY PromessePas
<1> QED
  BY <1>1, <1>2, Invariant, PTL DEF Spec, PromesseTenue, P!Spec, Etat
=============================================================================

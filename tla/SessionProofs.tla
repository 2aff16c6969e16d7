---------------------------- MODULE SessionProofs ----------------------------
(***************************************************************************)
(* For any number of telephones, requests and handlers, and any limit of    *)
(* sessions: unless her tokens were marked used by hand, only a refresh     *)
(* that was cut short is taken for a theft, and a request never fails for   *)
(* an expired token alone.                                                  *)
(*                                                                          *)
(* Neither is inductive.  The server looks a token up, marks it, revokes    *)
(* and saves in separate statements, without a lock; what keeps two         *)
(* handlers from presenting the same token is the promise of the telephone. *)
(* Sain says who holds which token meanwhile, as long as no refresh was     *)
(* lost; Excuse says that a session in trouble has a revoked token nobody   *)
(* holds any more, which is the witness EchecJustifie asks for.             *)
(***************************************************************************)
EXTENDS Session, SommesTheorems, SequenceTheorems

----------------------------------------------------------------------------
(* The inductive invariant.                                                 *)

(* A handler that has a token in hand: received, or to be given.            *)
Tient(r) == traitement[r].pas \in {"chercher", "marquer", "succes", "echec"}

Presente(r) == traitement[r].pas \in {"chercher", "marquer", "echec"}

Rotation(r) == traitement[r].pas # "libre" /\ traitement[r].genre = "rotation"

(* A login presents no token.                                               *)
EntreeDroite ==
  \A r \in Traitements :
    traitement[r].genre = "entree" => ~Presente(r) /\ ~Au(r, "compromis")

JetonDonne ==
  \A r \in Traitements :
    traitement[r].pas \in {"marquer", "succes"} => traitement[r].jeton # Aucun

JetonsConnus ==
  /\ \A t \in Telephones : rafraichi[t] \in Jetons \cup {Aucun}
  /\ \A r \in Traitements : traitement[r].jeton \in Jetons \cup {Aucun}

ConnecteeArmee == \A t \in Telephones : connectee[t] => rafraichi[t] # Aucun

RejeuFrais == \A q \in Requetes : requete[q].pas = "rejeu" => requete[q].acces = "valide"

Base == EntreeDroite /\ JetonDonne /\ JetonsConnus /\ ConnecteeArmee /\ RejeuFrais

(* The promise of a telephone and the rotation it waits for, one to one.    *)
UnVerrou ==
  /\ \A r \in Traitements : Rotation(r) => promesse[traitement[r].tel] = r
  /\ \A t \in Telephones :
       promesse[t] # Aucun => Rotation(promesse[t]) /\ traitement[promesse[t]].tel = t

(* A token is stored on one telephone and in the hands of one handler; if   *)
(* both, that handler presents it for that telephone.                       *)
UneMemoire ==
  \A t, u \in Telephones : rafraichi[t] = rafraichi[u] /\ rafraichi[t] # Aucun => t = u

UnPorteur ==
  \A r, s \in Traitements :
    Tient(r) /\ Tient(s) /\ traitement[r].jeton = traitement[s].jeton
      /\ traitement[r].jeton # Aucun => r = s

PorteurDuTelephone ==
  \A r \in Traitements, t \in Telephones :
    Tient(r) /\ traitement[r].jeton = rafraichi[t] /\ rafraichi[t] # Aucun =>
      Presente(r) /\ traitement[r].tel = t

(* A token that is presented, or about to be given, has not served.         *)
JamaisServi ==
  \A r \in Traitements :
    traitement[r].pas \in {"chercher", "succes"} /\ traitement[r].jeton # Aucun =>
      jetons[traitement[r].jeton] # "use"

(* A stored token that served is being replaced.                            *)
UseEnCours ==
  \A t \in Telephones : rafraichi[t] # Aucun /\ jetons[rafraichi[t]] = "use" =>
    /\ promesse[t] # Aucun
    /\ traitement[promesse[t]].pas \in {"compter", "revoquer", "enregistrer", "succes"}

Calme == ~compromission /\ \A r \in Traitements : ~Au(r, "compromis")

Sain ==
  Calme /\ UnVerrou /\ UneMemoire /\ UnPorteur /\ PorteurDuTelephone /\ JamaisServi /\ UseEnCours

(* A token that was revoked, in nobody's hands: it stays as it is.          *)
Perdu(j) ==
  /\ jetons[j] = "revoque"
  /\ \A t \in Telephones : rafraichi[t] # j
  /\ \A r \in Traitements : Tient(r) => traitement[r].jeton # j

Mort == \E j \in Jetons : Perdu(j)

SansEchec == \A q \in Requetes : requete[q].pas # "echec"

Connectees ==
  \A q \in Requetes :
    requete[q].pas \in {"envoi", "attente", "rejeu"} => connectee[requete[q].tel]

RechercheArmee == \A r \in Traitements : Au(r, "chercher") => traitement[r].jeton # Aucun

RefusJuste ==
  \A r \in Traitements : Au(r, "echec") =>
    traitement[r].jeton # Aucun /\ jetons[traitement[r].jeton] = "revoque"

Justes == SansEchec /\ Connectees /\ RechercheArmee /\ RefusJuste

Excuse == Mort \/ Justes

SInv ==
  /\ TypeOK /\ Base
  /\ doitChanger \/ reinit => coupee
  /\ pertes = 0 /\ ~coupee => Sain
  /\ pertes = 0 /\ ~coupee /\ ~depart /\ ~suspendu => Excuse

----------------------------------------------------------------------------
(* Tokens and handlers.                                                     *)

LesPas == {"libre", "chercher", "compromis", "marquer", "compter", "revoquer",
           "enregistrer", "succes", "echec"}

Ailleurs(r) == \A s \in Traitements \ {r} : traitement'[s] = traitement[s]

(* The tokens are numbered from 1, and Aucun is none of them.               *)
LEMMA Numeros ==
  ASSUME TypeOK
  PROVE  /\ Len(jetons) \in Nat /\ Jetons = 1..Len(jetons)
         /\ Aucun \notin Jetons /\ \A j \in Jetons : j \in Nat /\ jetons[j] \in Etats
<1>1. jetons \in Seq(Etats)
  BY DEF TypeOK
<1>2. Len(jetons) \in Nat /\ Jetons = 1..Len(jetons)
  BY <1>1 DEF Jetons
<1>3. \A j \in 1..Len(jetons) : j \in Nat /\ j # 0 /\ jetons[j] \in Etats
  BY <1>1, <1>2, ElementOfSeq
<1> QED BY <1>2, <1>3 DEF Aucun

(* A token by token update of the table keeps its rows.                     *)
LEMMA MemesJetons ==
  ASSUME TypeOK, jetons' \in [Jetons -> Etats]
  PROVE  jetons' \in Seq(Etats) /\ Jetons' = Jetons
<1>1. Len(jetons) \in Nat /\ Jetons = 1..Len(jetons)
  BY Numeros
<1>2. jetons' \in [1..Len(jetons) -> Etats]
  BY <1>1
<1>3. jetons' \in Seq(Etats)
  BY <1>1, <1>2, SeqDef
<1>4. Jetons' = Jetons
  BY <1>1, <1>2 DEF Jetons
<1> QED BY <1>3, <1>4

(* A finite non-empty set of numbers has a least one.                       *)
LEMMA PlusPetit ==
  ASSUME NEW S, IsFiniteSet(S), S # {}
  PROVE  S \subseteq Nat => \E x \in S : \A y \in S : x <= y
<1> DEFINE Avant(x) == {y \in S : y < x}
           B == {Avant(x) : x \in S}
<1>1. B \in SUBSET (SUBSET S) /\ B # {}
  OBVIOUS
<1>2. PICK T \in B : \A U \in B : ~(U \subseteq T /\ U # T)
  <2> HIDE DEF B
  <2> QED BY <1>1, MinimalSubset
<1>3. PICK x \in S : T = Avant(x)
  OBVIOUS
<1>4. ASSUME S \subseteq Nat, NEW y \in S, y < x PROVE FALSE
  <2>1. y \in Avant(x) /\ y \notin Avant(y)
    BY <1>4
  <2>2. Avant(y) \subseteq Avant(x)
    <3> SUFFICES ASSUME NEW z \in S, z < y PROVE z < x
      OBVIOUS
    <3>1. x \in Nat /\ y \in Nat /\ z \in Nat
      BY <1>4
    <3> QED BY <1>4, <3>1
  <2> QED BY <1>2, <1>3, <2>1, <2>2
<1> QED BY <1>4

(* The handler a request is given to was free.                              *)
LEMMA LibreChoisi ==
  ASSUME Libres # {}
  PROVE  Libre \in Traitements /\ Au(Libre, "libre") /\ Libre \in Nat /\ Libre # Aucun
<1>1. Libres \subseteq Traitements /\ Traitements \subseteq Nat \ {0} /\ IsFiniteSet(Traitements)
  BY SessionConstantes DEF Libres
<1>2. IsFiniteSet(Libres) /\ Libres \subseteq Nat
  BY <1>1, FS_Subset
<1>3. \E x \in Libres : \A y \in Libres : x <= y
  BY <1>2, PlusPetit
<1>4. Libre \in Libres
  BY <1>3 DEF Libre
<1> QED BY <1>1, <1>4 DEF Libres, Au, Aucun

(* A step of the server moves one handler, of the same telephone and kind.  *)
LEMMA EffetPas ==
  ASSUME TypeOK, NEW r \in Traitements, NEW p \in LesPas, Pas(r, p)
  PROVE  /\ traitement' \in [Traitements -> Traitement] /\ Ailleurs(r)
         /\ traitement'[r].pas = p /\ traitement'[r].jeton = traitement[r].jeton
         /\ traitement'[r].tel = traitement[r].tel /\ traitement'[r].genre = traitement[r].genre
<1> DEFINE h == [traitement[r] EXCEPT !.pas = p]
<1>1. traitement \in [Traitements -> Traitement] /\ traitement[r] \in Traitement
  BY DEF TypeOK
<1>2. traitement' = [traitement EXCEPT ![r] = h]
  BY <1>1, Zenon DEF Pas
<1>3. /\ h \in Traitement /\ h.pas = p /\ h.jeton = traitement[r].jeton
      /\ h.tel = traitement[r].tel /\ h.genre = traitement[r].genre
  BY <1>1 DEF Traitement, LesPas
<1> HIDE DEF h
<1> QED BY <1>1, <1>2, <1>3 DEF Ailleurs

(* ... to a handler that begins.                                            *)
LEMMA EffetDemarrer ==
  ASSUME TypeOK, NEW t \in Telephones, NEW g \in {"rotation", "entree"}, NEW j \in Nat,
         NEW p \in LesPas, Demarrer(t, g, j, p)
  PROVE  /\ Libre \in Traitements /\ Au(Libre, "libre") /\ Libre # Aucun
         /\ traitement' \in [Traitements -> Traitement] /\ Ailleurs(Libre)
         /\ traitement'[Libre].pas = p /\ traitement'[Libre].jeton = j
         /\ traitement'[Libre].tel = t /\ traitement'[Libre].genre = g
<1>0. Libre \in Traitements /\ Au(Libre, "libre") /\ Libre # Aucun
  BY LibreChoisi DEF Demarrer
<1> DEFINE h == [pas |-> p, tel |-> t, genre |-> g, jeton |-> j, retirer |-> {}]
<1>1. traitement \in [Traitements -> Traitement]
  BY DEF TypeOK
<1>2. traitement' = [traitement EXCEPT ![Libre] = h]
  BY DEF Demarrer
<1>3. h \in Traitement /\ h.pas = p /\ h.jeton = j /\ h.tel = t /\ h.genre = g
  BY DEF Traitement, LesPas
<1> HIDE DEF h
<1> QED BY <1>0, <1>1, <1>2, <1>3 DEF Ailleurs

(* ... to a handler that is done.                                           *)
LEMMA EffetLiberer ==
  ASSUME TypeOK, NEW r \in Traitements, Liberer(r)
  PROVE  /\ traitement' \in [Traitements -> Traitement] /\ Ailleurs(r)
         /\ traitement'[r].pas = "libre" /\ traitement'[r].jeton = Aucun
         /\ traitement'[r].genre = "rotation"
<1>1. traitement \in [Traitements -> Traitement] /\ traitement[r] \in Traitement
  BY DEF TypeOK
<1>2. UnTelephone \in Telephones
  BY <1>1 DEF UnTelephone, Traitement
<1>3. Repos \in Traitement
  BY <1>2 DEF Repos, Traitement, Aucun
<1>4. traitement' = [traitement EXCEPT ![r] = Repos]
  BY DEF Liberer
<1>5. Repos.pas = "libre" /\ Repos.jeton = Aucun /\ Repos.genre = "rotation"
  BY DEF Repos
<1> QED BY <1>1, <1>3, <1>4, <1>5 DEF Ailleurs

(* A statement of the server, on handlers and tokens.                       *)
Inchangees == UNCHANGED <<memoire, promesse, requete, compte, bornes>>

LEMMA EffetMarquer ==
  ASSUME TypeOK, Base, NEW r \in Traitements, Marquer(r)
  PROVE  /\ traitement[r].jeton \in Jetons /\ jetons' \in Seq(Etats) /\ Jetons' = Jetons
         /\ jetons'[traitement[r].jeton] = "use"
         /\ \A j \in Jetons \ {traitement[r].jeton} : jetons'[j] = jetons[j]
<1> DEFINE j == traitement[r].jeton
<1>1. j \in Jetons
  BY DEF Base, JetonDonne, JetonsConnus, Marquer, Au
<1>2. jetons' = [jetons EXCEPT ![j] = "use"]
  BY DEF Marquer
<1>3. jetons \in [Jetons -> Etats]
  BY Numeros, SeqDef DEF TypeOK, Jetons
<1> HIDE DEF j
<1>4. jetons' \in [Jetons -> Etats]
  BY <1>1, <1>2, <1>3 DEF Etats
<1>5. jetons' \in Seq(Etats) /\ Jetons' = Jetons
  BY <1>4, MemesJetons
<1> QED BY <1>1, <1>2, <1>3, <1>5 DEF j

LEMMA EffetRevoquer ==
  ASSUME TypeOK, NEW r \in Traitements, Revoquer(r)
  PROVE  /\ jetons' \in Seq(Etats) /\ Jetons' = Jetons
         /\ \A j \in Jetons : jetons'[j] = jetons[j]
                              \/ (jetons[j] = "actif" /\ jetons'[j] = "revoque")
<1>1. jetons' = [j \in Jetons |->
        IF j \in traitement[r].retirer /\ jetons[j] = "actif" THEN "revoque" ELSE jetons[j]]
  BY DEF Revoquer
<1>2. jetons' \in [Jetons -> Etats]
  BY <1>1, Numeros DEF Etats
<1> QED BY <1>1, <1>2, MemesJetons

LEMMA EffetUserTous ==
  ASSUME TypeOK, UserTous
  PROVE  jetons' \in Seq(Etats) /\ Jetons' = Jetons
<1>1. jetons' = [j \in Jetons |-> IF jetons[j] = "actif" THEN "use" ELSE jetons[j]]
  BY DEF UserTous
<1>2. jetons' \in [Jetons -> Etats]
  BY <1>1, Numeros DEF Etats
<1> QED BY <1>2, MemesJetons

LEMMA EffetRevoquerSessions ==
  ASSUME TypeOK, NEW t \in Telephones, RevoquerSessions(t)
  PROVE  /\ jetons' \in Seq(Etats) /\ Jetons' = Jetons
         /\ \A j \in Jetons : jetons'[j] = jetons[j]
                              \/ (jetons[j] = "actif" /\ jetons'[j] = "revoque")
<1>1. PICK S \in {{j} : j \in Actifs} \cup {Actifs} :
        jetons' = [j \in Jetons |-> IF j \in S THEN "revoque" ELSE jetons[j]]
  BY DEF RevoquerSessions
<1>2. \A j \in S : j \in Jetons /\ jetons[j] = "actif"
  BY DEF Actifs
<1>3. jetons' \in [Jetons -> Etats]
  BY <1>1, Numeros DEF Etats
<1> QED BY <1>1, <1>2, <1>3, MemesJetons

LEMMA EffetEnregistrer ==
  ASSUME TypeOK, NEW r \in Traitements, Enregistrer(r)
  PROVE  /\ jetons' \in Seq(Etats) /\ Len(jetons) + 1 \notin Jetons
         /\ Jetons' = Jetons \cup {Len(jetons) + 1}
         /\ jetons'[Len(jetons) + 1] = "actif" /\ \A j \in Jetons : jetons'[j] = jetons[j]
         /\ traitement' \in [Traitements -> Traitement] /\ Ailleurs(r)
         /\ traitement'[r].pas = "succes" /\ traitement'[r].jeton = Len(jetons) + 1
         /\ traitement'[r].tel = traitement[r].tel /\ traitement'[r].genre = traitement[r].genre
<1> DEFINE n == Len(jetons)
           h == [traitement[r] EXCEPT !.pas = "succes", !.jeton = n + 1, !.retirer = {}]
<1>1. n \in Nat /\ Jetons = 1..n /\ jetons \in Seq(Etats) /\ "actif" \in Etats
  BY Numeros DEF TypeOK, Etats
<1>2. jetons' = Append(jetons, "actif")
  BY DEF Enregistrer
<1>3. /\ jetons' \in Seq(Etats) /\ Len(jetons') = n + 1 /\ jetons'[n + 1] = "actif"
      /\ \A j \in 1..n : jetons'[j] = jetons[j]
  BY <1>1, <1>2
<1>4. Jetons' = 1..(n + 1)
  BY <1>3 DEF Jetons
<1>5. traitement \in [Traitements -> Traitement] /\ traitement[r] \in Traitement
  BY DEF TypeOK
<1>6. traitement' = [traitement EXCEPT ![r] = h]
  BY <1>5, Zenon DEF Enregistrer
<1>7. /\ h \in Traitement /\ h.pas = "succes" /\ h.jeton = n + 1
      /\ h.tel = traitement[r].tel /\ h.genre = traitement[r].genre
  <2> HIDE DEF n
  <2>1. n + 1 \in Nat
    BY <1>1
  <2> QED BY <2>1, <1>5 DEF Traitement
<1>8. 1..(n + 1) = (1..n) \cup {n + 1} /\ n + 1 \notin 1..n
  BY <1>1
<1> HIDE DEF h, n
<1> QED BY <1>1, <1>3, <1>4, <1>5, <1>6, <1>7, <1>8 DEF Ailleurs, n

(* Whatever the statement, the same handler goes on and no row is lost.     *)
LEMMA EffetServir ==
  ASSUME TypeOK, Base, NEW r \in Traitements, Servir(r)
  PROVE  /\ jetons' \in Seq(Etats) /\ Jetons \subseteq Jetons'
         /\ traitement' \in [Traitements -> Traitement] /\ Ailleurs(r)
         /\ traitement[r].pas # "libre" /\ traitement'[r].pas # "libre"
         /\ traitement'[r].tel = traitement[r].tel /\ traitement'[r].genre = traitement[r].genre
         /\ ~Enregistrer(r) => traitement'[r].jeton = traitement[r].jeton
         /\ Inchangees /\ compromission' \in BOOLEAN
<1>0. Inchangees /\ compromission \in BOOLEAN
  BY DEF Servir, Inchangees, TypeOK
<1>1. CASE Enregistrer(r)
  BY <1>0, <1>1, EffetEnregistrer DEF Enregistrer, Au
<1>2. ASSUME NEW p \in LesPas, p # "libre", Pas(r, p), jetons' \in Seq(Etats), Jetons' = Jetons,
             ~Au(r, "libre"), compromission' \in BOOLEAN
      PROVE  \/ Enregistrer(r)
             \/ /\ jetons' \in Seq(Etats) /\ Jetons \subseteq Jetons'
                /\ traitement' \in [Traitements -> Traitement] /\ Ailleurs(r)
                /\ traitement[r].pas # "libre" /\ traitement'[r].pas # "libre"
                /\ traitement'[r].tel = traitement[r].tel
                /\ traitement'[r].genre = traitement[r].genre
                /\ traitement'[r].jeton = traitement[r].jeton
                /\ compromission' \in BOOLEAN
  BY <1>2, EffetPas DEF Au
<1>3. CASE Chercher(r)
  <2>1. /\ Suite(traitement[r].jeton) \in LesPas /\ Suite(traitement[r].jeton) # "libre"
    BY DEF Suite, LesPas
  <2>2. Jetons' = Jetons /\ jetons' \in Seq(Etats)
    BY <1>3 DEF Chercher, Jetons, TypeOK
  <2> QED BY <1>0, <1>1, <1>2, <1>3, <2>1, <2>2 DEF Chercher, Au
<1>4. CASE RevoquerTout(r)
  BY <1>0, <1>1, <1>2, <1>4, EffetUserTous DEF RevoquerTout, Au, LesPas
<1>5. CASE Marquer(r)
  BY <1>0, <1>1, <1>2, <1>5, EffetMarquer DEF Marquer, Au, LesPas
<1>6. CASE Revoquer(r)
  BY <1>0, <1>1, <1>2, <1>6, EffetRevoquer DEF Revoquer, Au, LesPas
<1>7. CASE Compter(r)
  <2> DEFINE h == [traitement[r] EXCEPT !.pas = "revoquer", !.retirer = EnTrop]
  <2>1. traitement \in [Traitements -> Traitement] /\ traitement[r] \in Traitement
    BY DEF TypeOK
  <2>2. EnTrop \in SUBSET Nat
    BY Numeros DEF EnTrop, Actifs
  <2>3. traitement' = [traitement EXCEPT ![r] = h]
    BY <1>7, <2>1, Zenon DEF Compter
  <2>4. /\ h \in Traitement /\ h.pas = "revoquer" /\ h.jeton = traitement[r].jeton
        /\ h.tel = traitement[r].tel /\ h.genre = traitement[r].genre
    BY <2>1, <2>2 DEF Traitement
  <2>5. Jetons' = Jetons /\ jetons' \in Seq(Etats) /\ traitement[r].pas # "libre"
    BY <1>7 DEF Compter, Jetons, TypeOK, Au
  <2> HIDE DEF h
  <2> QED BY <1>0, <1>1, <1>7, <2>1, <2>3, <2>4, <2>5 DEF Ailleurs, Compter
<1> QED BY <1>1, <1>3, <1>4, <1>5, <1>6, <1>7 DEF Servir

----------------------------------------------------------------------------
(* Types.                                                                   *)

LEMMA TypesInit == Init => TypeOK
<1> SUFFICES ASSUME Init PROVE TypeOK
  OBVIOUS
<1>1. jetons \in Seq(Etats)
  BY DEF Init
<1>2. traitement \in [Traitements -> Traitement]
  <2>1. UnTelephone \in Telephones
    BY SessionConstantes DEF UnTelephone
  <2>2. Repos \in Traitement
    BY <2>1 DEF Repos, Traitement, Aucun
  <2> QED BY <2>2 DEF Init
<1>3. UnTelephone \in Telephones
  BY SessionConstantes DEF UnTelephone
<1>4. SansEnvoi("neuve") \in Requete
  BY <1>3 DEF SansEnvoi, Requete
<1>5. requete \in [Requetes -> Requete]
  BY <1>4 DEF Init
<1>6. /\ connectee \in [Telephones -> BOOLEAN]
      /\ acces \in [Telephones -> {"aucun", "valide", "expire"}]
      /\ rafraichi \in [Telephones -> Nat]
      /\ promesse \in [Telephones -> Traitements \cup {Aucun}]
  BY DEF Init, Aucun
<1>7. {suspendu, doitChanger, reinit, coupee, compromission, depart} \subseteq BOOLEAN
  BY DEF Init
<1>8. echeances \in 0..MaxEcheances /\ pertes \in 0..MaxPertes /\ coupures \in 0..MaxPertes
  BY SessionConstantes DEF Init
<1> QED
  BY <1>1, <1>2, <1>5, <1>6, <1>7, <1>8 DEF TypeOK

(* A request that is over.                                                  *)
LEMMA SansEnvoiType ==
  ASSUME NEW p \in {"neuve", "fini", "echec"}
  PROVE  SansEnvoi(p) \in Requete /\ SansEnvoi(p).pas = p
<1>1. UnTelephone \in Telephones
  BY SessionConstantes DEF UnTelephone
<1> QED BY <1>1 DEF SansEnvoi, Requete

(* The tables of the telephone, one entry at a time.                        *)
LEMMA EffetOublier ==
  ASSUME TypeOK, NEW t \in Telephones, Oublier(t)
  PROVE  /\ connectee' \in [Telephones -> BOOLEAN]
         /\ acces' \in [Telephones -> {"aucun", "valide", "expire"}]
         /\ rafraichi' \in [Telephones -> Nat]
         /\ ~connectee'[t] /\ rafraichi'[t] = Aucun
         /\ \A u \in Telephones \ {t} :
              connectee'[u] = connectee[u] /\ rafraichi'[u] = rafraichi[u]
BY DEF TypeOK, Oublier, Aucun

LEMMA EffetRanger ==
  ASSUME TypeOK, NEW t \in Telephones, NEW j \in Nat, Ranger(t, j)
  PROVE  /\ acces' \in [Telephones -> {"aucun", "valide", "expire"}]
         /\ rafraichi' \in [Telephones -> Nat] /\ rafraichi'[t] = j
         /\ \A u \in Telephones \ {t} : rafraichi'[u] = rafraichi[u]
BY DEF TypeOK, Ranger

LEMMA EffetRejouer ==
  ASSUME TypeOK, NEW t \in Telephones, Rejouer(t, "valide")
  PROVE  /\ requete' \in [Requetes -> Requete]
         /\ \A q \in Requetes :
              \/ requete'[q] = requete[q]
              \/ /\ requete[q].pas = "attente" /\ requete'[q].pas = "rejeu"
                 /\ requete'[q].acces = "valide" /\ requete'[q].tel = requete[q].tel
<1>1. requete \in [Requetes -> Requete]
  BY DEF TypeOK
<1>2. ASSUME NEW q \in Requetes
      PROVE  LET x == [requete[q] EXCEPT !.pas = "rejeu", !.acces = "valide"]
             IN  x \in Requete /\ x.pas = "rejeu" /\ x.acces = "valide" /\ x.tel = requete[q].tel
  BY <1>1 DEF Requete
<1> QED BY <1>1, <1>2 DEF Rejouer, EnAttente

LEMMA EffetRenoncer ==
  ASSUME TypeOK, NEW t \in Telephones, Renoncer(t)
  PROVE  /\ requete' \in [Requetes -> Requete]
         /\ connectee' \in [Telephones -> BOOLEAN]
         /\ acces' \in [Telephones -> {"aucun", "valide", "expire"}]
         /\ rafraichi' \in [Telephones -> Nat]
         /\ \A q \in Requetes : requete'[q] = requete[q] \/ requete'[q].pas = "echec"
         /\ \/ UNCHANGED memoire /\ requete' = requete
            \/ Oublier(t)
         /\ \A q \in Requetes : requete'[q].pas \in {"envoi", "attente", "rejeu"} =>
              requete'[q] = requete[q]
<1>1. requete \in [Requetes -> Requete] /\ SansEnvoi("echec") \in Requete
      /\ SansEnvoi("echec").pas = "echec"
  BY SansEnvoiType DEF TypeOK
<1>2. requete' = [q \in Requetes |->
                   IF q \in EnAttente(t) THEN SansEnvoi("echec") ELSE requete[q]]
  BY DEF Renoncer
<1>3. /\ requete' \in [Requetes -> Requete]
      /\ \A q \in Requetes : requete'[q] = requete[q] \/ requete'[q].pas = "echec"
  BY <1>1, <1>2
<1>4. CASE EnAttente(t) # {}
  <2>1. Oublier(t)
    BY <1>4 DEF Renoncer
  <2> QED BY <1>3, <2>1, EffetOublier
<1>5. CASE EnAttente(t) = {}
  <2>1. UNCHANGED memoire
    BY <1>5 DEF Renoncer
  <2>2. requete' = requete
    BY <1>1, <1>2, <1>5
  <2> QED BY <1>3, <2>1, <2>2 DEF memoire, TypeOK
<1> QED BY <1>4, <1>5

(* A refresh starts when none is in progress.                               *)
LEMMA EffetRafraichir ==
  ASSUME TypeOK, NEW t \in Telephones, Rafraichir(t)
  PROVE  \/ promesse[t] # Aucun /\ UNCHANGED <<traitement, promesse>>
         \/ /\ promesse[t] = Aucun
            /\ Libre \in Traitements /\ Au(Libre, "libre") /\ Libre # Aucun
            /\ traitement' \in [Traitements -> Traitement] /\ Ailleurs(Libre)
            /\ traitement'[Libre].pas = "chercher" /\ traitement'[Libre].jeton = rafraichi[t]
            /\ traitement'[Libre].tel = t /\ traitement'[Libre].genre = "rotation"
            /\ promesse' \in [Telephones -> Traitements \cup {Aucun}]
            /\ promesse' = [promesse EXCEPT ![t] = Libre]
<1>1. CASE VerrouLibre(t)
  <2>1. rafraichi[t] \in Nat /\ "chercher" \in LesPas
        /\ promesse \in [Telephones -> Traitements \cup {Aucun}]
    BY DEF TypeOK, LesPas
  <2>2. Demarrer(t, "rotation", rafraichi[t], "chercher")
        /\ promesse' = [promesse EXCEPT ![t] = Libre] /\ promesse[t] = Aucun
    BY <1>1 DEF Rafraichir, VerrouLibre
  <2>3. /\ Libre \in Traitements /\ Au(Libre, "libre") /\ Libre # Aucun
        /\ traitement' \in [Traitements -> Traitement] /\ Ailleurs(Libre)
        /\ traitement'[Libre].pas = "chercher" /\ traitement'[Libre].jeton = rafraichi[t]
        /\ traitement'[Libre].tel = t /\ traitement'[Libre].genre = "rotation"
    BY <2>1, <2>2, EffetDemarrer
  <2>4. promesse' \in [Telephones -> Traitements \cup {Aucun}]
    BY <2>1, <2>2, <2>3
  <2> QED BY <2>2, <2>3, <2>4
<1>2. CASE ~VerrouLibre(t)
  BY <1>2 DEF Rafraichir, VerrouLibre
<1> QED BY <1>1, <1>2

----------------------------------------------------------------------------
(* The account and the bounds.                                              *)

Drapeaux == {suspendu, doitChanger, reinit, coupee, compromission, depart} \subseteq BOOLEAN

Compteurs ==
  /\ echeances \in 0..MaxEcheances /\ pertes \in 0..MaxPertes /\ coupures \in 0..MaxPertes

LEMMA EffetEcheance ==
  ASSUME TypeOK, Echeance
  PROVE  Compteurs' /\ pertes' = pertes
BY SessionConstantes DEF Echeance, TypeOK, Compteurs

LEMMA EffetPerte ==
  ASSUME TypeOK, Perte
  PROVE  Compteurs' /\ pertes' = pertes + 1
BY SessionConstantes DEF Perte, TypeOK, Compteurs

LEMMA EffetCoupure ==
  ASSUME TypeOK, Coupure
  PROVE  Compteurs' /\ pertes' = pertes
BY SessionConstantes DEF Coupure, TypeOK, Compteurs

----------------------------------------------------------------------------
(* Every step keeps the types and Base.                                     *)

LEMMA PasServir ==
  ASSUME TypeOK, Base, NEW r \in Traitements, Servir(r)
  PROVE  TypeOK' /\ Base'
<1>1. /\ jetons' \in Seq(Etats) /\ Jetons \subseteq Jetons'
      /\ traitement' \in [Traitements -> Traitement] /\ Ailleurs(r)
      /\ traitement'[r].genre = traitement[r].genre
      /\ ~Enregistrer(r) => traitement'[r].jeton = traitement[r].jeton
      /\ Inchangees /\ compromission' \in BOOLEAN
  BY EffetServir
<1>2. TypeOK'
  BY <1>1 DEF TypeOK, Inchangees, memoire, compte, bornes
<1>3. ConnecteeArmee' /\ RejeuFrais'
  BY <1>1 DEF Base, ConnecteeArmee, RejeuFrais, Inchangees, memoire
<1>4. CASE Enregistrer(r)
  <2>1. /\ Len(jetons) + 1 \in Jetons' /\ Len(jetons) + 1 # Aucun
        /\ traitement'[r].pas = "succes" /\ traitement'[r].jeton = Len(jetons) + 1
    BY <1>4, EffetEnregistrer, Numeros DEF Aucun
  <2>2. EntreeDroite' /\ JetonDonne'
    BY <1>1, <2>1 DEF Base, EntreeDroite, JetonDonne, Ailleurs, Presente, Au
  <2>3. JetonsConnus'
    BY <1>1, <2>1 DEF Base, JetonsConnus, Ailleurs, Inchangees, memoire
  <2> QED BY <1>2, <1>3, <2>2, <2>3 DEF Base
<1>5. CASE ~Enregistrer(r)
  <2>1. JetonsConnus'
    BY <1>1, <1>5 DEF Base, JetonsConnus, Ailleurs, Inchangees, memoire
  <2>2. \/ /\ Au(r, "chercher") /\ traitement[r].genre # "entree"
           /\ traitement'[r].pas # "succes"
           /\ traitement'[r].pas = "marquer" => traitement[r].jeton # Aucun
        \/ /\ Au(r, "compromis") /\ traitement'[r].pas = "echec"
           /\ traitement[r].genre # "entree"
        \/ traitement'[r].pas \in {"compter", "revoquer", "enregistrer"}
    <3>1. CASE Chercher(r)
      <4>1. Pas(r, Suite(traitement[r].jeton)) /\ Suite(traitement[r].jeton) \in LesPas
        BY <3>1 DEF Chercher, Suite, LesPas
      <4>2. traitement'[r].pas = Suite(traitement[r].jeton)
        BY <4>1, EffetPas
      <4> QED BY <3>1, <4>2 DEF Chercher, Suite, Au, Base, EntreeDroite, Presente
    <3>2. CASE RevoquerTout(r)
      BY <3>2, EffetPas DEF RevoquerTout, Au, Base, EntreeDroite, LesPas
    <3>3. CASE Marquer(r) \/ Revoquer(r)
      BY <3>3, EffetPas DEF Marquer, Revoquer, LesPas
    <3>4. CASE Compter(r)
      <4>1. traitement[r] \in Traitement /\ traitement \in [Traitements -> Traitement]
        BY DEF TypeOK
      <4> QED BY <3>4, <4>1 DEF Compter, Traitement
    <3> QED BY <1>5, <3>1, <3>2, <3>3, <3>4 DEF Servir
  <2>3. EntreeDroite'
    BY <1>1, <2>2 DEF Base, EntreeDroite, Ailleurs, Presente, Au
  <2>4. JetonDonne'
    BY <1>1, <1>5, <2>2 DEF Base, JetonDonne, Ailleurs
  <2> QED BY <1>2, <1>3, <2>1, <2>3, <2>4 DEF Base
<1> QED BY <1>4, <1>5

(* Without a new row, the tokens known stay known.                          *)
LEMMA PasTelephone ==
  ASSUME Base, jetons' = jetons,
         \A r \in Traitements :
           \/ traitement'[r] = traitement[r]
           \/ traitement'[r].pas \in {"libre", "compter"} /\ traitement'[r].jeton = Aucun
           \/ /\ traitement'[r].pas = "chercher" /\ traitement'[r].genre = "rotation"
              /\ traitement'[r].jeton \in Jetons \cup {Aucun},
         \A t \in Telephones :
           /\ rafraichi'[t] \in Jetons \cup {Aucun}
           /\ connectee'[t] => rafraichi'[t] # Aucun,
         \A q \in Requetes : requete'[q].pas = "rejeu" =>
           requete'[q].acces = "valide" \/ requete'[q] = requete[q]
  PROVE  Base'
<1>1. Jetons' = Jetons
  BY DEF Jetons
<1>2. EntreeDroite'
  BY DEF Base, EntreeDroite, Presente, Au
<1>3. JetonDonne'
  BY DEF Base, JetonDonne
<1>4. JetonsConnus'
  BY <1>1 DEF Base, JetonsConnus
<1>5. ConnecteeArmee' /\ RejeuFrais'
  BY DEF Base, ConnecteeArmee, RejeuFrais
<1> QED BY <1>2, <1>3, <1>4, <1>5 DEF Base

(* What a handler that is done gives back, and where it stays what it was.  *)
LEMMA PasRecevoir ==
  ASSUME TypeOK, Base, NEW r \in Traitements, Recevoir(r)
  PROVE  TypeOK' /\ Base'
<1> DEFINE t == traitement[r].tel
           j == traitement[r].jeton
<1>1. t \in Telephones /\ j \in Nat
  BY DEF TypeOK, Traitement
<1>2. /\ UNCHANGED <<jetons, compte, compromission, bornes>> /\ Rendu(r)
      /\ \/ UNCHANGED <<memoire, promesse, requete>>
         \/ /\ promesse[t] = r /\ Au(r, "succes") /\ Ranger(t, j) /\ UNCHANGED connectee
            /\ Rejouer(t, "valide") /\ Relacher(t, r)
         \/ promesse[t] = r /\ Au(r, "echec") /\ Renoncer(t) /\ Relacher(t, r)
  BY DEF Recevoir
<1>3. /\ traitement' \in [Traitements -> Traitement] /\ Ailleurs(r)
      /\ traitement'[r].pas = "libre" /\ traitement'[r].jeton = Aucun
  BY EffetLiberer DEF Recevoir
<1>4. /\ \A u \in Telephones : rafraichi[u] \in Jetons \cup {Aucun}
      /\ \A u \in Telephones : connectee[u] => rafraichi[u] # Aucun
      /\ j \in Jetons \cup {Aucun}
      /\ Au(r, "succes") => j # Aucun
  BY DEF Base, JetonsConnus, ConnecteeArmee, JetonDonne, Au
<1> HIDE DEF t, j
<1>5. CASE UNCHANGED <<memoire, promesse, requete>>
  <2>1. TypeOK'
    BY <1>2, <1>3, <1>5 DEF TypeOK, memoire, compte, bornes
  <2>2. Base'
    BY <1>2, <1>3, <1>4, <1>5, PasTelephone DEF Ailleurs, memoire
  <2> QED BY <2>1, <2>2
<1>6. CASE /\ Au(r, "succes") /\ Ranger(t, j) /\ UNCHANGED connectee
           /\ Rejouer(t, "valide") /\ Relacher(t, r)
  <2>1. /\ acces' \in [Telephones -> {"aucun", "valide", "expire"}]
        /\ rafraichi' \in [Telephones -> Nat] /\ rafraichi'[t] = j
        /\ \A u \in Telephones \ {t} : rafraichi'[u] = rafraichi[u]
    BY <1>1, <1>6, EffetRanger
  <2>2. /\ requete' \in [Requetes -> Requete]
        /\ \A q \in Requetes : requete'[q].pas = "rejeu" =>
             requete'[q].acces = "valide" \/ requete'[q] = requete[q]
    BY <1>1, <1>6, EffetRejouer
  <2>3. promesse' \in [Telephones -> Traitements \cup {Aucun}]
    BY <1>6 DEF Relacher, TypeOK
  <2>4. TypeOK'
    BY <1>2, <1>3, <1>6, <2>1, <2>2, <2>3 DEF TypeOK, compte, bornes
  <2>5. \A u \in Telephones :
          rafraichi'[u] \in Jetons \cup {Aucun} /\ (connectee'[u] => rafraichi'[u] # Aucun)
    BY <1>4, <1>6, <2>1
  <2>6. Base'
    BY <1>2, <1>3, <2>2, <2>5, PasTelephone DEF Ailleurs
  <2> QED BY <2>4, <2>6
<1>7. CASE Renoncer(t) /\ Relacher(t, r)
  <2>1. /\ requete' \in [Requetes -> Requete]
        /\ connectee' \in [Telephones -> BOOLEAN]
        /\ acces' \in [Telephones -> {"aucun", "valide", "expire"}]
        /\ rafraichi' \in [Telephones -> Nat]
        /\ \A q \in Requetes : requete'[q].pas = "rejeu" => requete'[q] = requete[q]
        /\ \/ UNCHANGED memoire
           \/ Oublier(t)
    BY <1>1, <1>7, EffetRenoncer
  <2>2. promesse' \in [Telephones -> Traitements \cup {Aucun}]
    BY <1>7 DEF Relacher, TypeOK
  <2>3. TypeOK'
    BY <1>2, <1>3, <2>1, <2>2 DEF TypeOK, compte, bornes
  <2>4. \A u \in Telephones :
          rafraichi'[u] \in Jetons \cup {Aucun} /\ (connectee'[u] => rafraichi'[u] # Aucun)
    BY <1>1, <1>4, <2>1, EffetOublier DEF memoire
  <2>5. Base'
    BY <1>2, <1>3, <2>1, <2>4, PasTelephone DEF Ailleurs
  <2> QED BY <2>3, <2>5
<1> QED BY <1>2, <1>5, <1>6, <1>7

LEMMA PasFinirEntree ==
  ASSUME TypeOK, Base, NEW r \in Traitements, FinirEntree(r)
  PROVE  TypeOK' /\ Base' /\ Au(r, "succes")
<1> DEFINE t == traitement[r].tel
           j == traitement[r].jeton
<1>1. t \in Telephones /\ j \in Nat
  BY DEF TypeOK, Traitement
<1>2. /\ UNCHANGED <<jetons, compte, compromission, promesse, requete, bornes>> /\ Rendu(r)
      /\ Ranger(t, j) /\ connectee' = [connectee EXCEPT ![t] = TRUE]
      /\ traitement[r].genre = "entree"
  BY DEF FinirEntree
<1>3. /\ traitement' \in [Traitements -> Traitement] /\ Ailleurs(r)
      /\ traitement'[r].pas = "libre" /\ traitement'[r].jeton = Aucun
  BY EffetLiberer DEF FinirEntree
<1>4. /\ \A u \in Telephones : rafraichi[u] \in Jetons \cup {Aucun}
      /\ \A u \in Telephones : connectee[u] => rafraichi[u] # Aucun
      /\ j \in Jetons /\ j # Aucun /\ Au(r, "succes")
  <2>1. Au(r, "succes")
    BY <1>2 DEF Base, EntreeDroite, Presente, Rendu, Au
  <2> QED BY <2>1 DEF Base, JetonsConnus, ConnecteeArmee, JetonDonne, Au
<1> HIDE DEF t, j
<1>5. /\ acces' \in [Telephones -> {"aucun", "valide", "expire"}]
      /\ rafraichi' \in [Telephones -> Nat] /\ rafraichi'[t] = j
      /\ \A u \in Telephones \ {t} : rafraichi'[u] = rafraichi[u]
  BY <1>1, <1>2, EffetRanger
<1>6. connectee \in [Telephones -> BOOLEAN] /\ connectee' \in [Telephones -> BOOLEAN]
  BY <1>2 DEF TypeOK
<1>7. TypeOK'
  BY <1>2, <1>3, <1>5, <1>6 DEF TypeOK, compte, bornes
<1>8. \A u \in Telephones :
        rafraichi'[u] \in Jetons \cup {Aucun} /\ (connectee'[u] => rafraichi'[u] # Aucun)
  BY <1>1, <1>2, <1>4, <1>5, <1>6
<1>9. Base'
  BY <1>2, <1>3, <1>8, PasTelephone DEF Ailleurs
<1> QED BY <1>4, <1>7, <1>9

(* A login, and the two ways a refresh begins.                              *)
LEMMA PasEntrer ==
  ASSUME TypeOK, Base, NEW t \in Telephones, Entrer(t)
  PROVE  TypeOK' /\ Base'
<1>1. /\ Demarrer(t, "entree", Aucun, "compter") /\ Echeance
      /\ UNCHANGED <<jetons, compte, compromission, memoire, promesse, requete, depart>>
  BY DEF Entrer
<1>2. Aucun \in Nat /\ "compter" \in LesPas
  BY DEF Aucun, LesPas
<1>3. /\ Libre \in Traitements
      /\ traitement' \in [Traitements -> Traitement] /\ Ailleurs(Libre)
      /\ traitement'[Libre].pas = "compter" /\ traitement'[Libre].jeton = Aucun
  BY <1>1, <1>2, EffetDemarrer
<1>4. Compteurs'
  BY <1>1, EffetEcheance
<1>5. TypeOK'
  BY <1>1, <1>3, <1>4 DEF TypeOK, Compteurs, memoire, compte
<1>6. Base'
  BY <1>1, <1>3, PasTelephone DEF Ailleurs, memoire, Base, JetonsConnus, ConnecteeArmee
<1> QED BY <1>5, <1>6

LEMMA PasRafraichir ==
  ASSUME TypeOK, Base, NEW t \in Telephones, Rafraichir(t),
         UNCHANGED <<jetons, compte, compromission, memoire, depart>>, Compteurs',
         requete' \in [Requetes -> Requete],
         \A q \in Requetes : requete'[q].pas = "rejeu" => requete'[q] = requete[q]
  PROVE  TypeOK' /\ Base'
<1>1. \A u \in Telephones :
        rafraichi[u] \in Jetons \cup {Aucun} /\ (connectee[u] => rafraichi[u] # Aucun)
  BY DEF Base, JetonsConnus, ConnecteeArmee
<1>2. CASE UNCHANGED <<traitement, promesse>>
  <2>1. TypeOK'
    BY <1>2 DEF TypeOK, Compteurs, memoire, compte
  <2>2. Base'
    BY <1>1, <1>2, PasTelephone DEF memoire
  <2> QED BY <2>1, <2>2
<1>3. CASE /\ Libre \in Traitements
           /\ traitement' \in [Traitements -> Traitement] /\ Ailleurs(Libre)
           /\ traitement'[Libre].pas = "chercher" /\ traitement'[Libre].jeton = rafraichi[t]
           /\ traitement'[Libre].genre = "rotation"
           /\ promesse' \in [Telephones -> Traitements \cup {Aucun}]
  <2>1. TypeOK'
    BY <1>3 DEF TypeOK, Compteurs, memoire, compte
  <2>2. Base'
    BY <1>1, <1>3, PasTelephone DEF Ailleurs, memoire
  <2> QED BY <2>1, <2>2
<1> QED BY <1>2, <1>3, EffetRafraichir

LEMMA PasMinuterie ==
  ASSUME TypeOK, Base, NEW t \in Telephones, Minuterie(t)
  PROVE  TypeOK' /\ Base'
<1>1. Compteurs'
  BY EffetEcheance DEF Minuterie
<1> QED BY <1>1, PasRafraichir DEF Minuterie, TypeOK

LEMMA PasAttendre ==
  ASSUME TypeOK, Base, NEW q \in Requetes, Attendre(q)
  PROVE  /\ TypeOK' /\ Base' /\ requete[q].tel \in Telephones
         /\ requete'[q].pas = "attente" /\ requete'[q].tel = requete[q].tel
         /\ \A p \in Requetes \ {q} : requete'[p] = requete[p]
<1> DEFINE x == [requete[q] EXCEPT !.pas = "attente"]
<1>1. requete \in [Requetes -> Requete] /\ requete[q] \in Requete
  BY DEF TypeOK
<1>2. requete' = [requete EXCEPT ![q] = x]
  BY <1>1, Zenon DEF Attendre
<1>3. /\ x \in Requete /\ x.pas = "attente" /\ x.tel = requete[q].tel
      /\ requete[q].tel \in Telephones
  BY <1>1 DEF Requete
<1> HIDE DEF x
<1>4. /\ requete' \in [Requetes -> Requete] /\ requete'[q] = x
      /\ \A p \in Requetes \ {q} : requete'[p] = requete[p]
  BY <1>1, <1>2, <1>3
<1>5. \A p \in Requetes : requete'[p].pas = "rejeu" => requete'[p] = requete[p]
  BY <1>3, <1>4
<1>6. Compteurs' /\ Rafraichir(requete[q].tel)
      /\ UNCHANGED <<jetons, compte, compromission, memoire, depart>>
  BY DEF Attendre, TypeOK, Compteurs, bornes
<1>7. TypeOK' /\ Base'
  BY <1>3, <1>4, <1>5, <1>6, PasRafraichir
<1> QED BY <1>3, <1>4, <1>7

(* Steps of the telephone that move no handler.                             *)
LEMMA PasLocal ==
  ASSUME TypeOK, Base, UNCHANGED serveur \/ UNCHANGED <<jetons, traitement, compromission>>,
         \/ UNCHANGED memoire
         \/ \E t \in Telephones : Oublier(t)
         \/ /\ UNCHANGED <<connectee, rafraichi>>
            /\ acces' \in [Telephones -> {"aucun", "valide", "expire"}],
         promesse' \in [Telephones -> Traitements \cup {Aucun}],
         requete' \in [Requetes -> Requete],
         \A q \in Requetes : requete'[q].pas = "rejeu" => requete'[q] = requete[q],
         Drapeaux', Compteurs'
  PROVE  TypeOK' /\ Base'
<1>1. UNCHANGED <<jetons, traitement, compromission>>
  BY DEF serveur, compte
<1>2. \A u \in Telephones :
        rafraichi[u] \in Jetons \cup {Aucun} /\ (connectee[u] => rafraichi[u] # Aucun)
  BY DEF Base, JetonsConnus, ConnecteeArmee
<1>3. /\ connectee' \in [Telephones -> BOOLEAN]
      /\ acces' \in [Telephones -> {"aucun", "valide", "expire"}]
      /\ rafraichi' \in [Telephones -> Nat]
      /\ \A u \in Telephones :
           rafraichi'[u] \in Jetons \cup {Aucun} /\ (connectee'[u] => rafraichi'[u] # Aucun)
  <2>1. CASE UNCHANGED memoire
    BY <1>2, <2>1 DEF memoire, TypeOK
  <2>2. ASSUME NEW t \in Telephones, Oublier(t) PROVE <1>3
    BY <1>2, <2>2, EffetOublier
  <2>3. CASE /\ UNCHANGED <<connectee, rafraichi>>
             /\ acces' \in [Telephones -> {"aucun", "valide", "expire"}]
    BY <1>2, <2>3 DEF TypeOK
  <2> QED BY <2>1, <2>2, <2>3
<1>4. TypeOK'
  BY <1>1, <1>3 DEF TypeOK, Drapeaux, Compteurs
<1>5. Base'
  BY <1>1, <1>3, PasTelephone
<1> QED BY <1>4, <1>5

LEMMA PasLocaux ==
  ASSUME TypeOK, Base,
         \/ \E t \in Telephones : Deconnecter(t) \/ Abandonner(t) \/ Recharger(t) \/ Perimer(t)
         \/ \E q \in Requetes : \/ \E t \in Telephones : Envoyer(q, t)
                               \/ Aboutir(q) \/ Expulser(q)
         \/ Suspendre \/ Reinitialiser \/ \E t \in Telephones : ChangerMotDePasse(t)
  PROVE  TypeOK' /\ Base'
<1>0. /\ requete \in [Requetes -> Requete]
      /\ promesse \in [Telephones -> Traitements \cup {Aucun}]
      /\ Drapeaux /\ Compteurs
  BY DEF TypeOK, Drapeaux, Compteurs
<1>1. ASSUME NEW t \in Telephones, Deconnecter(t) PROVE TypeOK' /\ Base'
  <2>1. /\ UNCHANGED <<jetons, traitement, compromission, promesse, requete>> /\ Oublier(t)
        /\ Drapeaux' /\ Compteurs'
    BY <1>0, <1>1 DEF Deconnecter, serveur, compte, Drapeaux, Compteurs
  <2> QED BY <1>0, <2>1, PasLocal
<1>2. ASSUME NEW t \in Telephones, Abandonner(t) PROVE TypeOK' /\ Base'
  <2>1. /\ requete' \in [Requetes -> Requete]
        /\ \A q \in Requetes : requete'[q].pas = "rejeu" => requete'[q] = requete[q]
        /\ UNCHANGED memoire \/ Oublier(t)
    BY <1>2, EffetRenoncer DEF Abandonner
  <2>2. promesse' \in [Telephones -> Traitements \cup {Aucun}]
    BY <1>0, <1>2 DEF Abandonner
  <2>3. Compteurs' /\ UNCHANGED <<serveur, depart>>
    BY <1>2, EffetPerte DEF Abandonner
  <2>4. Drapeaux'
    BY <1>0, <2>3 DEF Drapeaux, serveur, compte
  <2> QED BY <1>0, <2>1, <2>2, <2>3, <2>4, PasLocal
<1>3. ASSUME NEW t \in Telephones, Recharger(t) PROVE TypeOK' /\ Base'
  <2>1. /\ SansEnvoi("fini") \in Requete /\ SansEnvoi("fini").pas = "fini"
    BY SansEnvoiType
  <2>2. requete' = [q \in Requetes |-> IF requete[q].tel = t /\ requete[q].pas # "neuve"
                                        THEN SansEnvoi("fini") ELSE requete[q]]
    BY <1>3 DEF Recharger
  <2>3. /\ requete' \in [Requetes -> Requete]
        /\ \A q \in Requetes : requete'[q].pas = "rejeu" => requete'[q] = requete[q]
    BY <1>0, <2>1, <2>2
  <2>4. promesse' \in [Telephones -> Traitements \cup {Aucun}]
    BY <1>0, <1>3 DEF Recharger
  <2>5. Compteurs' /\ UNCHANGED <<serveur, memoire, depart>>
    BY <1>3, EffetPerte DEF Recharger
  <2>6. Drapeaux'
    BY <1>0, <2>5 DEF Drapeaux, serveur, compte
  <2> QED BY <1>0, <2>3, <2>4, <2>5, <2>6, PasLocal
<1>4. ASSUME NEW t \in Telephones, Perimer(t) PROVE TypeOK' /\ Base'
  <2>1. ASSUME NEW q \in Requetes
        PROVE  LET x == [requete[q] EXCEPT !.acces = "expire"]
               IN  x \in Requete /\ x.pas = requete[q].pas /\ x.tel = requete[q].tel
    BY <1>0 DEF Requete
  <2>2. requete' = [q \in Requetes |->
                     IF requete[q].tel = t /\ requete[q].acces = "valide"
                     THEN [requete[q] EXCEPT !.acces = "expire"] ELSE requete[q]]
    BY <1>4 DEF Perimer
  <2>3. /\ requete' \in [Requetes -> Requete]
        /\ \A q \in Requetes : requete'[q].pas = "rejeu" => requete'[q] = requete[q]
    BY <1>0, <1>4, <2>1, <2>2 DEF Perimer
  <2>4. acces' \in [Telephones -> {"aucun", "valide", "expire"}]
    BY <1>4 DEF Perimer, TypeOK
  <2>5. Compteurs' /\ UNCHANGED <<serveur, connectee, rafraichi, promesse, depart>>
    BY <1>4, EffetEcheance DEF Perimer
  <2>6. Drapeaux'
    BY <1>0, <2>5 DEF Drapeaux, serveur, compte
  <2> QED BY <1>0, <2>3, <2>4, <2>5, <2>6, PasLocal
<1>5. ASSUME NEW q \in Requetes, NEW t \in Telephones, Envoyer(q, t) PROVE TypeOK' /\ Base'
  <2> DEFINE x == [pas |-> "envoi", tel |-> t, acces |-> acces[t]]
  <2>1. x \in Requete /\ x.pas = "envoi"
    BY DEF TypeOK, Requete
  <2>2. requete' = [requete EXCEPT ![q] = x] /\ UNCHANGED <<serveur, memoire, promesse, bornes>>
    BY <1>5 DEF Envoyer
  <2> HIDE DEF x
  <2>3. /\ requete' \in [Requetes -> Requete]
        /\ \A p \in Requetes : requete'[p].pas = "rejeu" => requete'[p] = requete[p]
    BY <1>0, <2>1, <2>2
  <2> QED BY <1>0, <2>2, <2>3, PasLocal DEF serveur, compte, bornes, Drapeaux, Compteurs
<1>6. ASSUME NEW q \in Requetes, NEW p \in {"fini", "echec"},
             requete' = [requete EXCEPT ![q] = SansEnvoi(p)],
             UNCHANGED <<serveur, promesse, bornes>>,
             UNCHANGED memoire \/ \E t \in Telephones : Oublier(t)
      PROVE  TypeOK' /\ Base'
  <2>1. /\ requete' \in [Requetes -> Requete]
        /\ \A s \in Requetes : requete'[s].pas = "rejeu" => requete'[s] = requete[s]
    BY <1>0, <1>6, SansEnvoiType
  <2> QED BY <1>0, <1>6, <2>1, PasLocal DEF serveur, compte, bornes, Drapeaux, Compteurs
<1>7. ASSUME NEW q \in Requetes, Aboutir(q) PROVE TypeOK' /\ Base'
  BY <1>6, <1>7 DEF Aboutir
<1>8. ASSUME NEW q \in Requetes, Expulser(q) PROVE TypeOK' /\ Base'
  <2>1. requete[q].tel \in Telephones
    BY <1>0 DEF Requete
  <2> QED BY <1>6, <1>8, <2>1 DEF Expulser
<1>9. CASE Suspendre \/ Reinitialiser \/ \E t \in Telephones : ChangerMotDePasse(t)
  <2>1. Compteurs'
    <3>1. CASE Suspendre
      BY <3>1, EffetEcheance DEF Suspendre
    <3>2. CASE Reinitialiser
      BY <3>2, EffetCoupure DEF Reinitialiser
    <3>3. CASE \E t \in Telephones : ChangerMotDePasse(t)
      BY <1>0, <3>3 DEF ChangerMotDePasse, bornes, Compteurs
    <3> QED BY <1>9, <3>1, <3>2, <3>3
  <2>2. Drapeaux' /\ UNCHANGED <<jetons, traitement, compromission, memoire, promesse, requete>>
    BY <1>0, <1>9 DEF Suspendre, Reinitialiser, ChangerMotDePasse, bornes, Drapeaux
  <2> QED BY <1>0, <2>1, <2>2, PasLocal
<1> QED BY <1>1, <1>2, <1>3, <1>4, <1>5, <1>7, <1>8, <1>9

(* Sessions ended by hand: the tokens change, and nobody's hold on them.    *)
LEMMA PasCoupure ==
  ASSUME TypeOK, Base,
         \/ RevoquerReinit
         \/ \E t \in Telephones : DeconnecterPartout(t) \/ RevoquerSessions(t)
  PROVE  TypeOK' /\ Base'
<1>1. jetons' \in Seq(Etats) /\ Jetons' = Jetons
  BY EffetUserTous, EffetRevoquerSessions DEF RevoquerReinit, DeconnecterPartout
<1>2. Compteurs'
  BY EffetCoupure DEF RevoquerReinit, DeconnecterPartout, RevoquerSessions, bornes, TypeOK,
     Compteurs
<1>3. UNCHANGED <<traitement, compromission, memoire, promesse, requete, depart>>
  BY DEF RevoquerReinit, DeconnecterPartout, RevoquerSessions, bornes
<1>4. {suspendu', doitChanger', reinit', coupee'} \subseteq BOOLEAN
  BY DEF RevoquerReinit, DeconnecterPartout, RevoquerSessions, compte, TypeOK
<1>5. TypeOK'
  BY <1>1, <1>2, <1>3, <1>4 DEF TypeOK, Compteurs, memoire
<1>6. Base'
  BY <1>1, <1>3 DEF Base, EntreeDroite, JetonDonne, JetonsConnus, ConnecteeArmee, RejeuFrais,
     Presente, Au, memoire
<1> QED BY <1>5, <1>6

LEMMA BaseInit == Init => TypeOK /\ Base
<1> SUFFICES ASSUME Init PROVE TypeOK /\ Base
  OBVIOUS
<1>1. TypeOK
  BY TypesInit
<1>2. EntreeDroite /\ JetonDonne
  BY DEF Init, Repos, EntreeDroite, JetonDonne
<1>3. JetonsConnus /\ ConnecteeArmee
  BY DEF Init, Repos, JetonsConnus, ConnecteeArmee
<1>4. RejeuFrais
  BY DEF Init, SansEnvoi, RejeuFrais
<1> QED BY <1>1, <1>2, <1>3, <1>4 DEF Base

LEMMA BaseNext == TypeOK /\ Base /\ [Next]_vars => TypeOK' /\ Base'
<1> SUFFICES ASSUME TypeOK, Base, [Next]_vars PROVE TypeOK' /\ Base'
  OBVIOUS
<1>1. CASE UNCHANGED vars
  <2>1. TypeOK'
    BY <1>1 DEF vars, serveur, compte, memoire, bornes, TypeOK
  <2>2. Base'
    BY <1>1, PasTelephone DEF vars, serveur, compte, memoire, bornes, Base, JetonsConnus, ConnecteeArmee
  <2> QED BY <2>1, <2>2
<1>2. CASE Next
  BY <1>2, PasServir, PasFinirEntree, PasRecevoir, PasEntrer, PasMinuterie, PasAttendre, PasLocaux,
     PasCoupure
     DEF Next
<1> QED BY <1>1, <1>2

----------------------------------------------------------------------------
(* As long as no refresh is lost, every step keeps Sain.                    *)

LEMMA SainServir ==
  ASSUME TypeOK, Base, Sain, NEW r \in Traitements, Servir(r)
  PROVE  Sain'
<1>0. /\ Ailleurs(r) /\ traitement[r].pas # "libre" /\ traitement'[r].pas # "libre"
      /\ traitement'[r].tel = traitement[r].tel /\ traitement'[r].genre = traitement[r].genre
      /\ ~Enregistrer(r) => traitement'[r].jeton = traitement[r].jeton
      /\ UNCHANGED <<rafraichi, promesse>>
  BY EffetServir DEF Inchangees, memoire
<1>1. \A s \in Traitements : (Rotation(s)' <=> Rotation(s)) /\ traitement'[s].tel = traitement[s].tel
  BY <1>0 DEF Rotation, Ailleurs
<1>2. \A t \in Telephones :
        promesse[t] # Aucun => promesse[t] \in Traitements /\ Rotation(promesse[t])
  BY DEF TypeOK, Sain, UnVerrou
<1>3. UnVerrou' /\ UneMemoire'
  <2>1. UnVerrou /\ UneMemoire
    BY DEF Sain
  <2>2. \A s \in Traitements : Rotation(s)' => promesse[traitement'[s].tel] = s
    BY <1>1, <2>1 DEF UnVerrou
  <2>3. \A t \in Telephones :
          promesse[t] # Aucun => Rotation(promesse[t])' /\ traitement'[promesse[t]].tel = t
    BY <1>0, <1>1, <1>2, <2>1 DEF UnVerrou
  <2> QED BY <1>0, <2>1, <2>2, <2>3 DEF UnVerrou, UneMemoire
<1>4. /\ Calme /\ UnPorteur /\ PorteurDuTelephone /\ JamaisServi /\ UseEnCours /\ UnVerrou
      /\ \A t \in Telephones : rafraichi[t] \in Jetons \cup {Aucun}
      /\ \A s \in Traitements : traitement[s].jeton \in Jetons \cup {Aucun}
      /\ EntreeDroite
  BY DEF Sain, Base, JetonsConnus
<1>5. \A t \in Telephones : promesse[t] \in Traitements \cup {Aucun}
  BY DEF TypeOK
<1>6. CASE Chercher(r)
  <2>1. Pas(r, Suite(traitement[r].jeton)) /\ Suite(traitement[r].jeton) \in LesPas
        /\ Au(r, "chercher") /\ UNCHANGED <<jetons, compromission>>
    BY <1>6 DEF Chercher, Suite, LesPas
  <2>2. traitement'[r].pas = Suite(traitement[r].jeton) /\ traitement'[r].jeton = traitement[r].jeton
    BY <2>1, EffetPas
  <2>3. traitement'[r].pas \in {"marquer", "echec"}
    BY <1>4, <2>1, <2>2 DEF JamaisServi, Suite, Au
  <2>4. Calme'
    BY <1>0, <1>4, <2>1, <2>3 DEF Calme, Ailleurs, Au
  <2>5. /\ traitement[r].pas = "chercher" /\ traitement'[r].jeton = traitement[r].jeton
        /\ \A s \in Traitements \ {r} : traitement'[s] = traitement[s]
    BY <1>0, <2>1, <2>2 DEF Ailleurs, Au
  <2>6. UnPorteur'
    BY <1>4, <2>5 DEF UnPorteur, Tient
  <2>7. PorteurDuTelephone'
    BY <1>0, <1>4, <2>3, <2>5 DEF PorteurDuTelephone, Presente, Tient
  <2>8. JamaisServi'
    BY <1>0, <1>4, <2>1, <2>3 DEF JamaisServi, Ailleurs
  <2>9. UseEnCours'
    BY <1>0, <1>4, <1>5, <2>1, <2>3 DEF UseEnCours, Ailleurs, Au
  <2> QED BY <1>3, <2>4, <2>6, <2>7, <2>8, <2>9 DEF Sain
<1>7. CASE RevoquerTout(r)
  BY <1>4, <1>7 DEF RevoquerTout, Calme
<1>8. CASE Marquer(r)
  <2> DEFINE j == traitement[r].jeton
  <2>1. Pas(r, "compter") /\ Au(r, "marquer") /\ UNCHANGED compromission
    BY <1>8 DEF Marquer
  <2>2. traitement'[r].pas = "compter"
    BY <2>1, EffetPas DEF LesPas
  <2>3. /\ j \in Jetons /\ j # Aucun /\ jetons'[j] = "use"
        /\ \A k \in Jetons \ {j} : jetons'[k] = jetons[k]
    BY <1>8, EffetMarquer, Numeros
  <2> HIDE DEF j
  <2>4. Calme'
    BY <1>0, <1>4, <2>1, <2>2 DEF Calme, Ailleurs, Au
  <2>5. /\ ~Tient(r)' /\ Tient(r) /\ traitement[r].pas = "marquer"
        /\ \A s \in Traitements \ {r} : traitement'[s] = traitement[s]
    BY <1>0, <2>1, <2>2 DEF Tient, Ailleurs, Au
  <2>6. UnPorteur'
    BY <1>4, <2>5 DEF UnPorteur, Tient
  <2>7. PorteurDuTelephone'
    BY <1>0, <1>4, <2>5 DEF PorteurDuTelephone, Presente, Tient
  <2>8. \A s \in Traitements \ {r} : Tient(s) => traitement[s].jeton # j
    BY <1>4, <2>3, <2>5 DEF UnPorteur, j
  <2>9. JamaisServi'
    BY <1>4, <2>2, <2>3, <2>5, <2>8 DEF JamaisServi, Tient
  <2>10. ASSUME NEW t \in Telephones, rafraichi[t] = j PROVE promesse[t] = r
    <3>1. traitement[r].tel = t
      BY <1>4, <2>3, <2>5, <2>10 DEF PorteurDuTelephone, j
    <3>2. Rotation(r)
      <4>1. traitement[r].genre \in {"rotation", "entree"}
        BY DEF TypeOK, Traitement
      <4> QED BY <1>4, <2>5, <4>1 DEF EntreeDroite, Presente, Rotation
    <3> QED BY <1>4, <3>1, <3>2 DEF UnVerrou
  <2>11. r # Aucun
    BY SessionConstantes DEF Aucun
  <2>12. UseEnCours'
    BY <1>0, <1>4, <1>5, <2>2, <2>3, <2>5, <2>10, <2>11 DEF UseEnCours
  <2> QED BY <1>3, <2>4, <2>6, <2>7, <2>9, <2>12 DEF Sain
<1>9. CASE Compter(r) \/ Revoquer(r)
  <2>1. /\ traitement[r].pas \in {"compter", "revoquer"}
        /\ traitement'[r].pas \in {"revoquer", "enregistrer"} /\ UNCHANGED compromission
    <3>1. CASE Compter(r)
      <4>1. traitement[r] \in Traitement /\ traitement \in [Traitements -> Traitement]
        BY DEF TypeOK
      <4> QED BY <3>1, <4>1 DEF Compter, Traitement, Au
    <3>2. CASE Revoquer(r)
      BY <3>2, EffetPas DEF Revoquer, Au, LesPas
    <3> QED BY <1>9, <3>1, <3>2
  <2>2. \A k \in Jetons : jetons'[k] = "use" <=> jetons[k] = "use"
    BY <1>9, EffetRevoquer DEF Compter
  <2>3. Calme'
    BY <1>0, <1>4, <2>1 DEF Calme, Ailleurs, Au
  <2>4. /\ ~Tient(r)' /\ ~Tient(r)
        /\ \A s \in Traitements \ {r} : traitement'[s] = traitement[s]
    BY <1>0, <2>1 DEF Tient, Ailleurs
  <2>5. UnPorteur'
    BY <1>4, <2>4 DEF UnPorteur, Tient
  <2>6. PorteurDuTelephone'
    BY <1>0, <1>4, <2>4 DEF PorteurDuTelephone, Presente, Tient
  <2>7. JamaisServi'
    BY <1>4, <2>1, <2>2, <2>4 DEF JamaisServi
  <2>8. UseEnCours'
    BY <1>0, <1>4, <1>5, <2>1, <2>2, <2>4 DEF UseEnCours
  <2> QED BY <1>3, <2>3, <2>5, <2>6, <2>7, <2>8 DEF Sain
<1>10. CASE Enregistrer(r)
  <2> DEFINE n == Len(jetons) + 1
  <2>1. /\ n \notin Jetons /\ jetons'[n] = "actif" /\ \A k \in Jetons : jetons'[k] = jetons[k]
        /\ traitement'[r].pas = "succes" /\ traitement'[r].jeton = n
    BY <1>10, EffetEnregistrer
  <2>2. Au(r, "enregistrer") /\ UNCHANGED compromission
    BY <1>10 DEF Enregistrer
  <2>3. n # Aucun
    BY Numeros DEF Aucun
  <2> HIDE DEF n
  <2>4. Calme'
    BY <1>0, <1>4, <2>1, <2>2 DEF Calme, Ailleurs, Au
  <2>5. /\ \A s \in Traitements \ {r} : traitement'[s] = traitement[s] /\ traitement[s].jeton # n
        /\ \A t \in Telephones : rafraichi[t] # n
    BY <1>0, <1>4, <2>1, <2>3 DEF Ailleurs
  <2>6. UnPorteur'
    BY <1>4, <2>1, <2>5 DEF UnPorteur, Tient
  <2>7. PorteurDuTelephone'
    BY <1>0, <1>4, <2>1, <2>5 DEF PorteurDuTelephone, Presente, Tient
  <2>8. JamaisServi'
    BY <1>4, <2>1, <2>5 DEF JamaisServi
  <2>9. UseEnCours'
    BY <1>0, <1>4, <1>5, <2>1, <2>2, <2>5 DEF UseEnCours, Au
  <2> QED BY <1>3, <2>4, <2>6, <2>7, <2>8, <2>9 DEF Sain
<1> QED BY <1>6, <1>7, <1>8, <1>9, <1>10 DEF Servir

(* The answer of a refresh, or of a login.                                  *)
LEMMA SainRecevoir ==
  ASSUME TypeOK, Base, Sain, NEW r \in Traitements, Recevoir(r)
  PROVE  Sain'
<1> DEFINE t == traitement[r].tel
           j == traitement[r].jeton
<1>1. t \in Telephones /\ j \in Nat /\ r # Aucun
  BY SessionConstantes DEF TypeOK, Traitement, Aucun
<1>2. /\ UNCHANGED <<jetons, compromission>> /\ Rotation(r)
      /\ traitement[r].pas \in {"succes", "echec"}
  BY DEF Recevoir, Rendu, Rotation
<1>3. /\ Calme /\ UnPorteur /\ PorteurDuTelephone /\ JamaisServi /\ UseEnCours /\ UnVerrou
      /\ UneMemoire
  BY DEF Sain
<1>4. promesse[t] = r
  BY <1>2, <1>3 DEF UnVerrou
<1>5. /\ promesse' = [promesse EXCEPT ![t] = Aucun]
      /\ \/ /\ traitement[r].pas = "succes" /\ Ranger(t, j)
         \/ /\ traitement[r].pas = "echec" /\ Renoncer(t)
  BY <1>4 DEF Recevoir, Relacher, Au
<1>6. /\ traitement'[r].pas = "libre"
      /\ \A s \in Traitements \ {r} : traitement'[s] = traitement[s]
  BY EffetLiberer DEF Recevoir, Ailleurs
<1>7. /\ \A u \in Telephones : promesse[u] \in Traitements \cup {Aucun}
      /\ promesse'[t] = Aucun /\ \A u \in Telephones \ {t} : promesse'[u] = promesse[u]
  BY <1>1, <1>5 DEF TypeOK
<1>8. /\ \A u \in Telephones \ {t} : rafraichi'[u] = rafraichi[u]
      /\ \/ rafraichi'[t] = j /\ traitement[r].pas = "succes"
         \/ rafraichi'[t] = rafraichi[t] /\ traitement[r].pas = "echec"
         \/ rafraichi'[t] = Aucun
  BY <1>1, <1>5, EffetRanger, EffetRenoncer, EffetOublier DEF memoire
<1>9. \A u \in Telephones \ {t} : promesse[u] # r
  BY <1>1, <1>3 DEF UnVerrou
<1> HIDE DEF t, j
<1>10. UnVerrou'
  <2>1. ASSUME NEW s \in Traitements, Rotation(s)' PROVE promesse'[traitement'[s].tel] = s
    <3>1. s # r /\ traitement'[s] = traitement[s] /\ Rotation(s)
      BY <1>6, <2>1 DEF Rotation
    <3>2. promesse[traitement[s].tel] = s /\ traitement[s].tel \in Telephones
      BY <1>3, <3>1 DEF UnVerrou, TypeOK, Traitement
    <3> QED BY <1>4, <1>7, <3>1, <3>2
  <2>2. ASSUME NEW u \in Telephones, promesse'[u] # Aucun
        PROVE  Rotation(promesse[u])' /\ traitement'[promesse'[u]].tel = u
    <3>1. u # t /\ promesse'[u] = promesse[u] /\ promesse[u] \in Traitements \ {r}
      BY <1>1, <1>7, <1>9, <2>2
    <3>2. Rotation(promesse[u]) /\ traitement[promesse[u]].tel = u
      BY <1>3, <2>2, <3>1 DEF UnVerrou
    <3> QED BY <1>6, <3>1, <3>2 DEF Rotation
  <2> QED BY <2>1, <2>2 DEF UnVerrou
<1>11. Calme'
  BY <1>2, <1>3, <1>6 DEF Calme, Au
<1>12. ASSUME traitement[r].pas = "succes", j # Aucun
       PROVE  \A u \in Telephones : rafraichi[u] # j
  BY <1>3, <1>12 DEF PorteurDuTelephone, Tient, Presente, j
<1>13. UneMemoire'
  BY <1>1, <1>3, <1>8, <1>12 DEF UneMemoire
<1>14. UnPorteur'
  BY <1>3, <1>6 DEF UnPorteur, Tient
<1>15. ASSUME traitement[r].pas = "succes", j # Aucun
       PROVE  \A s \in Traitements \ {r} : Tient(s) => traitement[s].jeton # j
  BY <1>3, <1>15 DEF UnPorteur, Tient, j
<1>16. PorteurDuTelephone'
  BY <1>1, <1>3, <1>6, <1>8, <1>15 DEF PorteurDuTelephone, Tient, Presente
<1>17. JamaisServi'
  BY <1>2, <1>3, <1>6 DEF JamaisServi
<1>18. UseEnCours'
  <2> SUFFICES ASSUME NEW u \in Telephones, rafraichi'[u] # Aucun, jetons[rafraichi'[u]] = "use"
               PROVE  /\ promesse'[u] # Aucun
                      /\ traitement'[promesse'[u]].pas
                           \in {"compter", "revoquer", "enregistrer", "succes"}
    BY <1>2 DEF UseEnCours
  <2>1. u # t
    <3> SUFFICES ASSUME u = t PROVE FALSE
      OBVIOUS
    <3>1. CASE rafraichi'[t] = j /\ traitement[r].pas = "succes"
      BY <1>3, <3>1 DEF JamaisServi, j
    <3>2. CASE rafraichi'[t] = rafraichi[t] /\ traitement[r].pas = "echec"
      BY <1>1, <1>3, <1>4, <3>2 DEF UseEnCours
    <3> QED BY <1>8, <3>1, <3>2
  <2>2. /\ rafraichi'[u] = rafraichi[u] /\ promesse'[u] = promesse[u]
        /\ promesse[u] \in Traitements \cup {Aucun} /\ promesse[u] # r
    BY <1>7, <1>8, <1>9, <2>1
  <2> QED BY <1>3, <1>6, <2>2 DEF UseEnCours
<1> QED BY <1>10, <1>11, <1>13, <1>14, <1>16, <1>17, <1>18 DEF Sain

LEMMA SainFinirEntree ==
  ASSUME TypeOK, Base, Sain, NEW r \in Traitements, FinirEntree(r)
  PROVE  Sain'
<1> DEFINE t == traitement[r].tel
           j == traitement[r].jeton
<1>1. t \in Telephones /\ j \in Nat /\ traitement[r].pas = "succes" /\ j # Aucun
  <2>1. Au(r, "succes")
    BY PasFinirEntree
  <2> QED BY <2>1 DEF TypeOK, Traitement, Au, Base, JetonDonne
<1>2. /\ UNCHANGED <<jetons, compromission, promesse>> /\ traitement[r].genre = "entree"
      /\ Ranger(t, j)
  BY DEF FinirEntree
<1>3. /\ Calme /\ UnPorteur /\ PorteurDuTelephone /\ JamaisServi /\ UseEnCours /\ UnVerrou
      /\ UneMemoire
  BY DEF Sain
<1>4. /\ traitement'[r].pas = "libre"
      /\ \A s \in Traitements \ {r} : traitement'[s] = traitement[s]
  BY EffetLiberer DEF FinirEntree, Ailleurs
<1>5. rafraichi'[t] = j /\ \A u \in Telephones \ {t} : rafraichi'[u] = rafraichi[u]
  BY <1>1, <1>2, EffetRanger
<1>6. \A u \in Telephones :
        promesse[u] # Aucun => promesse[u] \in Traitements \ {r} /\ Rotation(promesse[u])
  BY <1>2, <1>3 DEF UnVerrou, Rotation, TypeOK
<1>7. UnVerrou'
  <2>1. \A s \in Traitements : Rotation(s)' => s # r /\ Rotation(s)
    BY <1>4 DEF Rotation
  <2>2. \A u \in Telephones : promesse[u] # Aucun =>
          Rotation(promesse[u])' /\ traitement'[promesse[u]].tel = u
    BY <1>2, <1>3, <1>4, <1>6 DEF UnVerrou, Rotation
  <2>3. \A s \in Traitements : Rotation(s)' => promesse[traitement'[s].tel] = s
    BY <1>3, <1>4, <2>1 DEF UnVerrou
  <2> QED BY <1>2, <2>2, <2>3 DEF UnVerrou
<1>8. /\ \A u \in Telephones : rafraichi[u] # j
      /\ \A s \in Traitements \ {r} : Tient(s) => traitement[s].jeton # j
  BY <1>1, <1>3 DEF PorteurDuTelephone, UnPorteur, Tient, Presente
<1>9. jetons[j] # "use"
  BY <1>1, <1>3 DEF JamaisServi
<1> HIDE DEF t, j
<1>10. Calme'
  BY <1>2, <1>3, <1>4 DEF Calme, Au
<1>11. UneMemoire'
  BY <1>1, <1>3, <1>5, <1>8 DEF UneMemoire
<1>12. UnPorteur'
  BY <1>3, <1>4 DEF UnPorteur, Tient
<1>13. PorteurDuTelephone'
  BY <1>1, <1>3, <1>4, <1>5, <1>8 DEF PorteurDuTelephone, Tient, Presente
<1>14. JamaisServi'
  BY <1>2, <1>3, <1>4 DEF JamaisServi
<1>15. UseEnCours'
  BY <1>1, <1>2, <1>3, <1>4, <1>5, <1>6, <1>9 DEF UseEnCours
<1> QED BY <1>7, <1>10, <1>11, <1>12, <1>13, <1>14, <1>15 DEF Sain

(* A handler begins.                                                        *)
LEMMA SainEntrer ==
  ASSUME TypeOK, Base, Sain, NEW t \in Telephones, Entrer(t)
  PROVE  Sain'
<1>1. /\ Demarrer(t, "entree", Aucun, "compter")
      /\ UNCHANGED <<jetons, compromission, rafraichi, promesse>>
  BY DEF Entrer, memoire
<1>2. PICK l \in Traitements :
        /\ traitement[l].pas = "libre" /\ traitement'[l].pas = "compter"
        /\ traitement'[l].genre = "entree"
        /\ \A s \in Traitements \ {l} : traitement'[s] = traitement[s]
  <2>1. Aucun \in Nat /\ "compter" \in LesPas
    BY DEF Aucun, LesPas
  <2> QED BY <1>1, <2>1, EffetDemarrer DEF Ailleurs, Au
<1>3. /\ Calme /\ UnPorteur /\ PorteurDuTelephone /\ JamaisServi /\ UseEnCours /\ UnVerrou
      /\ UneMemoire
  BY DEF Sain
<1>4. \A u \in Telephones :
        promesse[u] # Aucun => promesse[u] \in Traitements \ {l} /\ Rotation(promesse[u])
  BY <1>2, <1>3 DEF UnVerrou, Rotation, TypeOK
<1>5. UnVerrou'
  <2>1. \A s \in Traitements : Rotation(s)' => s # l /\ Rotation(s)
    BY <1>2 DEF Rotation
  <2>2. \A u \in Telephones : promesse[u] # Aucun =>
          Rotation(promesse[u])' /\ traitement'[promesse[u]].tel = u
    BY <1>1, <1>2, <1>3, <1>4 DEF UnVerrou, Rotation
  <2>3. \A s \in Traitements : Rotation(s)' => promesse[traitement'[s].tel] = s
    BY <1>2, <1>3, <2>1 DEF UnVerrou
  <2> QED BY <1>1, <2>2, <2>3 DEF UnVerrou
<1>6. Calme' /\ UneMemoire'
  BY <1>1, <1>2, <1>3 DEF Calme, Au, UneMemoire
<1>7. UnPorteur'
  BY <1>2, <1>3 DEF UnPorteur, Tient
<1>8. PorteurDuTelephone'
  BY <1>1, <1>2, <1>3 DEF PorteurDuTelephone, Tient, Presente
<1>9. JamaisServi'
  BY <1>1, <1>2, <1>3 DEF JamaisServi
<1>10. UseEnCours'
  BY <1>1, <1>2, <1>3, <1>4 DEF UseEnCours
<1> QED BY <1>5, <1>6, <1>7, <1>8, <1>9, <1>10 DEF Sain

(* A telephone presents its token only when nobody presents it for it.      *)
LEMMA SainRafraichir ==
  ASSUME TypeOK, Base, Sain, NEW t \in Telephones, Rafraichir(t),
         UNCHANGED <<jetons, compromission, rafraichi>>
  PROVE  Sain'
<1>1. CASE UNCHANGED <<traitement, promesse>>
  BY <1>1 DEF Sain, Calme, UnVerrou, UneMemoire, UnPorteur, PorteurDuTelephone, JamaisServi,
     UseEnCours, Au, Tient, Presente, Rotation
<1>2. CASE promesse[t] = Aucun
  <2>1. PICK l \in Traitements :
          /\ traitement[l].pas = "libre" /\ l # Aucun
          /\ \A s \in Traitements \ {l} : traitement'[s] = traitement[s]
          /\ traitement'[l].pas = "chercher" /\ traitement'[l].jeton = rafraichi[t]
          /\ traitement'[l].tel = t /\ traitement'[l].genre = "rotation"
          /\ promesse' = [promesse EXCEPT ![t] = l]
    BY <1>2, EffetRafraichir DEF Ailleurs, Au
  <2>2. /\ \A u \in Telephones : promesse[u] \in Traitements \cup {Aucun}
        /\ promesse'[t] = l /\ \A u \in Telephones \ {t} : promesse'[u] = promesse[u]
    BY <2>1 DEF TypeOK
  <2>3. /\ Calme /\ UnPorteur /\ PorteurDuTelephone /\ JamaisServi /\ UseEnCours
        /\ UnVerrou /\ UneMemoire /\ EntreeDroite
    BY DEF Sain, Base
  <2>4. \A u \in Telephones :
          promesse[u] # Aucun => promesse[u] \in Traitements \ {l} /\ Rotation(promesse[u])
    BY <2>1, <2>2, <2>3 DEF UnVerrou, Rotation
  <2>5. UnVerrou'
    <3>1. ASSUME NEW s \in Traitements, Rotation(s)' PROVE promesse'[traitement'[s].tel] = s
      <4>1. CASE s = l
        BY <2>1, <2>2, <4>1
      <4>2. CASE s # l
        <5>1. Rotation(s) /\ traitement'[s] = traitement[s]
          BY <2>1, <3>1, <4>2 DEF Rotation
        <5>2. promesse[traitement[s].tel] = s /\ traitement[s].tel \in Telephones /\ s # Aucun
          BY <2>3, <5>1, SessionConstantes DEF UnVerrou, TypeOK, Traitement, Aucun
        <5> QED BY <1>2, <2>2, <5>1, <5>2
      <4> QED BY <4>1, <4>2
    <3>2. ASSUME NEW u \in Telephones, promesse'[u] # Aucun
          PROVE  Rotation(promesse[u])' /\ traitement'[promesse'[u]].tel = u
      <4>1. CASE u = t
        BY <2>1, <2>2, <4>1 DEF Rotation
      <4>2. CASE u # t
        BY <2>1, <2>2, <2>3, <2>4, <3>2, <4>2 DEF UnVerrou, Rotation
      <4> QED BY <4>1, <4>2
    <3> QED BY <3>1, <3>2 DEF UnVerrou
  <2>6. Calme' /\ UneMemoire'
    BY <2>1, <2>3 DEF Calme, Au, UneMemoire
  <2>7. ASSUME NEW s \in Traitements, Tient(s), rafraichi[t] # Aucun,
               traitement[s].jeton = rafraichi[t]
        PROVE  FALSE
    <3>1. Presente(s) /\ traitement[s].tel = t
      BY <2>3, <2>7 DEF PorteurDuTelephone
    <3>2. traitement[s].genre \in {"rotation", "entree"} /\ s # Aucun
      BY SessionConstantes DEF TypeOK, Traitement, Aucun
    <3>3. Rotation(s)
      BY <2>3, <3>1, <3>2 DEF EntreeDroite, Presente, Rotation
    <3> QED BY <1>2, <2>3, <3>1, <3>2, <3>3 DEF UnVerrou
  <2>8. UnPorteur'
    BY <2>1, <2>3, <2>7 DEF UnPorteur, Tient
  <2>9. PorteurDuTelephone'
    BY <2>1, <2>3 DEF PorteurDuTelephone, Tient, Presente, UneMemoire
  <2>10. rafraichi[t] # Aucun => jetons[rafraichi[t]] # "use"
    BY <1>2, <2>3 DEF UseEnCours
  <2>11. JamaisServi'
    BY <2>1, <2>3, <2>10 DEF JamaisServi
  <2>12. UseEnCours'
    BY <2>1, <2>2, <2>3, <2>4, <2>10 DEF UseEnCours
  <2> QED BY <2>5, <2>6, <2>8, <2>9, <2>11, <2>12 DEF Sain
<1> QED BY <1>1, <1>2, EffetRafraichir

(* Steps that give no token to anybody.                                     *)
LEMMA SainLocal ==
  ASSUME Sain, UNCHANGED <<jetons, traitement, compromission, promesse>>,
         \A t \in Telephones : rafraichi'[t] = rafraichi[t] \/ rafraichi'[t] = Aucun
  PROVE  Sain'
<1>1. Calme' /\ UnVerrou' /\ UnPorteur' /\ JamaisServi'
  BY DEF Sain, Calme, UnVerrou, UnPorteur, JamaisServi, Au, Tient, Rotation
<1>2. UneMemoire' /\ PorteurDuTelephone' /\ UseEnCours'
  BY DEF Sain, UneMemoire, PorteurDuTelephone, UseEnCours, Tient, Presente
<1> QED BY <1>1, <1>2 DEF Sain

(* A session closed from the settings: its token is revoked, not used.      *)
LEMMA SainSessions ==
  ASSUME TypeOK, Base, Sain, NEW t \in Telephones, RevoquerSessions(t)
  PROVE  Sain'
<1>1. /\ UNCHANGED <<traitement, compromission, promesse, rafraichi>>
      /\ \A j \in Jetons : jetons'[j] = "use" => jetons[j] = "use"
  BY EffetRevoquerSessions DEF RevoquerSessions, memoire
<1>2. /\ \A u \in Telephones : rafraichi[u] \in Jetons \cup {Aucun}
      /\ \A r \in Traitements : traitement[r].jeton \in Jetons \cup {Aucun}
  BY DEF Base, JetonsConnus
<1>3. Calme' /\ UnVerrou' /\ UneMemoire' /\ UnPorteur' /\ PorteurDuTelephone'
  BY <1>1 DEF Sain, Calme, UnVerrou, UneMemoire, UnPorteur, PorteurDuTelephone, Au, Tient,
     Presente, Rotation
<1>4. JamaisServi' /\ UseEnCours'
  BY <1>1, <1>2 DEF Sain, JamaisServi, UseEnCours
<1> QED BY <1>3, <1>4 DEF Sain

LEMMA SainNext ==
  ASSUME TypeOK, Base, Sain, [Next]_vars, pertes = 0, pertes' = 0, ~coupee', ~reinit
  PROVE  Sain'
<1>1. ASSUME NEW r \in Traitements, Servir(r) \/ FinirEntree(r) \/ Recevoir(r) PROVE Sain'
  BY <1>1, SainServir, SainFinirEntree, SainRecevoir
<1>2. ASSUME NEW t \in Telephones, Entrer(t) PROVE Sain'
  BY <1>2, SainEntrer
<1>3. ASSUME NEW t \in Telephones, Minuterie(t) PROVE Sain'
  BY <1>3, SainRafraichir DEF Minuterie, memoire
<1>4. ASSUME NEW q \in Requetes, Attendre(q) PROVE Sain'
  BY <1>4, PasAttendre, SainRafraichir DEF Attendre, memoire
<1>5. ASSUME NEW t \in Telephones, Abandonner(t) \/ Recharger(t) PROVE Sain'
  BY <1>5, EffetPerte DEF Abandonner, Recharger
<1>6. ASSUME NEW t \in Telephones, Deconnecter(t) PROVE Sain'
  BY <1>6, SainLocal, EffetOublier DEF Deconnecter, serveur, compte
<1>7. ASSUME NEW t \in Telephones, Perimer(t) PROVE Sain'
  BY <1>7, SainLocal DEF Perimer, serveur, compte
<1>8. ASSUME NEW q \in Requetes, Aboutir(q) \/ \E t \in Telephones : Envoyer(q, t) PROVE Sain'
  BY <1>8, SainLocal DEF Aboutir, Envoyer, serveur, compte, memoire
<1>9. ASSUME NEW q \in Requetes, Expulser(q) PROVE Sain'
  <2>1. requete[q].tel \in Telephones
    BY DEF TypeOK, Requete
  <2> QED BY <1>9, <2>1, SainLocal, EffetOublier DEF Expulser, serveur, compte
<1>10. CASE Suspendre \/ UNCHANGED vars \/ \E t \in Telephones : ChangerMotDePasse(t)
  BY <1>10, SainLocal DEF Suspendre, ChangerMotDePasse, memoire, vars, serveur
<1>11. ASSUME NEW t \in Telephones, RevoquerSessions(t) PROVE Sain'
  BY <1>11, SainSessions
<1>12. ~Reinitialiser /\ ~RevoquerReinit /\ \A t \in Telephones : ~DeconnecterPartout(t)
  BY DEF Reinitialiser, RevoquerReinit, DeconnecterPartout
<1> QED
  BY <1>1, <1>2, <1>3, <1>4, <1>5, <1>6, <1>7, <1>8, <1>9, <1>10, <1>11, <1>12 DEF Next

----------------------------------------------------------------------------
(* A token nobody holds any more stays revoked, and excuses every failure.  *)

LEMMA PerduReste ==
  ASSUME NEW j \in Jetons, Perdu(j), j \in Jetons', jetons'[j] = "revoque",
         \A t \in Telephones : rafraichi'[t] = rafraichi[t] \/ rafraichi'[t] # j,
         \A r \in Traitements : Tient(r)' =>
           traitement'[r].jeton # j \/ traitement'[r] = traitement[r]
  PROVE  Mort'
<1>1. Perdu(j)'
  BY DEF Perdu, Tient
<1> QED BY <1>1 DEF Mort

LEMMA MortServir ==
  ASSUME TypeOK, Base, Sain, Mort, NEW r \in Traitements, Servir(r)
  PROVE  Mort'
<1>0. PICK j \in Jetons : Perdu(j)
  BY DEF Mort
<1>1. /\ Jetons \subseteq Jetons' /\ rafraichi' = rafraichi
      /\ \A s \in Traitements \ {r} : traitement'[s] = traitement[s]
      /\ ~Enregistrer(r) => traitement'[r].jeton = traitement[r].jeton
  BY EffetServir DEF Ailleurs, Inchangees, memoire
<1>2. jetons[j] = "revoque" /\ (Tient(r) => traitement[r].jeton # j)
  BY <1>0 DEF Perdu
<1>3. jetons'[j] = "revoque" /\ (Tient(r)' => traitement'[r].jeton # j)
  <2>1. CASE Chercher(r)
    BY <1>1, <1>2, <2>1 DEF Chercher, Enregistrer, Tient, Au
  <2>2. CASE RevoquerTout(r)
    BY <2>2 DEF RevoquerTout, Sain, Calme
  <2>3. CASE Marquer(r)
    <3>1. traitement'[r].pas = "compter"
      BY <2>3, EffetPas DEF Marquer, LesPas
    <3>2. traitement[r].jeton # j
      BY <1>2, <2>3 DEF Marquer, Tient, Au
    <3> QED BY <1>2, <2>3, <3>1, <3>2, EffetMarquer DEF Tient
  <2>4. CASE Compter(r)
    <3>1. traitement \in [Traitements -> Traitement] /\ traitement[r] \in Traitement
      BY DEF TypeOK
    <3>2. traitement'[r].pas = "revoquer"
      BY <2>4, <3>1 DEF Compter, Traitement
    <3> QED BY <1>2, <2>4, <3>2 DEF Compter, Tient
  <2>5. CASE Revoquer(r)
    <3>1. traitement'[r].pas = "enregistrer"
      BY <2>5, EffetPas DEF Revoquer, LesPas
    <3> QED BY <1>2, <2>5, <3>1, EffetRevoquer DEF Tient
  <2>6. CASE Enregistrer(r)
    BY <1>2, <2>6, EffetEnregistrer
  <2> QED BY <2>1, <2>2, <2>3, <2>4, <2>5, <2>6 DEF Servir
<1>4. \A s \in Traitements : Tient(s)' =>
        traitement'[s].jeton # j \/ traitement'[s] = traitement[s]
  BY <1>1, <1>3
<1> QED BY <1>0, <1>1, <1>3, <1>4, PerduReste

(* On the telephone, a handler begins with a stored token or with none, and *)
(* a token is stored that a handler held.                                   *)
LEMMA MortTelephone ==
  ASSUME Mort, jetons' = jetons, TypeOK,
         \A r \in Traitements :
           \/ traitement'[r] = traitement[r]
           \/ traitement'[r].pas \in {"libre", "compter"}
           \/ \E t \in Telephones : traitement'[r].jeton = rafraichi[t],
         \A t \in Telephones :
           \/ rafraichi'[t] = rafraichi[t]
           \/ rafraichi'[t] = Aucun
           \/ \E r \in Traitements : Tient(r) /\ rafraichi'[t] = traitement[r].jeton
  PROVE  Mort'
<1>0. PICK j \in Jetons : Perdu(j)
  BY DEF Mort
<1>1. j \in Jetons' /\ jetons'[j] = "revoque" /\ j # Aucun
  BY <1>0, Numeros DEF Perdu, Jetons
<1>2. \A t \in Telephones : rafraichi'[t] = rafraichi[t] \/ rafraichi'[t] # j
  BY <1>0, <1>1 DEF Perdu
<1>3. \A r \in Traitements : Tient(r)' =>
        traitement'[r].jeton # j \/ traitement'[r] = traitement[r]
  BY <1>0 DEF Perdu, Tient
<1> QED BY <1>0, <1>1, <1>2, <1>3, PerduReste

LEMMA MortNext ==
  ASSUME TypeOK, Base, Sain, Mort, [Next]_vars, pertes = 0, pertes' = 0, ~coupee', ~reinit
  PROVE  Mort'
<1>1. ASSUME NEW r \in Traitements, Servir(r) PROVE Mort'
  BY <1>1, MortServir
<1>2. ASSUME NEW r \in Traitements, FinirEntree(r) PROVE Mort'
  <2>1. /\ traitement[r].tel \in Telephones /\ traitement[r].jeton \in Nat /\ Tient(r)
    BY <1>2, PasFinirEntree DEF TypeOK, Traitement, Tient, Au
  <2>2. /\ rafraichi'[traitement[r].tel] = traitement[r].jeton
        /\ \A u \in Telephones \ {traitement[r].tel} : rafraichi'[u] = rafraichi[u]
    BY <1>2, <2>1, EffetRanger DEF FinirEntree
  <2>3. /\ traitement'[r].pas = "libre" /\ jetons' = jetons
        /\ \A s \in Traitements \ {r} : traitement'[s] = traitement[s]
    BY <1>2, EffetLiberer DEF FinirEntree, Ailleurs
  <2> QED BY <2>1, <2>2, <2>3, MortTelephone
<1>3. ASSUME NEW r \in Traitements, Recevoir(r) PROVE Mort'
  <2> DEFINE t == traitement[r].tel
  <2>1. t \in Telephones /\ traitement[r].jeton \in Nat
    BY DEF TypeOK, Traitement
  <2>2. /\ traitement'[r].pas = "libre" /\ jetons' = jetons
        /\ \A s \in Traitements \ {r} : traitement'[s] = traitement[s]
    BY <1>3, EffetLiberer DEF Recevoir, Ailleurs
  <2>3. /\ \A u \in Telephones \ {t} : rafraichi'[u] = rafraichi[u]
        /\ \/ rafraichi'[t] = rafraichi[t]
           \/ rafraichi'[t] = Aucun
           \/ rafraichi'[t] = traitement[r].jeton /\ Tient(r)
    <3>1. CASE UNCHANGED memoire
      BY <2>1, <3>1 DEF memoire
    <3>2. CASE Ranger(t, traitement[r].jeton) /\ Au(r, "succes")
      BY <2>1, <3>2, EffetRanger DEF Tient, Au
    <3>3. CASE Renoncer(t)
      BY <2>1, <3>3, EffetRenoncer, EffetOublier DEF memoire
    <3> QED BY <1>3, <3>1, <3>2, <3>3 DEF Recevoir
  <2> HIDE DEF t
  <2> QED BY <2>1, <2>2, <2>3, MortTelephone
<1>4. ASSUME NEW t \in Telephones, Entrer(t) PROVE Mort'
  <2>1. "compter" \in LesPas /\ Aucun \in Nat
    BY DEF LesPas, Aucun
  <2>2. \A s \in Traitements : traitement'[s] = traitement[s] \/ traitement'[s].pas = "compter"
    BY <1>4, <2>1, EffetDemarrer DEF Entrer, Ailleurs
  <2> QED BY <1>4, <2>2, MortTelephone DEF Entrer, memoire
<1>5. ASSUME NEW t \in Telephones, Rafraichir(t), UNCHANGED <<jetons, memoire>> PROVE Mort'
  <2>1. \A s \in Traitements : \/ traitement'[s] = traitement[s]
                              \/ traitement'[s].jeton = rafraichi[t]
    BY <1>5, EffetRafraichir DEF Ailleurs
  <2> QED BY <1>5, <2>1, MortTelephone DEF memoire
<1>6. ASSUME NEW q \in Requetes, Attendre(q) PROVE Mort'
  BY <1>5, <1>6, PasAttendre DEF Attendre
<1>7. ASSUME UNCHANGED <<jetons, traitement>>,
             \A t \in Telephones : rafraichi'[t] = rafraichi[t] \/ rafraichi'[t] = Aucun
      PROVE  Mort'
  BY <1>7, MortTelephone
<1>8. ASSUME NEW t \in Telephones, Deconnecter(t) PROVE Mort'
  BY <1>7, <1>8, EffetOublier DEF Deconnecter, serveur, compte
<1>9. ASSUME NEW t \in Telephones, Abandonner(t) \/ Recharger(t) PROVE Mort'
  BY <1>9, EffetPerte DEF Abandonner, Recharger
<1>10. ASSUME NEW q \in Requetes, Expulser(q) PROVE Mort'
  <2>1. requete[q].tel \in Telephones
    BY DEF TypeOK, Requete
  <2> QED BY <1>7, <1>10, <2>1, EffetOublier DEF Expulser, serveur, compte
<1>11. ASSUME NEW t \in Telephones, Perimer(t) PROVE Mort'
  BY <1>7, <1>11 DEF Perimer, serveur, compte
<1>12. ASSUME NEW q \in Requetes, Aboutir(q) \/ \E t \in Telephones : Envoyer(q, t) PROVE Mort'
  BY <1>7, <1>12 DEF Aboutir, Envoyer, serveur, compte, memoire
<1>13. CASE Suspendre \/ UNCHANGED vars \/ \E t \in Telephones : ChangerMotDePasse(t)
  BY <1>7, <1>13 DEF Suspendre, ChangerMotDePasse, memoire, vars, serveur
<1>14. ASSUME NEW t \in Telephones, Minuterie(t) PROVE Mort'
  BY <1>5, <1>14 DEF Minuterie
<1>15. ASSUME NEW t \in Telephones, RevoquerSessions(t) PROVE Mort'
  <2>1. PICK j \in Jetons : Perdu(j)
    BY DEF Mort
  <2>2. j \in Jetons' /\ jetons'[j] = "revoque"
    BY <1>15, <2>1, EffetRevoquerSessions DEF Perdu
  <2>3. UNCHANGED <<traitement, rafraichi>>
    BY <1>15 DEF RevoquerSessions, memoire
  <2> QED BY <2>1, <2>2, <2>3, PerduReste
<1>16. ~Reinitialiser /\ ~RevoquerReinit /\ \A t \in Telephones : ~DeconnecterPartout(t)
  BY DEF Reinitialiser, RevoquerReinit, DeconnecterPartout
<1> QED
  BY <1>1, <1>2, <1>3, <1>4, <1>6, <1>8, <1>9, <1>10, <1>11, <1>12, <1>13, <1>14, <1>15, <1>16
     DEF Next

(* Until a token is lost that way, nothing fails.                           *)
EnCours(q) == requete[q].pas \in {"envoi", "attente", "rejeu"}

LEMMA JustesServir ==
  ASSUME TypeOK, Base, Sain, Justes, NEW r \in Traitements, Servir(r)
  PROVE  Justes'
<1>0. /\ UNCHANGED <<requete, connectee>>
      /\ \A s \in Traitements \ {r} : traitement'[s] = traitement[s]
      /\ ~Enregistrer(r) => traitement'[r].jeton = traitement[r].jeton
  BY EffetServir DEF Ailleurs, Inchangees, memoire
<1>1. SansEchec /\ Connectees /\ RechercheArmee /\ RefusJuste /\ UnPorteur /\ JetonsConnus
  BY DEF Justes, Sain, Base
<1>2. SansEchec' /\ Connectees'
  BY <1>0, <1>1 DEF SansEchec, Connectees
<1>3. CASE Chercher(r)
  <2>1. Pas(r, Suite(traitement[r].jeton)) /\ Suite(traitement[r].jeton) \in LesPas
        /\ traitement[r].pas = "chercher" /\ jetons' = jetons
    BY <1>3 DEF Chercher, Suite, LesPas, Au
  <2>2. /\ traitement'[r].pas = Suite(traitement[r].jeton)
        /\ traitement'[r].jeton = traitement[r].jeton
    BY <2>1, EffetPas
  <2>3. traitement[r].jeton # Aucun /\ traitement'[r].pas # "chercher"
    BY <1>1, <2>1, <2>2 DEF RechercheArmee, Suite, Au
  <2>4. traitement'[r].pas = "echec" => jetons[traitement[r].jeton] = "revoque"
    BY <2>2, <2>3 DEF Suite
  <2>5. RechercheArmee'
    BY <1>0, <1>1, <2>3 DEF RechercheArmee, Au
  <2>6. RefusJuste'
    BY <1>0, <1>1, <2>1, <2>2, <2>3, <2>4 DEF RefusJuste, Au
  <2> QED BY <1>2, <2>5, <2>6 DEF Justes
<1>4. CASE RevoquerTout(r)
  BY <1>4 DEF RevoquerTout, Sain, Calme
<1>5. ASSUME traitement'[r].pas \in {"compter", "revoquer", "enregistrer", "succes"},
             \A s \in Traitements \ {r} : Au(s, "echec") /\ jetons[traitement[s].jeton] = "revoque"
                                          => jetons'[traitement[s].jeton] = "revoque"
      PROVE  Justes'
  <2>1. RechercheArmee'
    BY <1>0, <1>1, <1>5 DEF RechercheArmee, Au
  <2>2. RefusJuste'
    BY <1>0, <1>1, <1>5 DEF RefusJuste, Au
  <2> QED BY <1>2, <2>1, <2>2 DEF Justes
<1>6. CASE Marquer(r)
  <2>1. traitement'[r].pas = "compter" /\ Tient(r) /\ traitement[r].jeton # Aucun
    BY <1>6, EffetPas DEF Marquer, LesPas, Tient, Au, Base, JetonDonne
  <2>2. \A s \in Traitements \ {r} : Au(s, "echec") => traitement[s].jeton # traitement[r].jeton
    BY <1>1, <2>1 DEF UnPorteur, Tient, Au
  <2>3. \A s \in Traitements : Au(s, "echec") => traitement[s].jeton \in Jetons
    BY <1>1 DEF RefusJuste, JetonsConnus
  <2> QED BY <1>5, <1>6, <2>1, <2>2, <2>3, EffetMarquer
<1>7. CASE Compter(r)
  <2>1. traitement \in [Traitements -> Traitement] /\ traitement[r] \in Traitement
    BY DEF TypeOK
  <2>2. traitement'[r].pas = "revoquer" /\ jetons' = jetons
    BY <1>7, <2>1 DEF Compter, Traitement
  <2> QED BY <1>5, <2>2
<1>8. ASSUME NEW s \in Traitements, Au(s, "echec") PROVE traitement[s].jeton \in Jetons
  BY <1>1, <1>8 DEF RefusJuste, JetonsConnus
<1>9. CASE Revoquer(r)
  <2>1. traitement'[r].pas = "enregistrer"
    BY <1>9, EffetPas DEF Revoquer, LesPas
  <2> QED BY <1>5, <1>8, <1>9, <2>1, EffetRevoquer
<1>10. CASE Enregistrer(r)
  BY <1>5, <1>8, <1>10, EffetEnregistrer
<1> QED BY <1>3, <1>4, <1>6, <1>7, <1>9, <1>10 DEF Servir

LEMMA JustesTelephone ==
  ASSUME TypeOK, Justes, jetons' = jetons,
         \A r \in Traitements :
           \/ traitement'[r] = traitement[r]
           \/ traitement'[r].pas \in {"libre", "compter"}
           \/ traitement'[r].pas = "chercher" /\ traitement'[r].jeton # Aucun,
         \A t \in Telephones : connectee[t] => connectee'[t],
         \A q \in Requetes :
           /\ requete'[q].pas # "echec"
           /\ EnCours(q)' => \/ EnCours(q) /\ requete'[q].tel = requete[q].tel
                             \/ connectee'[requete'[q].tel]
  PROVE  Justes'
<1>1. SansEchec' /\ RechercheArmee' /\ RefusJuste'
  BY DEF Justes, SansEchec, RechercheArmee, RefusJuste, Au
<1>2. \A q \in Requetes : requete[q].tel \in Telephones
  BY DEF TypeOK, Requete
<1>3. Connectees'
  BY <1>2 DEF Justes, Connectees, EnCours
<1> QED BY <1>1, <1>3 DEF Justes

(* The answer of a refresh: the token it presented, refused, is the witness. *)
LEMMA JustesRecevoir ==
  ASSUME TypeOK, Base, Sain, Justes, NEW r \in Traitements, Recevoir(r)
  PROVE  Excuse'
<1> DEFINE t == traitement[r].tel
           j == traitement[r].jeton
<1>1. t \in Telephones /\ j \in Nat /\ jetons' = jetons
  BY DEF TypeOK, Traitement, Recevoir
<1>2. /\ traitement'[r].pas = "libre"
      /\ \A s \in Traitements \ {r} : traitement'[s] = traitement[s]
  BY EffetLiberer DEF Recevoir, Ailleurs
<1>3. \A q \in Requetes : requete[q].pas # "echec"
  BY DEF Justes, SansEchec
<1> HIDE DEF t, j
<1>4. CASE UNCHANGED <<memoire, requete>>
  BY <1>1, <1>2, <1>3, <1>4, JustesTelephone DEF memoire, EnCours, Excuse
<1>5. CASE Rejouer(t, "valide") /\ UNCHANGED connectee
  <2>1. \A q \in Requetes : \/ requete'[q] = requete[q]
                           \/ /\ requete[q].pas = "attente" /\ requete'[q].pas = "rejeu"
                              /\ requete'[q].tel = requete[q].tel
    BY <1>1, <1>5, EffetRejouer
  <2>2. \A q \in Requetes : requete'[q].pas # "echec"
    BY <1>3, <2>1
  <2>3. \A q \in Requetes : EnCours(q)' => EnCours(q) /\ requete'[q].tel = requete[q].tel
    BY <2>1 DEF EnCours
  <2> QED BY <1>1, <1>2, <1>5, <2>2, <2>3, JustesTelephone DEF Excuse
<1>6. CASE Oublier(t) /\ Au(r, "echec")
  <2>1. /\ j # Aucun /\ jetons[j] = "revoque" /\ j \in Jetons /\ Tient(r)
    BY <1>6 DEF Justes, RefusJuste, Base, JetonsConnus, Tient, Au, j
  <2>2. /\ rafraichi'[t] = Aucun
        /\ \A u \in Telephones \ {t} : rafraichi'[u] = rafraichi[u]
    BY <1>1, <1>6, EffetOublier
  <2>3. \A u \in Telephones \ {t} : rafraichi[u] # j
    BY <2>1 DEF Sain, PorteurDuTelephone, t, j
  <2>4. \A s \in Traitements \ {r} : Tient(s) => traitement[s].jeton # j
    BY <2>1 DEF Sain, UnPorteur, j
  <2>5. j \in Jetons' /\ jetons'[j] = "revoque"
    BY <1>1, <2>1 DEF Jetons
  <2>6. PICK k \in Jetons' : k = j
    BY <2>5
  <2>7. Perdu(k)'
    BY <1>2, <2>1, <2>2, <2>3, <2>4, <2>5, <2>6 DEF Perdu, Tient
  <2> QED BY <2>7 DEF Mort, Excuse
<1>7. CASE Renoncer(t) /\ Au(r, "echec")
  BY <1>1, <1>4, <1>6, <1>7, EffetRenoncer
<1> QED BY <1>4, <1>5, <1>7 DEF Recevoir, t, j

LEMMA Bornes ==
  ASSUME TypeOK, [Next]_vars
  PROVE  /\ pertes \in Nat /\ (pertes' = 0 => pertes = 0)
         /\ ~depart' => ~depart
         /\ ~suspendu' => ~suspendu
         /\ ~coupee' => ~coupee
         /\ (doitChanger \/ reinit => coupee) => (doitChanger' \/ reinit' => coupee')
<1>1. pertes \in Nat
  BY SessionConstantes DEF TypeOK
<1>2. pertes' = pertes \/ pertes' = pertes + 1
  BY Zenon DEF bornes, Echeance, Perte, Coupure, Next, vars, Servir, FinirEntree, Recevoir, Entrer, Deconnecter, Minuterie,
     Abandonner, Recharger, Perimer, Envoyer, Aboutir, Attendre, Expulser, Suspendre,
     Reinitialiser, RevoquerReinit, ChangerMotDePasse, DeconnecterPartout, RevoquerSessions
<1>3. depart' = depart \/ depart' = TRUE
  BY Zenon DEF bornes, Next, vars, Servir, FinirEntree, Recevoir, Entrer, Deconnecter, Minuterie,
     Abandonner, Recharger, Perimer, Envoyer, Aboutir, Attendre, Expulser, Suspendre,
     Reinitialiser, RevoquerReinit, ChangerMotDePasse, DeconnecterPartout, RevoquerSessions
<1>4. suspendu' = suspendu \/ suspendu' = TRUE
  BY Zenon DEF serveur, compte, Next, vars, Servir, FinirEntree, Recevoir, Entrer, Deconnecter, Minuterie,
     Abandonner, Recharger, Perimer, Envoyer, Aboutir, Attendre, Expulser, Suspendre,
     Reinitialiser, RevoquerReinit, ChangerMotDePasse, DeconnecterPartout, RevoquerSessions
<1>5. coupee' = coupee \/ coupee' = TRUE
  BY Zenon DEF serveur, compte, Next, vars, Servir, FinirEntree, Recevoir, Entrer, Deconnecter, Minuterie,
     Abandonner, Recharger, Perimer, Envoyer, Aboutir, Attendre, Expulser, Suspendre,
     Reinitialiser, RevoquerReinit, ChangerMotDePasse, DeconnecterPartout, RevoquerSessions
<1>6. \/ coupee' = TRUE
      \/ /\ coupee' = coupee
         /\ doitChanger' = doitChanger \/ doitChanger' = FALSE
         /\ reinit' = reinit \/ reinit' = FALSE
  BY Zenon DEF serveur, compte, Next, vars, Servir, FinirEntree, Recevoir, Entrer, Deconnecter, Minuterie,
     Abandonner, Recharger, Perimer, Envoyer, Aboutir, Attendre, Expulser, Suspendre,
     Reinitialiser, RevoquerReinit, ChangerMotDePasse, DeconnecterPartout, RevoquerSessions
<1> QED BY <1>1, <1>2, <1>3, <1>4, <1>5, <1>6

LEMMA JustesNext ==
  ASSUME TypeOK, Base, Sain, Justes, [Next]_vars, pertes = 0, pertes' = 0, ~depart', ~suspendu,
         ~coupee', ~reinit, ~doitChanger
  PROVE  Excuse'
<1>0. /\ \A q \in Requetes : requete[q].pas # "echec"
      /\ \A q \in Requetes : EnCours(q) => connectee[requete[q].tel]
      /\ \A t \in Telephones : connectee[t] => rafraichi[t] # Aucun
      /\ connectee \in [Telephones -> BOOLEAN] /\ requete \in [Requetes -> Requete]
  BY DEF Justes, SansEchec, Connectees, EnCours, Base, ConnecteeArmee, TypeOK
<1>1. ASSUME NEW r \in Traitements, Servir(r) PROVE Excuse'
  BY <1>1, JustesServir DEF Excuse
<1>2. ASSUME NEW r \in Traitements, Recevoir(r) PROVE Excuse'
  BY <1>2, JustesRecevoir
<1>3. ASSUME NEW r \in Traitements, FinirEntree(r) PROVE Excuse'
  <2>1. /\ traitement'[r].pas = "libre" /\ UNCHANGED <<jetons, requete>>
        /\ \A s \in Traitements \ {r} : traitement'[s] = traitement[s]
        /\ connectee' = [connectee EXCEPT ![traitement[r].tel] = TRUE]
    BY <1>3, EffetLiberer DEF FinirEntree, Ailleurs
  <2>2. \A t \in Telephones : connectee[t] => connectee'[t]
    BY <1>0, <2>1
  <2> QED BY <1>0, <2>1, <2>2, JustesTelephone DEF Excuse, EnCours
<1>4. ASSUME NEW t \in Telephones, Entrer(t) PROVE Excuse'
  <2>1. "compter" \in LesPas /\ Aucun \in Nat
    BY DEF LesPas, Aucun
  <2>2. \A s \in Traitements : traitement'[s] = traitement[s] \/ traitement'[s].pas = "compter"
    BY <1>4, <2>1, EffetDemarrer DEF Entrer, Ailleurs
  <2> QED BY <1>0, <1>4, <2>2, JustesTelephone DEF Entrer, memoire, Excuse, EnCours
<1>5. ASSUME NEW t \in Telephones, Rafraichir(t), UNCHANGED <<jetons, memoire>>, connectee[t],
             \A q \in Requetes :
               /\ requete'[q].pas # "echec"
               /\ EnCours(q)' => EnCours(q) /\ requete'[q].tel = requete[q].tel
      PROVE  Excuse'
  <2>1. \A s \in Traitements :
          \/ traitement'[s] = traitement[s]
          \/ traitement'[s].pas = "chercher" /\ traitement'[s].jeton # Aucun
    BY <1>0, <1>5, EffetRafraichir DEF Ailleurs
  <2> QED BY <1>5, <2>1, JustesTelephone DEF memoire, Excuse
<1>6. ASSUME NEW t \in Telephones, Minuterie(t) PROVE Excuse'
  BY <1>0, <1>5, <1>6 DEF Minuterie, EnCours
<1>7. ASSUME NEW q \in Requetes, Attendre(q) PROVE Excuse'
  <2>1. EnCours(q) /\ connectee[requete[q].tel]
    BY <1>0, <1>7 DEF Attendre, EnCours
  <2>2. /\ requete[q].tel \in Telephones
        /\ requete'[q].pas = "attente" /\ requete'[q].tel = requete[q].tel
        /\ \A p \in Requetes \ {q} : requete'[p] = requete[p]
    BY <1>7, PasAttendre
  <2>3. \A p \in Requetes :
          /\ requete'[p].pas # "echec"
          /\ EnCours(p)' => EnCours(p) /\ requete'[p].tel = requete[p].tel
    BY <1>0, <2>1, <2>2 DEF EnCours
  <2> QED BY <1>5, <1>7, <2>1, <2>2, <2>3 DEF Attendre
<1>8. ASSUME UNCHANGED <<jetons, traitement, connectee>>,
             \A q \in Requetes :
               /\ requete'[q].pas # "echec"
               /\ EnCours(q)' => \/ EnCours(q) /\ requete'[q].tel = requete[q].tel
                                 \/ connectee'[requete'[q].tel]
      PROVE  Excuse'
  BY <1>8, JustesTelephone DEF Excuse
<1>9. ASSUME NEW q \in Requetes, NEW t \in Telephones, Envoyer(q, t) PROVE Excuse'
  <2>1. /\ requete'[q].pas = "envoi" /\ requete'[q].tel = t /\ connectee[t]
        /\ \A p \in Requetes \ {q} : requete'[p] = requete[p]
        /\ UNCHANGED <<jetons, traitement, connectee>>
    BY <1>0, <1>9 DEF Envoyer, serveur, compte, memoire
  <2> QED BY <1>0, <1>8, <2>1 DEF EnCours
<1>10. ASSUME NEW q \in Requetes, Aboutir(q) PROVE Excuse'
  <2>1. /\ requete'[q].pas = "fini"
        /\ \A p \in Requetes \ {q} : requete'[p] = requete[p]
        /\ UNCHANGED <<jetons, traitement, connectee>>
    BY <1>0, <1>10, SansEnvoiType DEF Aboutir, serveur, compte, memoire
  <2> QED BY <1>0, <1>8, <2>1 DEF EnCours
<1>11. ASSUME NEW q \in Requetes, Expulser(q) PROVE Excuse'
  BY <1>11 DEF Expulser, Admise, Base, RejeuFrais
<1>12. ASSUME NEW t \in Telephones, Perimer(t) PROVE Excuse'
  <2>1. \A q \in Requetes : requete'[q].pas = requete[q].pas /\ requete'[q].tel = requete[q].tel
    <3>1. \A q \in Requetes :
            LET x == [requete[q] EXCEPT !.acces = "expire"]
            IN  x.pas = requete[q].pas /\ x.tel = requete[q].tel
      BY <1>0 DEF Requete
    <3> QED BY <1>12, <3>1 DEF Perimer
  <2>2. UNCHANGED <<jetons, traitement, connectee>>
    BY <1>12 DEF Perimer, serveur, compte
  <2> QED BY <1>0, <1>8, <2>1, <2>2 DEF EnCours
<1>13. ASSUME NEW t \in Telephones, Abandonner(t) \/ Recharger(t) PROVE Excuse'
  BY <1>13, EffetPerte DEF Abandonner, Recharger
<1>14. ASSUME NEW t \in Telephones, Deconnecter(t) PROVE Excuse'
  BY <1>14 DEF Deconnecter
<1>15. CASE Suspendre \/ UNCHANGED vars \/ \E t \in Telephones : ChangerMotDePasse(t)
  BY <1>0, <1>8, <1>15 DEF Suspendre, ChangerMotDePasse, memoire, vars, serveur, EnCours
<1>16. ASSUME NEW t \in Telephones, RevoquerSessions(t) PROVE Excuse'
  <2>1. UNCHANGED <<traitement, connectee, requete>>
    BY <1>16 DEF RevoquerSessions, memoire
  <2>2. \A r \in Traitements : traitement[r].jeton \in Jetons \cup {Aucun}
    BY DEF Base, JetonsConnus
  <2>3. RefusJuste'
    BY <1>16, <2>1, <2>2, EffetRevoquerSessions DEF Justes, RefusJuste, Au
  <2>4. SansEchec' /\ Connectees' /\ RechercheArmee'
    BY <2>1 DEF Justes, SansEchec, Connectees, RechercheArmee, Au
  <2> QED BY <2>3, <2>4 DEF Excuse, Justes
<1>17. ~Reinitialiser /\ ~RevoquerReinit /\ \A t \in Telephones : ~DeconnecterPartout(t)
  BY DEF Reinitialiser, RevoquerReinit, DeconnecterPartout
<1> QED
  BY <1>1, <1>2, <1>3, <1>4, <1>6, <1>7, <1>9, <1>10, <1>11, <1>12, <1>13, <1>14, <1>15, <1>16,
     <1>17 DEF Next

----------------------------------------------------------------------------
LEMMA SInvInit == Init => SInv
<1> SUFFICES ASSUME Init PROVE SInv
  OBVIOUS
<1>1. TypeOK /\ Base
  BY BaseInit
<1>2. /\ \A r \in Traitements : traitement[r].pas = "libre"
      /\ \A t \in Telephones : rafraichi[t] = Aucun /\ promesse[t] = Aucun
      /\ \A q \in Requetes : requete[q].pas = "neuve"
      /\ ~compromission
  BY DEF Init, Repos, SansEnvoi
<1>3. Calme /\ UnVerrou /\ UneMemoire /\ UnPorteur /\ PorteurDuTelephone
  BY <1>2 DEF Calme, UnVerrou, UneMemoire, UnPorteur, PorteurDuTelephone, Au, Rotation, Tient
<1>4. JamaisServi /\ UseEnCours
  BY <1>2 DEF JamaisServi, UseEnCours
<1>5. Justes
  BY <1>2 DEF Justes, SansEchec, Connectees, RechercheArmee, RefusJuste, Au
<1>6. ~doitChanger /\ ~reinit
  BY DEF Init
<1> QED BY <1>1, <1>3, <1>4, <1>5, <1>6 DEF SInv, Sain, Excuse

LEMMA SInvNext == SInv /\ [Next]_vars => SInv'
<1> SUFFICES ASSUME SInv, [Next]_vars PROVE SInv'
  OBVIOUS
<1>0. TypeOK /\ Base
  BY DEF SInv
<1>1. TypeOK' /\ Base'
  BY <1>0, BaseNext
<1>2. /\ pertes' = 0 => pertes = 0
      /\ ~depart' => ~depart
      /\ ~suspendu' => ~suspendu
      /\ ~coupee' => ~coupee /\ ~reinit /\ ~doitChanger
      /\ doitChanger' \/ reinit' => coupee'
  BY <1>0, Bornes DEF SInv
<1>3. pertes' = 0 /\ ~coupee' => Sain'
  BY <1>0, <1>2, SainNext DEF SInv
<1>4. pertes' = 0 /\ ~coupee' /\ ~depart' /\ ~suspendu' => Excuse'
  <2> SUFFICES ASSUME pertes' = 0, ~coupee', ~depart', ~suspendu' PROVE Excuse'
    OBVIOUS
  <2>1. /\ Sain /\ (Mort \/ Justes) /\ pertes = 0 /\ ~suspendu
        /\ ~reinit /\ ~doitChanger
    BY <1>2 DEF SInv, Excuse
  <2>2. CASE Mort
    BY <1>0, <2>1, <2>2, MortNext DEF Excuse
  <2>3. CASE Justes
    BY <1>0, <2>1, <2>3, JustesNext
  <2> QED BY <2>1, <2>2, <2>3
<1> QED BY <1>1, <1>2, <1>3, <1>4 DEF SInv

THEOREM SessionSaine == Spec => []SInv
BY SInvInit, SInvNext, PTL DEF Spec

(* The types of the tokens, of the handlers and of the telephones.          *)
THEOREM TypesSession == Spec => []TypeOK
<1>1. SInv => TypeOK
  BY DEF SInv
<1> QED BY <1>1, SessionSaine, PTL

(* Her sessions are all revoked as stolen only if a refresh was cut short,  *)
(* or if an administrator's reset, logout-all or the deletion of the account *)
(* had marked her tokens used: refreshes asked at once, logins elsewhere,    *)
(* the limit of sessions and a session closed from the settings are never    *)
(* taken for a theft by rotateRefreshToken, though it takes no lock.         *)
THEOREM VolJamaisImagine == Spec => []RevocationSurPerteSeulement
<1>1. SInv => RevocationSurPerteSeulement
  <2> SUFFICES ASSUME SInv, compromission, ~coupee PROVE pertes > 0
    BY DEF RevocationSurPerteSeulement
  <2>1. pertes \in Nat
    BY SessionConstantes DEF SInv, TypeOK
  <2>2. pertes # 0
    BY DEF SInv, Sain, Calme
  <2> QED BY <2>1, <2>2
<1> QED BY <1>1, SessionSaine, PTL

(* A request of apiRequest fails for want of a session only when a refresh  *)
(* was lost, she logged out, she is suspended, her sessions were ended by   *)
(* hand, or one of her tokens was closed by the limit or from the settings: *)
(* the expiry of an access token alone is never shown.                      *)
THEOREM EchecToujoursJustifie == Spec => []EchecJustifie
<1>1. SInv => EchecJustifie
  <2> SUFFICES ASSUME SInv, NEW q \in Requetes, requete[q].pas = "echec",
                      ~(pertes > 0), ~depart, ~suspendu, ~coupee
               PROVE  \E j \in Jetons : jetons[j] = "revoque"
    BY DEF EchecJustifie
  <2>1. pertes = 0
    BY SessionConstantes DEF SInv, TypeOK
  <2>2. Mort
    BY <2>1 DEF SInv, Excuse, Justes, SansEchec
  <2> QED BY <2>2 DEF Mort, Perdu
<1> QED BY <1>1, SessionSaine, PTL

=============================================================================

------------------------------- MODULE Session -------------------------------
(***************************************************************************)
(* The sessions of one merchant on her telephones: the rotation of refresh  *)
(* tokens by the server (auth.service.ts) and the client that asks for it   *)
(* (api-client.ts, the timer and the screens of AppContext.tsx).            *)
(*                                                                          *)
(* A refresh token serves once: the server marks it used and gives its      *)
(* successor. A used token that comes back revokes every session of the     *)
(* merchant. The client therefore has one door, rafraichirSession, and one  *)
(* lock, the promise all callers share. The server takes no lock: looking   *)
(* the token up, marking it, counting the sessions, revoking the oldest and *)
(* saving the new one are separate statements.                              *)
(*                                                                          *)
(* Sessions are also ended by hand: an administrator gives her a new        *)
(* password, she closes one session or all of them, or deletes her account. *)
(*                                                                          *)
(* This is the telephone, where the tokens are stored and sent in the body; *)
(* the cookies of the browser are not modelled, nor is the week after which *)
(* a refresh token expires.  Her account is active and her password is one  *)
(* she chose when the run starts: an account that waits to be activated     *)
(* gets no session.  The reset of an identification officer's PIN, another  *)
(* role's, is left out.                                                     *)
(***************************************************************************)
EXTENDS Naturals, Sequences, FiniteSets

CONSTANTS Telephones, Requetes,
          MAX_SESSIONS_PER_USER,
          Traitements,    \* handlers of the server at work at once, 1..n
          MaxEcheances,   \* bound: expiries, ticks of the timer, logins
          MaxPertes       \* bound: refreshes the telephone gives up, reloads, and sessions
                          \* ended by hand

ASSUME SessionConstantes ==
  /\ Telephones # {} /\ MAX_SESSIONS_PER_USER \in Nat \ {0}
  /\ Traitements \subseteq Nat \ {0} /\ IsFiniteSet(Traitements)
  /\ MaxEcheances \in Nat /\ MaxPertes \in Nat

VARIABLES jetons,       \* refresh_tokens, by created_at: the state of each
          traitement,   \* the handlers of /auth/refresh and /auth/login
          connectee,    \* user # null on the telephone
          acces,        \* julaba_access_token
          rafraichi,    \* julaba_refresh_token
          promesse,     \* _refreshPromise: the handler it waits for
          requete,      \* calls of apiRequest
          suspendu,     \* users.status = 'suspendu'
          doitChanger,  \* users.must_change_password
          reinit,       \* an administrator's reset has its tokens still to revoke
          coupee,       \* her tokens were marked used by hand, or are about to be
          compromission,  \* a used token came back: all was revoked
          depart,       \* she logged out at least once
          echeances, pertes,
          coupures      \* sessions ended by hand

compte == <<suspendu, doitChanger, reinit, coupee>>
serveur == <<jetons, traitement, compte, compromission>>
memoire == <<connectee, acces, rafraichi>>
bornes == <<depart, echeances, pertes, coupures>>
vars == <<serveur, memoire, promesse, requete, bornes>>

(* used and revoked; revoked alone; neither.                                *)
Etats == {"use", "revoque", "actif"}

Aucun == 0   \* no token, no handler: the first token is 1

Jetons == DOMAIN jetons
Actifs == {j \in Jetons : jetons[j] = "actif"}

Traitement == [pas : {"libre", "chercher", "compromis", "marquer", "compter", "revoquer",
                      "enregistrer", "succes", "echec"},
               tel : Telephones, genre : {"rotation", "entree"},
               jeton : Nat, retirer : SUBSET Nat]

Requete == [pas : {"neuve", "envoi", "attente", "rejeu", "fini", "echec"},
            tel : Telephones, acces : {"aucun", "valide", "expire"}]

UnTelephone == CHOOSE t \in Telephones : TRUE

Repos == [pas |-> "libre", tel |-> UnTelephone, genre |-> "rotation", jeton |-> Aucun,
          retirer |-> {}]

SansEnvoi(p) == [pas |-> p, tel |-> UnTelephone, acces |-> "aucun"]

Init ==
  /\ jetons = <<>>
  /\ traitement = [r \in Traitements |-> Repos]
  /\ connectee = [t \in Telephones |-> FALSE]
  /\ acces = [t \in Telephones |-> "aucun"]
  /\ rafraichi = [t \in Telephones |-> Aucun]
  /\ promesse = [t \in Telephones |-> Aucun]
  /\ requete = [q \in Requetes |-> SansEnvoi("neuve")]
  /\ suspendu = FALSE /\ doitChanger = FALSE /\ reinit = FALSE /\ coupee = FALSE
  /\ compromission = FALSE /\ depart = FALSE
  /\ echeances = 0 /\ pertes = 0 /\ coupures = 0

Libres == {r \in Traitements : traitement[r].pas = "libre"}
Libre == CHOOSE r \in Libres : \A s \in Libres : r <= s

Echeance ==
  /\ echeances < MaxEcheances /\ echeances' = echeances + 1
  /\ UNCHANGED <<pertes, coupures>>

Perte ==
  /\ pertes + coupures < MaxPertes /\ pertes' = pertes + 1
  /\ UNCHANGED <<echeances, coupures>>

Coupure ==
  /\ echeances < MaxEcheances /\ echeances' = echeances + 1
  /\ pertes + coupures < MaxPertes /\ coupures' = coupures + 1
  /\ UNCHANGED pertes

Pas(r, p) == traitement' = [traitement EXCEPT ![r].pas = p]

Au(r, p) == traitement[r].pas = p

----------------------------------------------------------------------------
(* The server: rotateRefreshToken and generateAndStoreTokens.               *)

(* What the token found leads to.                                           *)
Suite(j) ==
  CASE j = Aucun -> "echec"
    [] j # Aucun /\ jetons[j] = "use" -> "compromis"
    [] j # Aucun /\ jetons[j] = "revoque" -> "echec"
    [] OTHER -> "marquer"

Chercher(r) ==
  /\ Au(r, "chercher")
  /\ Pas(r, Suite(traitement[r].jeton))
  /\ UNCHANGED <<jetons, compromission>>

(* revokeAllUserTokens: what was only revoked stays so.                     *)
UserTous == jetons' = [j \in Jetons |-> IF jetons[j] = "actif" THEN "use" ELSE jetons[j]]

RevoquerTout(r) ==
  /\ Au(r, "compromis")
  /\ UserTous
  /\ compromission' = TRUE
  /\ Pas(r, "echec")

(* UPDATE by id, whatever became of the token since it was read.            *)
Marquer(r) ==
  /\ Au(r, "marquer")
  /\ jetons' = [jetons EXCEPT ![traitement[r].jeton] = "use"]
  /\ Pas(r, "compter")
  /\ UNCHANGED compromission

(* The oldest, so that with the new one MAX_SESSIONS_PER_USER are left.     *)
EnTrop ==
  {j \in Actifs : Cardinality({k \in Actifs : k < j}) + MAX_SESSIONS_PER_USER
                    <= Cardinality(Actifs)}

Compter(r) ==
  /\ Au(r, "compter")
  /\ traitement' = [traitement EXCEPT ![r].pas = "revoquer", ![r].retirer = EnTrop]
  /\ UNCHANGED <<jetons, compromission>>

(* The loop of updates, taken as one step: it sets revoked, and leaves used. *)
Revoquer(r) ==
  /\ Au(r, "revoquer")
  /\ jetons' = [j \in Jetons |->
       IF j \in traitement[r].retirer /\ jetons[j] = "actif" THEN "revoque" ELSE jetons[j]]
  /\ Pas(r, "enregistrer")
  /\ UNCHANGED compromission

Enregistrer(r) ==
  /\ Au(r, "enregistrer")
  /\ jetons' = Append(jetons, "actif")
  /\ traitement' = [traitement EXCEPT ![r] =
       [@ EXCEPT !.pas = "succes", !.jeton = Len(jetons) + 1, !.retirer = {}]]
  /\ UNCHANGED compromission

Servir(r) ==
  /\ Chercher(r) \/ RevoquerTout(r) \/ Marquer(r) \/ Compter(r) \/ Revoquer(r)
       \/ Enregistrer(r)
  /\ UNCHANGED <<memoire, promesse, requete, compte, bornes>>

----------------------------------------------------------------------------
(* The telephone: logging in and out.                                       *)

Demarrer(t, genre, jeton, pas) ==
  /\ Libres # {}
  /\ traitement' = [traitement EXCEPT ![Libre] =
       [pas |-> pas, tel |-> t, genre |-> genre, jeton |-> jeton, retirer |-> {}]]

Rendu(r) == traitement[r].pas \in {"succes", "echec"}

Liberer(r) == traitement' = [traitement EXCEPT ![r] = Repos]

Ranger(t, jeton) ==
  /\ acces' = [acces EXCEPT ![t] = "valide"]
  /\ rafraichi' = [rafraichi EXCEPT ![t] = jeton]

(* The PIN is right; the screen waits for the answer.                       *)
Entrer(t) ==
  /\ ~connectee[t] /\ ~suspendu
  /\ \A r \in Traitements :
       traitement[r].tel = t /\ traitement[r].genre = "entree" => Au(r, "libre")
  /\ Echeance
  /\ Demarrer(t, "entree", Aucun, "compter")
  /\ UNCHANGED <<jetons, compte, compromission, memoire, promesse, requete, depart>>

FinirEntree(r) ==
  /\ Rendu(r) /\ traitement[r].genre = "entree"
  /\ Ranger(traitement[r].tel, traitement[r].jeton)
  /\ connectee' = [connectee EXCEPT ![traitement[r].tel] = TRUE]
  /\ Liberer(r)
  /\ UNCHANGED <<jetons, compte, compromission, promesse, requete, bornes>>

Oublier(t) ==
  /\ connectee' = [connectee EXCEPT ![t] = FALSE]
  /\ acces' = [acces EXCEPT ![t] = "aucun"]
  /\ rafraichi' = [rafraichi EXCEPT ![t] = Aucun]

(* logout sends no token in its body: the server revokes nothing.           *)
Deconnecter(t) ==
  /\ connectee[t]
  /\ Oublier(t)
  /\ depart' = TRUE
  /\ UNCHANGED <<serveur, promesse, requete, echeances, pertes, coupures>>

----------------------------------------------------------------------------
(* The telephone: rafraichirSession.                                        *)

(* Mutant: every caller sends its own refresh, as the four copies did.      *)
SansVerrou(t) == TRUE

VerrouLibre(t) == promesse[t] = Aucun

Rafraichir(t) ==
  IF VerrouLibre(t)
    THEN /\ Demarrer(t, "rotation", rafraichi[t], "chercher")
         /\ promesse' = [promesse EXCEPT ![t] = Libre]
    ELSE UNCHANGED <<traitement, promesse>>

(* The timer of 13 minutes.                                                 *)
Minuterie(t) ==
  /\ connectee[t]
  /\ Echeance
  /\ Rafraichir(t)
  /\ UNCHANGED <<jetons, compte, compromission, memoire, requete, depart>>

EnAttente(t) == {q \in Requetes : requete[q].pas = "attente" /\ requete[q].tel = t}

(* Mutant: the header of the second try is the one of the first.            *)
RejouerAncien(t, a) ==
  requete' = [q \in Requetes |->
    IF q \in EnAttente(t) THEN [requete[q] EXCEPT !.pas = "rejeu"] ELSE requete[q]]

(* The requests that waited leave again; enTetesPourEssai reads the token.  *)
Rejouer(t, a) ==
  requete' = [q \in Requetes |->
    IF q \in EnAttente(t) THEN [requete[q] EXCEPT !.pas = "rejeu", !.acces = a]
    ELSE requete[q]]

(* Those that waited fail, and julaba:session-expired purges the telephone; *)
(* nobody waits for a refresh of the timer.                                 *)
Renoncer(t) ==
  /\ requete' = [q \in Requetes |->
       IF q \in EnAttente(t) THEN SansEnvoi("echec") ELSE requete[q]]
  /\ IF EnAttente(t) # {} THEN Oublier(t) ELSE UNCHANGED memoire

(* Mutant: no finally, the lock stays when the refresh fails.               *)
RelacherSiSucces(t, r) ==
  promesse' = IF Au(r, "succes") THEN [promesse EXCEPT ![t] = Aucun] ELSE promesse

Relacher(t, r) == promesse' = [promesse EXCEPT ![t] = Aucun]

(* The answer of a refresh whose telephone no longer waits is dropped.      *)
Recevoir(r) ==
  LET t == traitement[r].tel IN
  /\ Rendu(r) /\ traitement[r].genre = "rotation"
  /\ Liberer(r)
  /\ \/ /\ promesse[t] # r
        /\ UNCHANGED <<memoire, promesse, requete>>
     \/ /\ promesse[t] = r /\ Au(r, "succes")
        /\ Ranger(t, traitement[r].jeton)
        /\ UNCHANGED connectee
        /\ Rejouer(t, "valide")
        /\ Relacher(t, r)
     \/ /\ promesse[t] = r /\ Au(r, "echec")
        /\ Renoncer(t)
        /\ Relacher(t, r)
  /\ UNCHANGED <<jetons, compte, compromission, bornes>>

(* The 15 s of AbortSignal, or the network: the server goes on.             *)
Abandonner(t) ==
  /\ promesse[t] # Aucun
  /\ Perte
  /\ promesse' = [promesse EXCEPT ![t] = Aucun]
  /\ Renoncer(t)
  /\ UNCHANGED <<serveur, depart>>

(* The application is reloaded: the stored tokens remain, the promise and   *)
(* the requests do not.                                                     *)
Recharger(t) ==
  /\ connectee[t]
  /\ Perte
  /\ promesse' = [promesse EXCEPT ![t] = Aucun]
  /\ requete' = [q \in Requetes |->
       IF requete[q].tel = t /\ requete[q].pas # "neuve"
         THEN SansEnvoi("fini") ELSE requete[q]]
  /\ UNCHANGED <<serveur, memoire, depart>>

----------------------------------------------------------------------------
(* The telephone: apiRequest.                                               *)

Envoyer(q, t) ==
  /\ requete[q].pas = "neuve" /\ connectee[t]
  /\ requete' = [requete EXCEPT ![q] = [pas |-> "envoi", tel |-> t, acces |-> acces[t]]]
  /\ UNCHANGED <<serveur, memoire, promesse, bornes>>

(* JwtStrategy: the signature and its date, then the account.               *)
Admise(q) == requete[q].acces = "valide" /\ ~suspendu /\ ~doitChanger

(* An answer other than 401, whatever it is.                                *)
Aboutir(q) ==
  /\ requete[q].pas \in {"envoi", "rejeu"} /\ Admise(q)
  /\ requete' = [requete EXCEPT ![q] = SansEnvoi("fini")]
  /\ UNCHANGED <<serveur, memoire, promesse, bornes>>

(* The first 401 joins the refresh in progress or starts one.               *)
Attendre(q) ==
  /\ requete[q].pas = "envoi" /\ ~Admise(q)
  /\ requete' = [requete EXCEPT ![q].pas = "attente"]
  /\ Rafraichir(requete[q].tel)
  /\ UNCHANGED <<jetons, compte, compromission, memoire, bornes>>

(* The second ends the session: rotateRefreshToken does not look whether    *)
(* the account is suspended.                                                *)
Expulser(q) ==
  /\ requete[q].pas = "rejeu" /\ ~Admise(q)
  /\ requete' = [requete EXCEPT ![q] = SansEnvoi("echec")]
  /\ Oublier(requete[q].tel)
  /\ UNCHANGED <<serveur, promesse, bornes>>

(* 15 minutes after it was signed; a second try takes 30 s at most.         *)
Perimer(t) ==
  /\ acces[t] = "valide"
  /\ \A q \in Requetes : requete[q].tel = t => requete[q].pas # "rejeu"
  /\ Echeance
  /\ acces' = [acces EXCEPT ![t] = "expire"]
  /\ requete' = [q \in Requetes |->
       IF requete[q].tel = t /\ requete[q].acces = "valide"
         THEN [requete[q] EXCEPT !.acces = "expire"] ELSE requete[q]]
  /\ UNCHANGED <<serveur, connectee, rafraichi, promesse, depart>>

(* An administrator suspends the account.                                   *)
Suspendre ==
  /\ ~suspendu
  /\ Echeance
  /\ suspendu' = TRUE
  /\ UNCHANGED <<doitChanger, reinit, coupee, jetons, traitement, compromission, memoire,
                 promesse, requete, depart>>

----------------------------------------------------------------------------
(* Sessions ended by hand.                                                  *)

(* An administrator resets her password: the account first, then, after the *)
(* audit entry, her tokens.                                                 *)
Reinitialiser ==
  /\ ~reinit
  /\ Coupure
  /\ doitChanger' = TRUE /\ reinit' = TRUE /\ coupee' = TRUE
  /\ UNCHANGED <<suspendu, jetons, traitement, compromission, memoire, promesse, requete,
                 depart>>

RevoquerReinit ==
  /\ reinit
  /\ UserTous
  /\ reinit' = FALSE
  /\ UNCHANGED <<suspendu, doitChanger, coupee, traitement, compromission, memoire, promesse,
                 requete, bornes>>

(* What a telephone that is logged in may ask of the server meanwhile.      *)
EnRegle(t) == connectee[t] /\ acces[t] = "valide" /\ ~suspendu

(* She chooses a password; her tokens are left alone.                       *)
ChangerMotDePasse(t) ==
  /\ EnRegle(t) /\ doitChanger
  /\ doitChanger' = FALSE
  /\ UNCHANGED <<suspendu, reinit, coupee, jetons, traitement, compromission, memoire, promesse,
                 requete, bornes>>

(* logout-all, and the deletion of the account.                             *)
DeconnecterPartout(t) ==
  /\ EnRegle(t)
  /\ Coupure
  /\ UserTous
  /\ coupee' = TRUE
  /\ UNCHANGED <<suspendu, doitChanger, reinit, traitement, compromission, memoire, promesse,
                 requete, depart>>

(* DELETE sessions/:id, and DELETE sessions: the tokens are not marked used. *)
RevoquerSessions(t) ==
  /\ EnRegle(t) /\ ~doitChanger
  /\ Coupure
  /\ \E S \in {{j} : j \in Actifs} \cup {Actifs} :
       jetons' = [j \in Jetons |-> IF j \in S THEN "revoque" ELSE jetons[j]]
  /\ UNCHANGED <<compte, traitement, compromission, memoire, promesse, requete, depart>>

----------------------------------------------------------------------------
Next ==
  \/ \E r \in Traitements : Servir(r) \/ FinirEntree(r) \/ Recevoir(r)
  \/ \E t \in Telephones : \/ Entrer(t) \/ Deconnecter(t) \/ Minuterie(t)
                           \/ Abandonner(t) \/ Recharger(t) \/ Perimer(t)
                           \/ ChangerMotDePasse(t) \/ DeconnecterPartout(t)
                           \/ RevoquerSessions(t)
  \/ \E q \in Requetes : \/ \E t \in Telephones : Envoyer(q, t)
                         \/ Aboutir(q) \/ Attendre(q) \/ Expulser(q)
  \/ Suspendre \/ Reinitialiser \/ RevoquerReinit

Spec == Init /\ [][Next]_vars

(* The server goes on with what it began, and the event loop of the         *)
(* telephone with what it received.                                         *)
SpecEquitable ==
  /\ Spec
  /\ \A r \in Traitements : WF_vars(Servir(r) \/ FinirEntree(r) \/ Recevoir(r))
  /\ \A q \in Requetes : WF_vars(Aboutir(q) \/ Attendre(q) \/ Expulser(q))

----------------------------------------------------------------------------
(* Types of the state.                                                      *)
TypeOK ==
  /\ jetons \in Seq(Etats)
  /\ traitement \in [Traitements -> Traitement]
  /\ connectee \in [Telephones -> BOOLEAN]
  /\ acces \in [Telephones -> {"aucun", "valide", "expire"}]
  /\ rafraichi \in [Telephones -> Nat]
  /\ promesse \in [Telephones -> Traitements \cup {Aucun}]
  /\ requete \in [Requetes -> Requete]
  /\ {suspendu, doitChanger, reinit, coupee, compromission, depart} \subseteq BOOLEAN
  /\ echeances \in 0..MaxEcheances /\ pertes \in 0..MaxPertes /\ coupures \in 0..MaxPertes

(* All of a merchant's sessions are revoked as stolen only if a refresh was *)
(* cut short, or if her tokens had been marked used by hand (a reset by an   *)
(* administrator, logout-all, the deletion of the account): two refreshes at *)
(* once, a login elsewhere, the limit of sessions, one session closed from   *)
(* the settings or a suspension never look like a theft (the comment of      *)
(* rafraichirSession).                                                       *)
RevocationSurPerteSeulement == compromission => pertes > 0 \/ coupee

(* A request fails for want of a session only if a refresh was cut short,   *)
(* she logged out, the account is suspended, her sessions were ended by hand *)
(* or one of her tokens was closed (by the limit, or from the settings): the *)
(* 401 of an expired token is never shown.                                   *)
EchecJustifie ==
  \A q \in Requetes : requete[q].pas = "echec" =>
    pertes > 0 \/ depart \/ suspendu \/ coupee \/ \E j \in Jetons : jetons[j] = "revoque"

(* Every request ends: no failure of a refresh leaves the lock taken.       *)
RequeteTermine ==
  \A q \in Requetes : requete[q].pas = "envoi" ~> requete[q].pas \in {"fini", "echec"}
=============================================================================

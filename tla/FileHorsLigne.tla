---------------------------- MODULE FileHorsLigne ----------------------------
(***************************************************************************)
(* The queue of the till on the telephone: voice-offline/offlineCaisse.ts,  *)
(* with the two contexts that feed it (enregistrerVente, enregistrerDepense,*)
(* updateStock), the loops of CaisseContext that replay it and the client   *)
(* api-client.ts that posts.                                                *)
(*                                                                          *)
(* Nothing prevents two replay loops from overlapping: a timer, the event   *)
(* online, the page becoming visible and the mount of the effect each call  *)
(* synchroniser. A loop captures the account at its start and a snapshot of *)
(* the queue; apiRequest reads the token again at each attempt.             *)
(*                                                                          *)
(* The server is the promise the till checks elsewhere (Caisse): a key it   *)
(* knows for that merchant changes nothing. For an update of stock the key  *)
(* is known whoever the merchant is (primary key idempotency_key).          *)
(***************************************************************************)
EXTENDS Naturals, FiniteSets

CONSTANTS Ops,         \* operations the merchants enter
          Argent,      \* those of ENDPOINTS_ARGENT; the others update the stock
          Comptes,     \* accounts that use this telephone
          Personne,    \* nobody is logged in
          Boucles,     \* calls of synchroniser in progress at once
          REPLAY_CAP,  \* transient failures before an update of stock is given up
          MaxIncidents,   \* bound: failures, expired tokens, restarts
          MaxConnexions   \* bound: sessions opened

ASSUME FileConstantes ==
  /\ Argent \subseteq Ops
  /\ Personne \notin Comptes
  /\ Boucles \cap Ops = {}
  /\ REPLAY_CAP \in Nat \ {0} /\ MaxIncidents \in Nat /\ MaxConnexions \in Nat

VARIABLES session,   \* account of the stored token, which is appUser
          place,     \* where each operation is
          proprio,   \* op.userId
          essais,    \* op.attempts
          ts,        \* op.ts, the clock when it entered the queue
          horloge,   \* the clock, counted in entries of the queue
          boucles,   \* the replay loops
          appels,    \* the request a loop or a first send is waiting for
          errantes,  \* requests given up by their caller, still on the network
          effets,    \* what the server did, per operation and account
          cles,      \* idempotency keys the server knows, with their account
          refusees,  \* operations some answer 4xx refused
          incidents, connexions

client == <<place, proprio, essais, ts, horloge, boucles>>
serveur == <<effets, cles, refusees>>
compteurs == <<incidents, connexions>>
vars == <<session, client, appels, errantes, serveur, compteurs>>

Places == {"neuve", "directe", "file", "morte", "remise", "confirmee", "rendue",
           "purgee", "oubliee"}

(* A caller is a loop, or an operation in its first send.                   *)
Appelants == Boucles \cup Ops

Requete == [op : Ops, cle : Ops, compte : Comptes \cup {Personne}]

Reponses == {"attente", "ok", "refus", "panne"}

Appel == [requete : Requete, reponse : Reponses]

Rien == [requete |-> [op |-> "aucune", cle |-> "aucune", compte |-> Personne],
         reponse |-> "rien"]

(* uid is captured by the effect; op is being replayed and reste is what    *)
(* the snapshot of the queue still holds after it.                          *)
Boucle == [pas : {"repos", "envoi", "attente", "plafond"},
           uid : Comptes \cup {Personne}, op : Ops \cup {"aucune"}, reste : SUBSET Ops]

Arret == [pas |-> "repos", uid |-> Personne, op |-> "aucune", reste |-> {}]

Init ==
  /\ session = Personne
  /\ place = [o \in Ops |-> "neuve"]
  /\ proprio = [o \in Ops |-> Personne]
  /\ essais = [o \in Ops |-> 0]
  /\ ts = [o \in Ops |-> 0]
  /\ horloge = 0
  /\ boucles = [b \in Boucles |-> Arret]
  /\ appels = [a \in Appelants |-> Rien]
  /\ errantes = {}
  /\ effets = [p \in Ops \X Comptes |-> 0]
  /\ cles = {}
  /\ refusees = {}
  /\ incidents = 0 /\ connexions = 0

Poser(o, p) == place' = [place EXCEPT ![o] = p]

Repondu(a, r) == appels[a].reponse = r

Incident == incidents < MaxIncidents /\ incidents' = incidents + 1

----------------------------------------------------------------------------
(* Sessions of the telephone.                                               *)

Connexion(c) ==
  /\ session = Personne /\ connexions < MaxConnexions
  /\ session' = c /\ connexions' = connexions + 1
  /\ UNCHANGED <<client, appels, errantes, serveur, incidents>>

Deconnexion ==
  /\ session # Personne
  /\ session' = Personne
  /\ UNCHANGED <<client, appels, errantes, serveur, compteurs>>

----------------------------------------------------------------------------
(* The merchant records a sale, an expense or a quantity in stock.          *)

(* enfilerOperation: the id of the row is the key already sent, if any.     *)
Enfiler(o, c) ==
  /\ Poser(o, "file")
  /\ proprio' = [proprio EXCEPT ![o] = c]
  /\ ts' = [ts EXCEPT ![o] = horloge]
  /\ horloge' = horloge + 1

(* navigator.onLine is false.                                               *)
SaisirHorsLigne(o) ==
  /\ place[o] = "neuve"
  /\ session # Personne
  /\ Enfiler(o, session)
  /\ UNCHANGED <<session, essais, boucles, appels, errantes, serveur, compteurs>>

(* Mutant: enfilerOperation draws a new key for a request already sent.     *)
CleNeuve(o) == <<o, "rejeu">>

(* The key the body of a request carries: the same at each attempt.         *)
CleDeRejeu(o) == o

(* enTetesPourEssai reads the token when the request leaves.                *)
Emettre(a, o, k) ==
  appels' = [appels EXCEPT ![a] =
    [requete |-> [op |-> o, cle |-> k, compte |-> session], reponse |-> "attente"]]

SaisirEnLigne(o) ==
  /\ place[o] = "neuve"
  /\ session # Personne
  /\ Poser(o, "directe")
  /\ proprio' = [proprio EXCEPT ![o] = session]
  /\ Emettre(o, o, o)
  /\ UNCHANGED <<session, essais, ts, horloge, boucles, errantes, serveur, compteurs>>

Raccrocher(a) == appels' = [appels EXCEPT ![a] = Rien]

(* doitEnfiler: a 4xx is shown, no answer or a 5xx puts it in the queue.    *)
FinirEnvoi(o) ==
  /\ place[o] = "directe"
  /\ \/ /\ Repondu(o, "ok")
        /\ Poser(o, "confirmee")
        /\ UNCHANGED <<proprio, ts, horloge>>
     \/ /\ Repondu(o, "refus")
        /\ Poser(o, "rendue")
        /\ UNCHANGED <<proprio, ts, horloge>>
     \/ /\ Repondu(o, "panne")
        /\ Enfiler(o, proprio[o])
  /\ Raccrocher(o)
  /\ UNCHANGED <<session, essais, boucles, errantes, serveur, compteurs>>

(* purgerLettreMorte: one's own dead letters only.                          *)
Purger(o) ==
  /\ place[o] = "morte" /\ proprio[o] = session
  /\ Poser(o, "purgee")
  /\ UNCHANGED <<session, proprio, essais, ts, horloge, boucles, appels, errantes,
                 serveur, compteurs>>

----------------------------------------------------------------------------
(* The network and the server.                                              *)

DejaVue(q) ==
  \E v \in cles : v[1] = q.cle /\ (q.op \in Argent => v[2] = q.compte)

(* The server does what a request asks, once per key, or answers ok for a   *)
(* key it knows; or refuses (amount, closed day) and keeps nothing.         *)
Executer(q) ==
  /\ q.compte \in Comptes
  /\ cles' = cles \cup {<<q.cle, q.compte>>}
  /\ effets' = IF DejaVue(q) THEN effets
               ELSE [effets EXCEPT ![<<q.op, q.compte>>] = @ + 1]
  /\ UNCHANGED refusees

Repondre(a, r) == appels' = [appels EXCEPT ![a].reponse = r]

Traiter(a) ==
  /\ Repondu(a, "attente")
  /\ Executer(appels[a].requete)
  /\ Repondre(a, "ok")
  /\ UNCHANGED <<session, client, errantes, compteurs>>

Refuser(a) ==
  /\ Repondu(a, "attente")
  /\ appels[a].requete.compte \in Comptes /\ ~DejaVue(appels[a].requete)
  /\ refusees' = refusees \cup {appels[a].requete.op}
  /\ Repondre(a, "refus")
  /\ UNCHANGED <<session, client, errantes, effets, cles, compteurs>>

(* A request given up reaches the server after all.                         *)
TraiterErrante(q) ==
  /\ errantes' = errantes \ {q}
  /\ Executer(q)
  /\ UNCHANGED <<session, client, appels, compteurs>>

EnRoute(a) == IF Repondu(a, "attente") THEN {appels[a].requete} ELSE {}

(* The 30 s of AbortSignal, the network, or a 5xx: no verdict, and the      *)
(* request may still arrive or may have been done.                          *)
Perdre(a) ==
  /\ appels[a].reponse \in {"attente", "ok", "refus"}
  /\ Incident
  /\ errantes' = errantes \cup EnRoute(a)
  /\ Repondre(a, "panne")
  /\ UNCHANGED <<session, client, serveur, connexions>>

(* 401, the refresh succeeds and the request leaves again with the token    *)
(* stored by then.                                                          *)
Rafraichir(a) ==
  /\ Repondu(a, "attente") /\ session # Personne
  /\ Incident
  /\ appels' = [appels EXCEPT ![a].requete.compte = session]
  /\ UNCHANGED <<session, client, errantes, serveur, connexions>>

(* 401 and the refresh fails: julaba:session-expired, NOT_AUTHENTICATED     *)
(* without status. A request without token always ends here.                *)
Expirer(a) ==
  /\ Repondu(a, "attente")
  /\ IF appels[a].requete.compte = Personne
       THEN UNCHANGED incidents ELSE Incident
  /\ session' = Personne
  /\ Repondre(a, "panne")
  /\ UNCHANGED <<client, errantes, serveur, connexions>>

----------------------------------------------------------------------------
(* synchroniser.                                                            *)

EnFile(o) == place[o] = "file"

(* The operations of another account are left alone.                        *)
Siennes(c) == {o \in Ops : EnFile(o) /\ proprio[o] = c}

Lancer(b) ==
  /\ boucles[b].pas = "repos"
  /\ session # Personne
  /\ Siennes(session) # {}
  /\ boucles' = [boucles EXCEPT ![b] =
       [pas |-> "envoi", uid |-> session, op |-> "aucune", reste |-> Siennes(session)]]
  /\ UNCHANGED <<session, place, proprio, essais, ts, horloge, appels, errantes, serveur,
                 compteurs>>

Courante(b) == boucles[b].op

(* list is sorted by ts.                                                    *)
Poster(b) ==
  /\ boucles[b].pas = "envoi"
  /\ \E o \in boucles[b].reste :
       /\ \A p \in boucles[b].reste : ts[o] <= ts[p]
       /\ Emettre(b, o, CleDeRejeu(o))
       /\ boucles' = [boucles EXCEPT ![b] =
            [pas |-> "attente", uid |-> @.uid, op |-> o, reste |-> @.reste \ {o}]]
  /\ UNCHANGED <<session, place, proprio, essais, ts, horloge, errantes, serveur, compteurs>>

(* The next operation of the snapshot, or the end of the call.              *)
Avancer(b) ==
  boucles' = [boucles EXCEPT ![b] =
    IF @.reste = {} THEN Arret
    ELSE [pas |-> "envoi", uid |-> @.uid, op |-> "aucune", reste |-> @.reste]]

(* store.remove and store.moveToDead do nothing to a row another loop took. *)
Sortir(o, p) == IF EnFile(o) THEN Poser(o, p) ELSE UNCHANGED place

Retirer(b) ==
  /\ boucles[b].pas = "attente" /\ Repondu(b, "ok")
  /\ Sortir(Courante(b), "remise")
  /\ Avancer(b) /\ Raccrocher(b)
  /\ UNCHANGED <<session, proprio, essais, ts, horloge, errantes, serveur, compteurs>>

(* Mutant: a refused operation stays at the head of the queue.              *)
EnterrerSansSortir(b) ==
  /\ \/ boucles[b].pas = "attente" /\ Repondu(b, "refus")
     \/ boucles[b].pas = "plafond"
  /\ Avancer(b) /\ Raccrocher(b)
  /\ UNCHANGED <<session, place, proprio, essais, ts, horloge, errantes, serveur, compteurs>>

Enterrer(b) ==
  /\ \/ boucles[b].pas = "attente" /\ Repondu(b, "refus")
     \/ boucles[b].pas = "plafond"
  /\ Sortir(Courante(b), "morte")
  /\ Avancer(b) /\ Raccrocher(b)
  /\ UNCHANGED <<session, proprio, essais, ts, horloge, errantes, serveur, compteurs>>

(* Mutant: the cap holds for every operation, ARG-03 undone.                *)
PlafonneeToutes(o) == EnFile(o) /\ essais[o] + 1 >= REPLAY_CAP

(* n >= REPLAY_CAP && !argent, n being 0 for a row another loop took.       *)
Plafonnee(o) == /\ EnFile(o)
                /\ essais[o] + 1 >= REPLAY_CAP
                /\ o \notin Argent

(* Mutant: continue instead of break after a transient failure.             *)
CompterEtContinuer(b) ==
  /\ boucles[b].pas = "attente" /\ Repondu(b, "panne")
  /\ essais' = [essais EXCEPT ![Courante(b)] = IF EnFile(Courante(b)) THEN @ + 1 ELSE @]
  /\ Avancer(b) /\ Raccrocher(b)
  /\ UNCHANGED <<session, place, proprio, ts, horloge, errantes, serveur, compteurs>>

(* incrementAttempts; then the dead letter, or break: the order of the      *)
(* queue is kept and the effect programs another call.                      *)
CompterEchec(b) ==
  /\ boucles[b].pas = "attente" /\ Repondu(b, "panne")
  /\ essais' = [essais EXCEPT ![Courante(b)] = IF EnFile(Courante(b)) THEN @ + 1 ELSE @]
  /\ boucles' = [boucles EXCEPT ![b] =
       IF Plafonnee(Courante(b)) THEN [@ EXCEPT !.pas = "plafond"] ELSE Arret]
  /\ Raccrocher(b)
  /\ UNCHANGED <<session, place, proprio, ts, horloge, errantes, serveur, compteurs>>

----------------------------------------------------------------------------
(* The application is closed or killed: the stores and the token remain.    *)
Fermer ==
  /\ Incident
  /\ boucles' = [b \in Boucles |-> Arret]
  /\ place' = [o \in Ops |-> IF place[o] = "directe" THEN "oubliee" ELSE place[o]]
  /\ errantes' = errantes \cup UNION {EnRoute(a) : a \in Appelants}
  /\ appels' = [a \in Appelants |-> Rien]
  /\ UNCHANGED <<session, proprio, essais, ts, horloge, serveur, connexions>>

Next ==
  \/ \E c \in Comptes : Connexion(c)
  \/ Deconnexion
  \/ \E o \in Ops : \/ SaisirHorsLigne(o) \/ SaisirEnLigne(o)
                    \/ FinirEnvoi(o) \/ Purger(o)
  \/ \E a \in Appelants : \/ Traiter(a) \/ Refuser(a) \/ Perdre(a)
                          \/ Rafraichir(a) \/ Expirer(a)
  \/ \E q \in errantes : TraiterErrante(q)
  \/ \E b \in Boucles : \/ Lancer(b) \/ Poster(b) \/ Retirer(b)
                        \/ Enterrer(b) \/ CompterEchec(b)
  \/ Fermer

Spec == Init /\ [][Next]_vars

(* The event loop of the telephone, the timers of programmerRelance (armed  *)
(* again as long as reste > 0, without limit) and the server make progress. *)
Tour(b) == Lancer(b) \/ Poster(b) \/ Retirer(b) \/ Enterrer(b) \/ CompterEchec(b)

Verdict(a) == Traiter(a) \/ Refuser(a) \/ Expirer(a)

SpecEquitable ==
  /\ Spec
  /\ \A b \in Boucles : WF_vars(Tour(b))
  /\ \A a \in Appelants : WF_vars(Verdict(a))

----------------------------------------------------------------------------
(* Types of the state.                                                      *)
TypeOK ==
  /\ session \in Comptes \cup {Personne}
  /\ place \in [Ops -> Places]
  /\ proprio \in [Ops -> Comptes \cup {Personne}]
  /\ essais \in [Ops -> Nat]
  /\ ts \in [Ops -> Nat] /\ horloge \in Nat
  /\ boucles \in [Boucles -> Boucle]
  /\ appels \in [Appelants -> Appel \cup {Rien}]
  /\ errantes \subseteq Requete
  /\ effets \in [Ops \X Comptes -> Nat]
  /\ cles \subseteq Ops \X Comptes
  /\ refusees \subseteq Ops
  /\ incidents \in Nat /\ connexions \in Nat

(* The queue keeps the promise of the till: what the merchant was told is   *)
(* kept leaves the queue only done or given back, and nothing is done twice *)
(* in an account, whatever is lost, repeated, overtaken or restarted.       *)
Sort(p) ==
  CASE p = "neuve" -> "neuve"
    [] p = "directe" -> "envoi"
    [] p = "file" -> "gardee"
    [] p \in {"remise", "confirmee"} -> "acquise"
    [] p \in {"rendue", "morte", "purgee"} -> "rendue"
    [] OTHER -> "oubliee"

P == INSTANCE Promesse WITH sort <- [o \in Ops |-> Sort(place[o])]

PromesseTenue == P!Spec

(* ARG-03: money is a dead letter only if the server refused it; no number  *)
(* of transient failures makes the queue give up a sale or an expense.      *)
ArgentJamaisAbandonne ==
  \A o \in Argent : place[o] \in {"morte", "purgee"} => o \in refusees

(* break preserves the order: while an operation is replayed, no older one  *)
(* of the same merchant waits in the queue, overlapping loops included.     *)
OrdreDeFile ==
  \A b \in Boucles : boucles[b].pas = "attente" =>
    \A o \in Ops : EnFile(o) /\ proprio[o] = proprio[Courante(b)] => ts[Courante(b)] <= ts[o]

(* No request leaves under an account that did not enter the operation.     *)
SousSonCompte ==
  \A o \in Ops, c \in Comptes : effets[<<o, c>>] > 0 => c = proprio[o]

(* A merchant who stays logged in sees each of her operations leave the     *)
(* queue: the timers retry until the network holds.                         *)
FileSeVide ==
  \A o \in Ops, c \in Comptes :
    <>[](session = c) => [](EnFile(o) /\ proprio[o] = c => <>~EnFile(o))
=============================================================================

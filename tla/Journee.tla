------------------------------ MODULE Journee ------------------------------
(***************************************************************************)
(* The cash day of one merchant: table caisse_sessions (one row per day),   *)
(* the rows of caisse_transactions that its closing adds up, and the three  *)
(* session routes of CaisseRestController (ouvrir, fond, fermer).           *)
(*                                                                          *)
(* The database runs READ COMMITTED and these handlers hold no lock: each   *)
(* SQL statement is a step of its own, and a handler keeps what it read in  *)
(* its own record (guichets[g]) until it writes.                            *)
(*                                                                          *)
(* Modules Caisse and Credit extend this one with the handlers that write   *)
(* caisse_transactions.                                                     *)
(***************************************************************************)
EXTENDS Integers, FiniteSets, Sequences, Functions

CONSTANTS Ids,        \* row identifiers of caisse_transactions
          Guichets,   \* requests to the session routes, one per handler run
          Gestes,     \* the session routes in use: "ouvrir", "corriger", "fermer"
          Fonds,      \* amounts a merchant declares or counts
          NbJours     \* bound on the number of midnights

ASSUME IdsFini == IsFiniteSet(Ids)
ASSUME FondsNat == Fonds \subseteq Nat
ASSUME GestesConnus == Gestes \subseteq {"ouvrir", "corriger", "fermer"}
ASSUME NbJoursNat == NbJours \in Nat \ {0}

VARIABLES aujourdhui,   \* the server's current date
          sessions,     \* caisse_sessions, by date
          lignes,       \* caisse_transactions, by row id
          journal,      \* caisse_fond_journal, append only
          guichets      \* the session handlers in progress

varsJournee == <<aujourdhui, sessions, lignes, journal, guichets>>

Jours == 1..NbJours

----------------------------------------------------------------------------
(* Rows.  A row that does not exist has type "absente" and counts for 0.    *)

Entrees == {"vente", "acompte_credit", "reglement_credit"}   \* cash coming in
Natures == Entrees \cup {"depense", "autre"}   \* autre: remboursement, ajustement
Statuts == {"validee", "gelee", "annulee"}

Ligne == [type : Natures \cup {"absente"}, montant : Nat, jour : Jours, statut : Statuts]

LigneAbsente == [type |-> "absente", montant |-> 0, jour |-> 1, statut |-> "validee"]

NouvelleLigne(t, m, j) == [type |-> t, montant |-> m, jour |-> j, statut |-> "validee"]

Existe(i) == lignes[i].type # "absente"

Session == [etat : {"absente", "ouverte", "fermee"}, declare : BOOLEAN,
            fond : Nat, theorique : Int, comptage : Nat]

SessionAbsente == [etat |-> "absente", declare |-> FALSE,
                   fond |-> 0, theorique |-> 0, comptage |-> 0]

(* What one row adds to the till of day j in caisseTheorique.               *)
Contribution(l, j) ==
  IF l.jour # j \/ l.statut = "annulee" THEN 0
  ELSE IF l.type \in Entrees THEN l.montant
  ELSE IF l.type = "depense" THEN -l.montant ELSE 0

Mouvements(j) == SumFunctionOnSet([i \in Ids |-> Contribution(lignes[i], j)], Ids)

CaisseTheorique(fond, j) == fond + Mouvements(j)

JourneeFermee == sessions[aujourdhui].etat = "fermee"

(* Mutant: the conflict updates the row, and the day is open again.         *)
EnsureSessionEcrase ==
  sessions' = IF sessions[aujourdhui].etat = "absente"
              THEN [sessions EXCEPT ![aujourdhui] = [SessionAbsente EXCEPT !.etat = "ouverte"]]
              ELSE [sessions EXCEPT ![aujourdhui].etat = "ouverte"]

(* INSERT ... ON CONFLICT DO NOTHING: a missing day is opened, undeclared.  *)
EnsureSession ==
  sessions' = IF sessions[aujourdhui].etat = "absente"
              THEN [sessions EXCEPT ![aujourdhui] = [SessionAbsente EXCEPT !.etat = "ouverte"]]
              ELSE sessions

----------------------------------------------------------------------------
(* Handlers of the session routes.                                          *)

Entree == [ancien : Nat \cup {-1}, nouveau : Nat]     \* -1: ancien_fond NULL

Guichet == [geste : {"aucun", "ouvrir", "corriger", "fermer"},
            etape : {"libre", "lu", "somme", "journal", "fini"},
            jour : Jours, montant : Nat, vu : Session, theorique : Int]

GuichetLibre == [geste |-> "aucun", etape |-> "libre", jour |-> 1, montant |-> 0,
                 vu |-> SessionAbsente, theorique |-> 0]

Vers(g, etape) == guichets' = [guichets EXCEPT ![g].etape = etape]

EnCours(g) == guichets[g].etape \notin {"libre", "fini"}

(* A closing stops when there is no day (404) or it is closed already (400).*)
Fermable == sessions[aujourdhui].etat = "ouverte"

(* SELECT * FROM caisse_sessions: the handler keeps the row it saw.         *)
LireSession(g, geste) ==
  /\ guichets[g].etape = "libre"
  /\ geste \in Gestes
  /\ geste = "fermer" => Fermable
  /\ \E m \in Fonds :
       guichets' = [guichets EXCEPT ![g] =
                      [geste |-> geste, etape |-> "lu", jour |-> aujourdhui, montant |-> m,
                       vu |-> sessions[aujourdhui], theorique |-> 0]]
  /\ UNCHANGED <<aujourdhui, sessions, lignes, journal>>

(* No row was seen: INSERT, refused by the unique index (marchand_id, date) *)
(* when another handler inserted the day in between.                        *)
CreerJournee(g) ==
  LET r == guichets[g] IN
  /\ r.etape = "lu" /\ r.geste \in {"ouvrir", "corriger"}
  /\ r.vu.etat = "absente"
  /\ IF sessions[r.jour].etat = "absente"
     THEN /\ sessions' = [sessions EXCEPT ![r.jour] =
                            [SessionAbsente EXCEPT !.etat = "ouverte", !.declare = TRUE,
                                                   !.fond = r.montant]]
          /\ Vers(g, "journal")
     ELSE Vers(g, "fini") /\ UNCHANGED sessions
  /\ UNCHANGED <<aujourdhui, lignes, journal>>

(* The day was seen undeclared: this amount is its declaration.             *)
DeclarerFond(g) ==
  LET r == guichets[g] IN
  /\ r.etape = "lu" /\ r.geste = "ouvrir"
  /\ r.vu.etat # "absente" /\ ~r.vu.declare
  /\ sessions' = [sessions EXCEPT ![r.jour] =
                   [@ EXCEPT !.fond = r.montant, !.declare = TRUE, !.etat = "ouverte"]]
  /\ Vers(g, "journal")
  /\ UNCHANGED <<aujourdhui, lignes, journal>>

(* The day was seen declared: its fund is kept, a closed day is reopened.   *)
Rouvrir(g) ==
  LET r == guichets[g] IN
  /\ r.etape = "lu" /\ r.geste = "ouvrir"
  /\ r.vu.etat # "absente" /\ r.vu.declare
  /\ sessions' = IF r.vu.etat = "fermee"
                 THEN [sessions EXCEPT ![r.jour].etat = "ouverte"] ELSE sessions
  /\ Vers(g, "fini")
  /\ UNCHANGED <<aujourdhui, lignes, journal>>

(* PATCH session/fond on an existing day, whatever its state.               *)
CorrigerFond(g) ==
  LET r == guichets[g] IN
  /\ r.etape = "lu" /\ r.geste = "corriger"
  /\ r.vu.etat # "absente"
  /\ sessions' = [sessions EXCEPT ![r.jour] = [@ EXCEPT !.fond = r.montant, !.declare = TRUE]]
  /\ Vers(g, "journal")
  /\ UNCHANGED <<aujourdhui, lignes, journal>>

(* journaliserFond: the INSERT may fail, the error is only logged.          *)
JournaliserFond(g) ==
  LET r == guichets[g] IN
  /\ r.etape = "journal"
  /\ \/ journal' = Append(journal,
           [ancien |-> IF r.vu.etat = "absente" THEN -1 ELSE r.vu.fond, nouveau |-> r.montant])
     \/ journal' = journal
  /\ Vers(g, "fini")
  /\ UNCHANGED <<aujourdhui, sessions, lignes>>

(* caisseTheorique, with the fund seen by the first SELECT.                 *)
SommerJournee(g) ==
  LET r == guichets[g] IN
  /\ r.etape = "lu" /\ r.geste = "fermer"
  /\ guichets' = [guichets EXCEPT ![g] =
                   [@ EXCEPT !.theorique = CaisseTheorique(r.vu.fond, r.jour), !.etape = "somme"]]
  /\ UNCHANGED <<aujourdhui, sessions, lignes, journal>>

(* UPDATE ... WHERE id: nothing re-reads the state of the day.              *)
FermerJournee(g) ==
  LET r == guichets[g] IN
  /\ r.etape = "somme"
  /\ sessions' = [sessions EXCEPT ![r.jour] =
                   [@ EXCEPT !.etat = "fermee", !.theorique = r.theorique,
                             !.comptage = r.montant]]
  /\ Vers(g, "fini")
  /\ UNCHANGED <<aujourdhui, lignes, journal>>

Minuit ==
  /\ aujourdhui < NbJours
  /\ aujourdhui' = aujourdhui + 1
  /\ UNCHANGED <<sessions, lignes, journal, guichets>>

InitJournee ==
  /\ aujourdhui = 1
  /\ sessions = [j \in Jours |-> SessionAbsente]
  /\ lignes = [i \in Ids |-> LigneAbsente]
  /\ journal = <<>>
  /\ guichets = [g \in Guichets |-> GuichetLibre]

EtapeGuichet(g) ==
  \/ CreerJournee(g) \/ DeclarerFond(g) \/ Rouvrir(g) \/ CorrigerFond(g)
  \/ JournaliserFond(g) \/ SommerJournee(g) \/ FermerJournee(g)

TypeJournee ==
  /\ aujourdhui \in Jours
  /\ sessions \in [Jours -> Session]
  /\ lignes \in [Ids -> Ligne]
  /\ journal \in Seq(Entree)
  /\ guichets \in [Guichets -> Guichet]
----------------------------------------------------------------------------
(* CAI-02 and CAI-09, as their comments state them: no row is written to a  *)
(* closed day, so what its closing added up is still what its rows add up   *)
(* to.  exigerJourneeOuverte reads the day without a lock, and a closing    *)
(* that commits before the row does makes it false.                         *)
JourneeFermeeIntacte ==
  [][\A j \in Jours :
       sessions[j].etat = "fermee" /\ sessions'[j].etat = "fermee" =>
         Mouvements(j)' = Mouvements(j)]_varsJournee
=============================================================================

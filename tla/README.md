# Verification of Jùlaba

Jùlaba is an application for the market traders of Côte d'Ivoire: a till (ventes,
dépenses, fond de caisse, clôture), stock, client credits, mobile-money wallets
("Keiwa"), orders, tontines, cooperatives. The backend is one NestJS process
(`src/backend`) over PostgreSQL; the application (`src/frontend_src`) is a
React/Capacitor client that keeps an offline queue.

This directory holds TLA+ models of the parts that handle money and goods, the TLC
runs that check them and TLAPS proofs about the till, the credits, the wallets, the
tontines, the orders, the sessions and the offline queue. Names in the modules are the names of the
code, in French as in the source.

## 1. The system

### Execution model

All handlers run in one Node process but interleave at every `await`. Two handlers
share nothing but the database: READ COMMITTED, row locks by `SELECT ... FOR UPDATE`
and by `UPDATE`, unique indexes, a deadlock detector that aborts one transaction.
Many handlers use no transaction at all: each SQL statement commits by itself. The
models therefore take as one step

* one SQL statement outside a transaction, or
* one lock acquisition, or the COMMIT, inside a transaction; what a transaction wrote
  is private to it until its COMMIT.

A handler keeps in its own record what it read, and uses it later, as the code does.

### Components

| Component | State | Operations that change it | Hard behaviour | What makes it correct |
|---|---|---|---|---|
| Cash day (`caisse-rest.controller.ts`) | `caisse_sessions`, `caisse_fond_journal` | ouvrir, fond (corriger), fermer, `ensureSessionOuverte` | handlers with no lock and no transaction | reopening is explicit; figures and fund are overwritten only by a handler that had read the day open, or undeclared. That closed figures equal the rows is promised and does not hold (section 5) |
| Till: sales, expenses, cancellations (same file, `transactions-rest`, `stock-restitution.ts`) | `caisse_transactions`, `produits`, `stock_mouvements` | vente, dépense, direct row, annuler, administrator's status, stock screen | crossing carts, replays, two cancellers, deleted products | stock = typed − ledger; a cancelled sale gives back once, with its cancellation; one row per key; a key of the stock screen is recorded with its write |
| Client credits (`credits.controller.ts`, `encaisser-credit.ts`) | `credits`, `clients.montant_du`, rows of the till, `audit_logs` | create, marquerPaye, ajouterAcompte | stale amount, concurrent payments, derived keys, replays | cash on a credit is in the till, bounded by the debt, counted once |
| Wallets (`wallets.service.ts`, `wallets.controller.ts`, `admin-wallets.service.ts`) | `wallets`, `wallet_transactions`, `users.status` | transfer, withdrawal, administrator's movements, suspension | locks of two wallets, an external call in the middle, crashes | balance = ledger, never negative, one movement per key, no deadlock, rows of withdrawals that agree with the wallet |
| Payments in (`bpay.controller.ts`, `bpay.cron.ts`, `wallets-public.controller.ts`) | `bpay_transactions`, wallets | initiation, webhook, QR callback, cron | three settlers of one row, nested transactions on two connections | credited only if paid; if paid, in the end (exceptions named); once |
| Offline queue (`voice-offline/offlineCaisse.ts`, `CaisseContext.tsx`) | local queue, dead letters, keys | first send, enqueue, replay loops, dead letter, purge | lost answers, duplicates, overlapping loops, restarts, changes of account | kept until done or given back; once per account; money never given up; order; emptied |
| Sessions (`auth.service.ts`, `api-client.ts`, `AppContext.tsx`) | `refresh_tokens`, stored tokens, the shared promise | login, logout, logout-all, closing of sessions, refresh, retry, expiry, suspension, reset and change of PIN | one-use tokens presented at once, limit of sessions, refresh cut short, sessions ended by hand | nothing but a lost refresh or a token marked used by hand looks like theft; an expired token is never shown; every request ends |
| Orders and reservations (`commandes-rest`, `stock-reservation.service.ts`, `publications-rest`) | `commandes`, `negociations`, `stock_reservations`, publications, harvests, two wallets | create, status, deliver, pay, negotiate, edit the quantity | decisions on copies read before the transaction, entity saved whole | every kilo on sale or taken once; a cancelled order keeps nothing reserved; a sale is final; money moves once |
| Tontines (`tontines.service.ts`) | tontine, movements, wallets | create, cotiser with the distribution | last contribution, deadlock with transfers, suspension, crash | one pot per cycle, to the right member, when all contributed; money conserved |

The others (cooperatives, loyalty, social protection, users,
identification, scheduled jobs, notifications, websockets, master catalogue, Odoo
gateway, scores, reference data, voice, Android shell, deployment) are listed with the
reason they are left out in `PROJECT.json`, "components".

Interactions: Credit and Caisse write the rows that the cash day adds up; the stock
screen and orders write the same products as sales; callbacks, orders and tontines
move money by `creditWallet`/`debitWallet`; the offline queue replays the till's routes.

## 2. Modules

```
Journee   <-- Caisse <-- MCCaisse        Portefeuille <-- Recharge <-- MCRecharge
   ^            ^                            ^               ^
   |            +-- CaisseProofs             |               +-- RechargeProofs
   |                                         |               +-- INSTANCE GrandLivre
   |                                         +-- Tontine <-- MCTontine, TontineProofs
   +-- Credit <-- MCCredit, CreditProofs (SommesTheorems: lemmas on sums for the proofs)
          |
          +-- INSTANCE Dette             FileHorsLigne <-- MCFile, FileProofs
                                             +-- INSTANCE Promesse
Session <-- MCSession, SessionProofs
Commandes <-- MCCommandes, CommandesProofs
```

* **Journee** – the cash day of one merchant. `sessions` is `caisse_sessions` by date,
  `lignes` the rows of `caisse_transactions` (with the request that wrote them as id),
  `journal` is `caisse_fond_journal`, `guichets` the session handlers in progress.
  `LireSession` reads the row; the other actions are the statements that follow it
  with the stale copy. `CaisseTheorique` is `caisseTheorique`.
* **Caisse** – extends Journee with sales, expenses, direct rows, cancellations
  by the merchant and status changes by an administrator, and the stock screen. `req[r]`
  is the handler of a request (`etape` its program counter, `faits` the products it has
  locked, `lu` the quantities it read under the locks, `prise` what it takes or gives
  back). `retranche`/`rendu` are the two kinds of rows of `stock_mouvements`. `saisi` is
  a history variable: what absolute writes of the stock screen have added. A write of the
  stock screen that bears a key is a transaction of three steps: `PoserCle` (INSERT ... ON
  CONFLICT DO NOTHING, which waits for an open transaction with that key), `MettreAJour`
  (the UPDATE, which waits for the product's row) and `ValiderStock` (COMMIT of both);
  `clesStock` is `stock_operation_idempotency`, `issue` what the request did in the end.
* **Credit** – extends Journee with the three credit routes over `encaisserCredit`:
  lock the credit, the client, insert the row of the till, commit or roll back.
  Idempotency keys are derived from the route, as in the code.
* **Dette** – the abstract promise of the credit routes: a debt, one-step payments of
  at most what is due, keys spent once. `Credit!Promesse` is the refinement mapping.
* **Portefeuille** – wallets, their ledger, transfers, withdrawals, administrator.
  `verrous`/`lus` are the locked rows and the balances read under the locks;
  `operateur` is what the mobile-money operator really did, which the code cannot see
  when an answer is lost; `acceptee` is an order it answered without an error, whatever
  the status in its body, which the code does not read. `Plafond` is the ceiling of
  `creditWallet`. Accounts are numbers because the code orders locks by id.
* **Recharge** – extends Portefeuille with incoming payments and three kinds of
  settlers: webhook deliveries (`Rappels`), QR callbacks (`Publics`), executions of the
  cron (`Crons`). The webhook credits inside the transaction that marks the row; the
  two others call `creditWallet` without their entity manager, so that the credit
  commits alone (`Crediter`) before the row does (`Notifier`). `ligne` is the row a
  settler works on, `reste` the rest of its lot, taken in the order of `creeLe`
  (`created_at`). `Consulter` follows `statusMap[statut] || 'FAILED'`: a status the code does
  not know marks the row FAILED (webhook, cron), and the public callback ignores it.
* **GrandLivre** – the abstract ledger the owners of the wallets see: money comes in, goes
  out or passes between two accounts in one step, never more than there is, each transfer
  order and each key of a sender once. `Recharge!Livre` is the refinement mapping: `avoir`
  is the column `solde`, `faits` the debit rows of transfers with their keys.
* **Tontine** – extends Portefeuille: `gardien` is the request that locked the row of the
  tontine, `dernieres` those that counted the last contribution of the cycle; then the
  wallet of the contributor and that of the beneficiary, in that order, while transfers
  (`Autre`) lock by id. `Interblocage` is PostgreSQL aborting one of two.
* **Promesse** – the abstract promise of the offline till: an operation is kept, then
  done or given back, done at most once per account, and told done only when it was.
* **FileHorsLigne** – the queue that implements it. `place` is where an operation is
  (first send, queue, dead letters...), `boucles` the calls of `synchroniser` (`uid` the
  account captured, `reste` the rest of the snapshot), `appels` what a caller waits for,
  `errantes` the requests whose caller gave up and which may still arrive, `cles` and
  `effets` the server, reduced to what Caisse proves of it: a known key changes nothing.
* **Session** – `jetons` is `refresh_tokens` in the order of creation, `traitement` the
  handlers of `/auth/refresh` and login, statement by statement, `promesse` is
  `_refreshPromise` of each telephone, `requete` the calls of `apiRequest` with the access
  token their header carries. Every writer of `refresh_tokens` is an action: besides
  login and rotation, the reset of her PIN by an administrator in its two statements
  (`Reinitialiser`, `RevoquerReinit`; she then has to choose one, `ChangerMotDePasse`),
  logout-all and the deletion of the account (`DeconnecterPartout`), which mark tokens
  used, and the closing of sessions from the settings (`RevoquerSessions`), which only
  revokes them. `coupee` remembers the former.
* **Commandes** – orders, negotiations, reservations and payment. `requetes` keeps the
  copy a handler read before its transaction; the transaction itself is one step, because
  its first statement takes the row of the order or the publication and keeps it to the
  COMMIT. `apport` is a history variable: what the producer put on sale in all.
  `recolte.publiee` says whether the publication names its harvest (`recolte_id`): the
  routes never set it and the demonstration data do, so both are kept, and only a named
  harvest is sold by the conversion of an order on the publication (`VendrePubliee`).
* **SommesTheorems** – lemmas on `SumFunctionOnSet` (existence, one element changed,
  congruence) proved from its definition in the community modules.
* **CaisseProofs** – theorems about Journee and Caisse together.
* **RechargeProofs** – theorems about Portefeuille and Recharge together, with the
  refinement of GrandLivre.
* **FileProofs** – theorems about FileHorsLigne and its refinement of Promesse.
* **CommandesProofs**, **SessionProofs** – theorems about Commandes and about Session.
* **CreditProofs**, **TontineProofs** – theorems about Credit with its refinement of
  Dette, and about Tontine.

Comments starting with "Mutant" mark variants of a definition with a plausible bug in
it; they are in no behaviour. `PROJECT.json` pairs each with the property that must
catch it, which shows that no property holds by the shape of the model.

## 3. Runs

| Run | Specification and instance | Question, and what the run shows |
|---|---|---|
| `stock` | Caisse, 3 requests at once, 2 products, crossing carts, 1 key, every stock route | Is stock conserved, given back exactly once and with its cancellation; are keys unique, and those of the stock screen recorded with their write? Yes. |
| `journees` | Caisse, `SpecEquitable`, 2 days, 2 requests and 2 openings or closings, 2 of them at once | Does only `ouvrir` reopen a day, and does every request end, deadlocks included? Yes. |
| `credit` | Credit, 3 requests, 2 at a time, 2 clients, an opening, correction or closing, a midnight | Is cash on credits in the till, bounded, counted once; does Credit implement Dette? Yes. |
| `portefeuille` | Recharge without settlers, 3 operations, 2 wallets, crash, suspensions | Balance = ledger, non-negative, one movement per key, no deadlock, withdrawal rows that agree with the wallet; does it implement GrandLivre? Yes. |
| `recharge` | Recharge, `SpecEquitable`, 2 payments on one wallet, webhook + QR callback + cron with a lot of 1, 1 failure, a suspension, amounts at and above the ceiling | Does money enter only if paid, and is a paid payment credited in the end? Yes, but for the obstacles that the property names. |
| `tontine` | Tontine, 2 members, 5 requests, a crash, suspensions, transfers | Is each pot paid once, to the right member, complete; is money conserved? Yes. |
| `file` | FileHorsLigne, `SpecEquitable`, a sale and an update of stock, 2 overlapping loops, 2 incidents | Does the queue implement Promesse, keep money and order, and empty? Yes. |
| `commandes` | Commandes, an order and a negotiation, 2 requests on copies, 1 answer | Is the stock on sale conserved, given back, sold once; does a cancelled order keep nothing reserved; does money move once? Yes. |
| `session` | Session, `SpecEquitable`, 2 telephones, 1 session allowed, 2 requests, 3 handlers, sessions ended by hand | Is only a lost refresh, or a token marked used by hand, taken for theft; is an expired token never shown; do requests end? Yes. |
| `double_recharge` | Recharge, one payment, webhook + cron | **Violated**: the payment is credited twice. |
| `journee_fermee` | Credit, 1 credit, an opening and a closing | **Violated**: the COMMIT of a payment adds a row to a day that was closed since the payment looked at it. |
| `rejeu_autre_compte` | FileHorsLigne, 2 accounts on one telephone | **Violated**: a loop that outlives a logout posts a sale under the next account. |

Why the bounds are enough. Every hazard is a race of two actors over one row, or of
two actors over two rows in opposite order; two requests on two rows reach each of
them, and the third lets one more (a replay, a canceller, an administrator) interfere.
Two days give a "past" and a "current" day; quantities and amounts of 1 and 2 give
too little, exactly enough, too much. `MaxEnVol` bounds the handlers in progress,
`MaxPannes`, `MaxIncidents` and `MaxPertes` the crashes, lost messages and failed answers,
`MaxConnexions` and `MaxEcheances` the logins, expiries and ticks of the timer, `MaxApport`
the quantity a producer puts on sale, `LIMITE` (3 in the code) the counter-offers,
`Traitements` the handlers, `NbJours` the midnights, `Ids`,
`Guichets` and the settlers the requests. `DatesOperation` is {0} in the runs: an operation
dated of another day changes no property they check (the proofs take any). `MaxPertes`
bounds the lost refreshes and the sessions ended by hand together. `Plafond` stands for
10,000,000 francs. `Lot` is the LIMIT of the cron; in `recharge` it is 1, smaller than the
number of payments, so that a row nothing settles keeps a younger one out: `LotPlein`
excuses it by name. One failure is explored there; two around one withdrawal are what
RetraitRegle excuses. In `session` the limit of
sessions is 1 so that two telephones meet it; in `tontine` five requests are what two
full cycles of two members need, plus a rival.

Deadlock checking is off everywhere: finitely many requests end and the system may
then really stop. That nothing stops too early is what `ToutSeTermine`,
`SansInterblocage`, `RechargeCreditee`, `FileSeVide` and `RequeteTermine` check.

Symmetry of requests, products, settlers and clients is used for invariants, action
properties and the refinements of Dette and GrandLivre, which do not distinguish them; never in a run
that checks liveness.

Fairness. `Caisse!Equitable`: a handler once started is run to its end by the event
loop, and PostgreSQL aborts a transaction of a deadlock (weak fairness of each
handler's next step). `Recharge!Equitable`: the same for operations and settlers, and
the cron fires every five minutes as long as the back office leaves it enabled (weak fairness of `LireLot`). `FileHorsLigne!SpecEquitable`: each loop
makes progress (the effect arms its timer again as long as something is left, without
limit) and a request ends with some verdict. `Session!SpecEquitable`: the server finishes
what it began and the telephone handles what it received. No request, delivery, login,
payment by the client or crash is ever assumed to happen. Each lock is asked for by
finitely many handlers, so weak fairness suffices where PostgreSQL gives queues.

## 4. Proofs

About the till, `tlapm` proves, for any finite set of requests and products and all
keys, carts, amounts and days:

* `TypeCorrect`: `Spec => []TypeOK`;
* `StockToujoursConserve`: `Spec => []StockConserve`;
* `RestitutionToujoursJuste`: `Spec => []RestitutionJuste`;
* `ClesUniques`: `Spec => []UneLigneParCle`;
* `EcrituresUniques`: `Spec => []CleUneEcriture`;
* `RestitutionDansAnnulation`: `Spec => RestitutionAvecAnnulation`;
* `ReouvertureParOuvrir`: `Spec => ReouvertureExplicite`;
* `ConstatToujoursGrave`: `Spec => ConstatGrave`;
* `FondToujoursConserve`: `Spec => FondDeclareConserve`.

The last two are in no run. They say what is left of « le constat est gravé » and of
« le seul chemin pour changer un fond déjà déclaré » when handlers overlap: the figures of a
closed day give way only to a closing that had read it open, a declared fund only to a
correction or to an opening that had read it undeclared.

About the wallets (module RechargeProofs), for any finite sets of accounts and
operations, any callbacks and crons, all amounts and keys, and crashes at every step:

* `TypeCorrect`: `Spec => []TypeOK`;
* `SoldeToujoursJournal`: `Spec => []SoldeJournal`;
* `SoldeJamaisNegatif`: `Spec => []SoldePositif`;
* `CleToujoursServieUneFois`: `Spec => []UnTransfertParCle`;
* `RetraitToujoursRegle`: `Spec => []RetraitRegle`;
* `PaiementToujoursJustifie`: `Spec => []PaiementJustifie`;
* `JamaisInterblocage`: `Spec => []SansInterblocage`;
* `LivreToujoursTenu`: `Spec => LivreTenu`, the refinement of GrandLivre.

About the sessions (module SessionProofs), for any sets of telephones, requests and
handlers, any limit of sessions and any number of logins, expiries and lost answers:

* `SessionSaine`: `Spec => []SInv`, and `TypesSession`: `Spec => []TypeOK`;
* `VolJamaisImagine`: `Spec => []RevocationSurPerteSeulement`;
* `EchecToujoursJustifie`: `Spec => []EchecJustifie`.

About the offline queue (module FileProofs), for any sets of operations, accounts and
overlapping loops, and any number of incidents:

* `TypeCorrect`: `Spec => []TypeOK`;
* `ArgentToujoursGarde`: `Spec => []ArgentJamaisAbandonne`;
* `OrdreToujoursGarde`: `Spec => []OrdreDeFile`;
* `PromesseToujoursTenue`: `Spec => PromesseTenue`, the refinement of Promesse.

About the orders (module CommandesProofs), for any finite sets of orders and
negotiations, any number of requests, and any quantities:

* `Invariant`: `Spec => []ICommandes`, and `TypeCorrect`: `Spec => []TypeOK`;
* `StockToujoursConserve`: `Spec => []StockPublieConserve`;
* `AnnulationRestitue`: `Spec => []AnnuleeRestituee`;
* `VenduToujoursExact`: `Spec => []VenduExact`;
* `DebitUnique`: `Spec => []UnSeulDebit`;
* `AcceptationToujoursServie`: `Spec => []AcceptationServie`;
* `ReservationToujoursDefinitive`: `Spec => ReservationDefinitive`.

About the credits (module CreditProofs), for any finite set of requests and any set of
clients, keys, totals and amounts:

* `Invariant`: `Spec => []ICredit`;
* `DetteToujoursBornee`: `Spec => []DetteBornee`;
* `EncaissementToujoursTrace`: `Spec => []EncaissementTrace`;
* `DuToujoursExact`: `Spec => []MontantDuExact`;
* `NatureToujoursJuste`: `Spec => []NatureJuste`;
* `DetteToujoursTenue`: `Spec => ImplementeDette`, the refinement of Dette.

About the tontines (module TontineProofs), for any finite sets of members and requests,
any contribution, transfers and crashes:

* `Invariant`: `Spec => []ITontine`;
* `CagnotteToujoursExacte`: `Spec => []CagnotteExacte`;
* `ArgentToujoursConserve`: `Spec => []ArgentConserve`.

Assumptions are those of the constants only (`IdsFini`, `FondsNat`, `GestesConnus`,
`NbJoursNat`, `CaisseConstantes`, `PortefeuilleConstantes`, `RechargeConstantes`,
`FileConstantes`, `CommandesConstantes`, `CreditConstantes`, `TontineConstantes`,
`SessionConstantes`); TLC evaluates them in the runs.

The inductive invariant `CaisseProofs!IInv`. The code writes the *absolute* stock it
computed from an earlier read, so StockConserve alone is not inductive: at the
commit of a sale one must know that what was read is still there. IInv adds that row
locks exclude (`VerrousProduits`, `VerrousLignes`), that what was read under a lock is
current (`LuSousVerrou`), what an uncommitted sale or restitution holds (`PriseVente`,
`PriseRendue`, `SansVerrou`), that a restitution under way is the first and complete
(`RenduComplet`, `DejaRendu`), and bookkeeping (a row is written by the last step of its
request; no row, no ledger; products that do not exist have no stock). One lemma per
kind of step (`PasVendreLigne`, `PasValiderVente`, `PasRendreLigne`, ...), then `PasInv`
puts them together over `Next`.

Unicity of keys needs `ICle` on top: between INSERT and COMMIT the key is taken in
the index and invisible to reads. `IEcriture` does the same for the keys of the stock
screen: a request is answered by its last step (`IssueFinie`), the key of an open
transaction is not recorded (`CleStockReservee`) and nobody else has it
(`CleStockExclusive`). It also says that a request with something to give back is one that
cancels (`PriseDeAnnulation`), hence that the ledger moves only in the commit of a
cancellation.

The days need `IGuichet`, about handlers that hold no lock: a closing under way had read
its day open (`FermeVueOuverte`), a day that was read exists for good (`VuExiste`), and a
day that does not exist has no declared fund (`AbsenteNeuve`).

The inductive invariant `RechargeProofs!IInv`. A balance is written from `lus`, which was
read at the lock. `Argent` is what the money part needs: locks exclude (`Exclusion`),
what was read under a lock is still the balance (`LusFrais`), balance = ledger, balance
>= 0. `OpTient` says what a request holds and has checked at each step (`Couvert`: the
amount is covered by the balance it read; no ledger row before a transfer is made).
`AgentTient` says that a settler works on payments whose request is over, so that its
ledger rows never disturb a transfer, and holds the wallet it credits. The failures that
excuse a row are never forgotten (`PannesComptees`). `ArgentPrendre`,
`ArgentLacher`, `ArgentMouvement` and `ArgentVirement` keep `Argent` for the four ways to
touch a wallet; `PasOp` and `PasAgent` frame the rest. That a lot of the cron
is not empty and has an oldest row (`LotNonVide`, `PlusAncienneExiste`) is needed
for the type of a settler.

The rows need `JInv` on top of it: what a request may have written to the ledger at each
step, whose key passed the unique index, what the operator was asked when a withdrawal
row is settled or refunded, and which locks a step waits for with which in its hands. No
deadlock follows from the last: who holds the greatest wallet of those held waits for none
of them, because a transfer that holds one wallet asks for a greater one and the others
hold none while they wait.

In the refinement of GrandLivre every step that writes a balance is one step of the
ledger and every other a stutter. `LivreMouvement` does so for one wallet: what was read
under the lock is the balance (`LusFrais`), so the absolute write adds the amount, and
`SoldePositif` in the next state bounds it. `LivreVirer` needs both invariants: the order
has no row yet, the two balances are as read, and the unique index that let its key pass
says that no order of `faits` has it. `MemesFaits` frames the rest.

The inductive invariant `SessionProofs!SInv`. The server looks a refresh token up, marks
it used, revokes or saves in statements of their own, without a lock: nothing in the
server keeps two handlers from presenting one token. The shared promise of the telephone
does. `Sain` says so, as long as no refresh was cut short and no token was marked used by
hand: one handler per promise
(`UnPorteur`, `PorteurDuTelephone`), which has the token of the telephone in hand
(`UneMemoire`, `UnVerrou`) and which nobody has used (`JamaisServi`, `UseEnCours`).
`Excuse` says what a request that fails for want of a session can point to: unless she
logged out or is suspended, either a token that was revoked is in nobody's hands
any more (`Mort`, the witness of EchecJustifie), or nothing has failed and every telephone
that is connected still can refresh (`Justes`).

The inductive invariant `FileProofs!IFile`. A loop acts on an answer to a request that
left earlier, for an operation another loop may have taken since. IFile says what a
request carries and what its answer is worth (`Courriers`), that the server did at least
once what it knows the key of (`Unicite`), whose answer each caller waits for
(`Attentes`), and that what the owner has in the queue now is in the hand of the loop or
was entered later (`Ordres`): this is what makes `break` preserve the order when loops
overlap. The refinement has one lemma per action, each mapping to one action of
Promesse or a stutter.

The inductive invariant `CommandesProofs!ICommandes`. A handler decides on a copy of the
order it read before its transaction, so what the copy says may be false when it writes.
ICommandes adds what it is still worth (`CopieVaut`): a copy that says `annulee` is of an
order that holds no reservation and never will again, and one that says `paye` is of an
order whose money has moved, because a reservation leaves `active` once and a debit is
written once (the unique index of the ledger). `Passage` is what any operation on the
stock does to the one reservation it names; `PasHorsCommande` frames the steps that only
read.

The inductive invariant `CreditProofs!ICredit`. A request writes at its COMMIT what it
computed when it locked the credit. ICredit says what holds in between: two requests that
hold a credit hold different ones (`Exclusion`), so what is left to pay cannot have changed
(`Paiement`); a credit under creation is seen by nobody (`Creation`, `Vierge`); a key that
passed the unique index is in no row and in the hands of no other request (`CleFraiche`).
Sums over rows and credits change by one term per COMMIT (`CommitDu`, `CommitLignes`). In
the refinement only the COMMIT moves the abstract debt; every other step is a stutter.

The inductive invariant `TontineProofs!ITontine`. A contribution counts the others of its
cycle two lock waits before its COMMIT. `Tour` says that the count is still true because
the request holds the row of the tontine, and that it holds the wallets it will write;
`Frais` that what it read of them is still their balance; `Avenir` that nobody has
contributed to a cycle to come, which makes the pot of the next one start at zero.

Every invariant, action property and refinement that a passing run checks is stated by a theorem.
Only model-checked: liveness (`ToutSeTermine`, `RechargeCreditee`, `FileSeVide`,
`RequeteTermine`), which is out of the prover's reach (fairness, ENABLED). No module declares a RECURSIVE operator: sums are folds,
and the induction over finite sets behind the lemmas on sums is done by hand in
`SommesTheorems`.

## 5. What the checks found

Three statements of the repository are contradicted by its code and have a run
(`PROJECT.json`, "findings"). A payment is credited twice when the webhook and the cron
meet, because the answer of `UPDATE ... RETURNING` always has length 2. A replay
loop that outlives a logout and a login posts the operations of one merchant with the
token of the other. A closed day still takes rows: `exigerJourneeOuverte` reads the day
inside the transaction, as its comment wants, but without a lock, and a closing fits between
that read and the COMMIT; the sale and the expense look at the day in no transaction at
all.

Other ways the figures of a closed day come to differ from its rows, one handler after
the other or not: a sale sent late is dated into it (`caisse-rest.controller.ts:748`, on
purpose); its fund is corrected (l. 431); a direct row or the administrator's status route
writes without a look at the day; midnight falls between the comparison of the dates and the
read of the day in `annulerVente` (l. 228). A second closing that also read the day open
overwrites the first (l. 543), and of two openings that both read it undeclared the second
replaces the fund (l. 377): ConstatGrave and FondDeclareConserve allow exactly these.

Windows of the payments: a status that the code does not know, or an empty one, marks a
payment FAILED for good (webhook and cron), although the operator may have it; a paid
payment above 10,000,000 francs is marked by no one and never credited; a withdrawal is
COMPLETED on any answer without an HTTP error, whatever its status says; if the UPDATE
that completes it commits and its answer is lost, the money is given back too and a crash
before the next statement leaves the row COMPLETED. RetraitRegle, PaiementJustifie and
RechargeCreditee name these exceptions.

Of sessions: after a reset by an administrator or logout-all, tokens are marked used, so
the next refresh of another telephone looks like a theft and closes the sessions opened
since (`users.service.ts:532`, `auth.service.ts:389`); RevocationSurPerteSeulement names it.

Windows of the orders that no promise of the repository excludes, and that the module
keeps: two answers to one negotiation, decided on the same copy, create two orders or a
fourth counter-offer; an order cancelled after its confirmation keeps the quantity it
bought (`liberer` gives no sale back), and can be paid; an order on a publication that
names no harvest leaves `stock_vendu` as it is; a delivery can set a paid order back
to `non_paye` (the unique index then refuses the second debit, so the order stays
unpaid for the screen). Of sessions: the answer of a refresh that comes after the logout
stores its tokens again; two logins at once both count the sessions before either saved
its own, and the limit is exceeded by one. Of tontines: a suspended beneficiary blocks
the last contribution of her cycle until she is restored.

## 6. Abstractions

* `gelee` stands for the statuses `gelee`, `en_cours` and `litige`, which the code treats alike.
* Amounts are whole francs; the rounding of typed decimals is left out.
* A cart is a function from products to quantities; lines of the same product are one.
* One merchant: rows of different merchants never interact in the modelled routes.
* The journal of the fund and audit rows are best effort in the code; the first is kept
  with both outcomes, of the second only the link to the credit.
* In `synchroniser` the account, the snapshot and the first look at the queue are one
  step; a first send answered 408 or 429 is given back like any 4xx, as by `doitEnfiler`;
  the clock of the telephone does not go back.
* The server of FileHorsLigne does a keyed operation in one step: that its own races
  keep keys unique is `ClesUniques`.
* The transaction of an order is one step (see Commandes in section 2); the wallets of its
  payment are the two it names, other movements on them being those of Portefeuille.
* The loop that revokes the oldest sessions is one step. Only the tokens of the
  application are modelled, not the cookies of the browser; a refresh token does not
  expire (one week in the code); the PIN is right.
* Names, phone numbers, texts, notifications, permissions: left out. The secret of the
  webhook and the rights of administrators are guards that a request has passed.
* `solde_bloque` is 0: no route calls `blockFunds`, `releaseFunds` or `refundFunds`.
* The operator's vocabulary is reduced to PENDING, SUCCESS, FAILED and a status the code
  does not know, which is counted with the failures. EXPIRED is treated as FAILED by the
  webhook and the cron, and like an unknown status by the public callback.
* The back office can disable the cron: it is assumed enabled.
* The cron's 15 minutes before it looks at a payment are left out: a delivery may be
  later than that.
* The connection pool (10 connections, 15 s) is not modelled; see the hazards.

## 7. Not modelled, and what is left

Most of the repository's lines are screens (`src/frontend_src/src/app/components`), forms
and administration of reference data: they hold no shared state, call the routes
modelled here, and have no interleaving of their own. The models follow the state that several
actors change.

Left out with their reasons in `PROJECT.json`: cooperatives (the pattern of locked rows of
the till and the wallets, on tables of their own), loyalty and scores (computed from
rows), social protection, the forms of users and identification (one officer, one row per request),
master catalogue, Odoo, notifications, websockets, voice, deployment. Of
authentication, the waits of the PIN lock, WebAuthn, activation and the reset of an
identification officer's PIN; of publications, DELETE, which the foreign key of `commandes`
refuses once an order names one; of the till, the
photographs of products and the texts of the audit.

What a next step would add, in order: the connection pool as a counted resource
(`annulerVente` asks for a second connection inside its transaction); the
administrator's status route composed with Credit; the treasury of cooperatives.

# Avanti — vérification formelle / formal verification

Avanti follows the works of a house: it compares the proposals of the artisans
(*devis*), tracks what is committed, invoiced and paid (*finance*), plans the works
(*planning*), keeps the documents (*documents*), and lets its owner and an AI assistant
use it through a web site and an MCP server. It is one Go server, and a few
commands beside it, in front of one PostgreSQL database and one store of contents (a disk or S3). This directory holds TLA+ models of its
components, what TLC checks of them and what TLAPS proves of them. Names are those of the
code, in its own language; `PROJECT.json` maps every definition to the lines it models.

## 1. Inventory

All state that lasts is in PostgreSQL (one schema, migrations 00001–00011) and in the
object store. The process itself keeps only the login limiter, the connection pool and
the requests in flight. Every HTTP request is a goroutine; a use case is a sequence of
database round trips, and two requests interleave between any two of them. PostgreSQL
runs in READ COMMITTED.

| Component | State | Operations | Interactions | Hard behaviour | What makes it correct |
|---|---|---|---|---|---|
| devis (`internal/devis`, `adapters/postgres/devis.go`, migrations 00006, 00007, 00011) | `demandes_devis`, `devis` | open a demande, record a devis, retain (refuses the siblings), reject, compare | web, MCP, finance (retained devis = a commitment) | check in the service, then write later; multi-row transaction; trigger and row locks; pool | one retained devis per demande, nothing waiting on a closed demande, decisions final and indivisible, every caller told the truth, every request answered |
| accounts (`internal/identity`, `adapters/postgres/users.go`, migration 00002) | `users` (role, password hash, active) | create, authenticate, reset password, change role, deactivate, reactivate | web login, OAuth, command line (another process) | whole-row read-modify-write from two processes | a deactivated account acts nowhere and stays deactivated, roles take effect at once |
| web sessions and login (`adapters/web/{session,login,ratelimit}.go`, migration 00003) | `sessions`, the in-memory limiter | open, look up, destroy, count failures, block, evict | identity | destruction only when a request arrives; session written back at the end of a request; check-then-act of the limiter | a closed session never acts again; attempts are bounded |
| OAuth server (`adapters/postgres/oauth*.go`, `adapters/web/oauth_*.go`, migrations 00004, 00005) | `oauth_tokens` (codes, PKCE challenges, access and refresh tokens, each active or not), `oauth_grants`, `oauth_clients` | authorize, exchange a code, rotate, replay, revoke, purge, register a client | fosite (library), identity, MCP, the purge goroutine of the server | statements that are not in one transaction, row locks, replay of a code or of a refresh token, two rotations at once, purge against use | one successor per refresh token, no token active beside its replacement, a family revoked stays so, nothing without a consent |
| planning (`internal/planning`, `adapters/postgres/planning.go`, migration 00010) | steps, their prerequisites, milestones | create, update, start, finish, reach | web, MCP, documents | graph check and optimistic guard under one advisory lock; reads outside of it | prerequisites never form a cycle, a step starts after they are finished, no update is lost |
| finance (`internal/finance`, `adapters/postgres/finance.go`, migration 00009) | invoices, down payments | record, pay, send, refund, totals | devis (commitment), documents | cap on the down payments of a devis under a lock per devis; optimistic guard | what is paid down never exceeds the commitment; each transition happens once |
| documents (`internal/document`, `adapters/postgres/documents.go`, `adapters/storage`, `adapters/web/documents.go`, migration 00008) | metadata rows, contents in the store | upload, download, list | every other domain attaches documents; the seed uploads two | two stores, no common transaction, best-effort cleanup, lost answers; contents on a disk that nothing synchronises | no row without contents, a confirmed piece stays, except for what a power cut takes from a disk |
| MCP server (`adapters/mcp`) | none | tools over the same services, gated by token scopes | OAuth, services | re-reads before an update, so it has no optimistic guard of its own | scopes are those of the token *and* of the account |
| platform (`internal/platform`) | configuration, pool, `goose_db_version`, HTTP server | open, migrate, serve, shut down | all | two processes that migrate, graceful stop with requests in flight, order of the deferred calls | nothing runs on half a schema, nothing loses its pool under its feet, a server told to stop stops |
| command line (`cmd/avanti`) | none of its own | `serve`, `migrate`, `seed`, `user …` | identity, documents and every domain, in a second process | concurrent with the server; a seed checks, then writes | an instance that has lived is not seeded; as identity |
| export, templates, mail, i18n | none | formatting | | none | not modelled: pure formatting (`mail` is an empty package) |

Which behaviours are hard, at their lines, is the list `hazards` of `PROJECT.json`, each
with the properties that would catch it going wrong.

## 2. Modules

An abstract specification says what a component promises, each use case being one step;
the detailed one cuts the use case at every database round trip and is shown to implement
it (`PromesseTenue`, with the abstract module instantiated on the same tables).

| Component | Promise | Program | Algebra it rests on | TLC | Proofs |
|---|---|---|---|---|---|
| devis | `Consultation` | `DecisionDevis` | | `MCDecisionDevis` | `DecisionDevis_proofs` |
| planning | `Chantier` | `Planning` | `GrapheEtapes` | `MCPlanning` | `Planning_proofs` |
| planning, `CheckAcyclic` | `GrapheEtapes!Acyclique` | `ParcoursGraphe` | `GrapheEtapes` | `MCParcoursGraphe` | `ParcoursGraphe_proofs` |
| finance | `Tresorerie` | `Finance` | `PiecesFinance` | `MCFinance` | `Finance_proofs` |
| accounts, sessions, tokens | `RegistreAcces` | `Acces` | `Identite` | `MCAcces` | `Acces_proofs` |
| login limiter | | `Limiteur` | | `MCLimiteur` | `Limiteur_proofs` |
| OAuth server | | `Jetons` | | `MCJetons` | `Jetons_proofs` |
| documents, server, commands | | `Instance`, which composes `Depot` with the processes | | `MCInstance` | `Instance_proofs` |

### What is common

* A **request** is one goroutine: a program counter `pc[p]` and the local variables the Go
  code keeps between two round trips. An action is one round trip with everything the code
  does up to the next one: a check that needs no database is part of the action that read
  what it checks. `Abandonner(p)` is the client that hangs up, the statement that fails or
  the process that dies: the transaction is rolled back, its locks vanish. A `COMMIT` whose
  answer is lost has written, and its caller is told of a failure.
* The **tables** hold committed rows. PostgreSQL runs in READ COMMITTED: a read sees what
  is committed when it runs; an `UPDATE` waits for the writer of its row, then judges its
  `WHERE` again on the row as it is. Row locks and advisory locks are not variables: who
  holds one is a function of where each request is, so a lock cannot be forgotten in the
  model unless it is in the code. (`Jetons`, whose statements change many rows, names the
  rows each transaction holds: `tient`.)
* The column **`modifie_le`** is a date; the model counts writes. It is the same as long as
  the clock moves between the read of a row and the next write of it. A clock that steps
  back is outside of the model (listed as a hazard).
* **Amounts** are small units. A sum is the cardinality of the set of the units recorded
  (`PiecesFinance!Somme`): the same number as SQL's `SUM`, in a form about which TLAPS can
  reason without an induction over data. **Identifiers** are drawn fresh (`NewID`, 128
  random bits): a fresh one is any one that nobody has.
* An operator preceded by "Mutation" is the model of a plausible bug. No specification uses
  it; put in place of the definition it follows, it shows which property catches the bug.

### devis — `DecisionDevis` implements `Consultation`

`statut`, `decidePar`, `demandes` are the committed columns; `ecrit[p]` is what the open
transaction of `Retain` has written. `Suite` is the checks of `Service.Retain` and `Reject`
on what `checkDecision` has read; the transaction is `PrendreConnexion`, `Verrouiller`
(`FOR UPDATE` on the demande), `MajRetenu`, `MajSoeurs`, `Valider`. `VerrouLibre` is at once
that lock and the `FOR UPDATE` of the trigger of migration 00007, through which every insert
of a devis goes. `Saisies` is what the handlers pass on, `IdentifiantsTires` the fresh identifier of a
recorded devis. The partial unique index of migration 00006 is `ClosePour` in `MajRetenu`.
`explainMissedUpdate` asks the pool for a second connection while the transaction holds its
own: `ConnexionLibre` is the guard that models the pool.

### planning — `Planning` implements `Chantier`, `ParcoursGraphe` computes `Acyclique`

`Saisies` is what the forms carry, once `Normalisees`. A request begins at the page (`Charger`: `handleEtapeModifierForm`, whose version the form
carries) and goes through the reads of the service (`guardedEtape`, `checkDependencies`,
`checkPrerequisitesDone`), then the transaction under the advisory lock: `RelirePrealables`
(only for a start), `Ecrire` (the optimistic guard and `explainMissedEtapeUpdate`),
`Verifier` (`checkEtapeGraph`), `Valider`. `EtapeByID` and `ListEtapes` read the rows and
their prerequisites in two queries: two actions. A tool of the MCP server reads the version
itself right before it writes: the same path, with a page that nobody looks at.
`Sain` uses the definition `Acyclique`, "no set of steps in which each has a prerequisite in
the set"; that `CheckAcyclic` computes it is what `ParcoursGraphe` checks and proves, on its
colours, its trail and its loops, whatever the order of the slices.

### finance — `Finance` implements `Tresorerie`

`pieces` are the rows of `factures` and `acomptes`, with the rules of the entities in
`PiecesFinance` (`Permet`, `Apres`). Goroutines serve one request after another. A recording
resolves its devis (`Resoudre`), sums the down payments without a lock (`Cumuler`), takes the
advisory lock of the devis (`Verrouiller`; `Cle` is `hashtext`, which may collide), sums again
(`Relire`), inserts, commits. A transition reads and writes under the optimistic guard
(`Ecrire`, `Expliquer`). The summary reads the retained devis, the invoices, the down payments
(`LireRetenus`, `LireFactures`, `LireAcomptes`). `Retenir` is all that the component sees of
`DecisionDevis`: a proposal becomes retained, and stays so (`DecisionDefinitive`).

### accounts, sessions and tokens — `Acces` implements `RegistreAcces`

`comptes` is table `users`; `sessions` is table `sessions`, where `titulaire` remembers for
whom each token was drawn. Requests come by a session cookie, a login form or a bearer token
(whose scopes are chosen freely); commands are processes that run `avanti user`. The library
scs is modelled from how `newSessionManager` configures it: a session is read when the
request comes in and, since there is an idle timeout, written back when the answer starts
(`Sauver`, an upsert) unless the handler has destroyed it. `LireCompte` is `actorFromSession`
followed by `requireScope`. Of the nine scopes three classes are kept, which the two roles
tell apart. Hashing, the decoy hash and validation are left out.

### login limiter — `Limiteur`

The map of counters, its mutex (each call is one action) and the form that consults it
before the slow verification and tells it of the outcome afterwards. Time is the age of each
counter, in ticks, and stops at the window, where nothing changes any more.

### OAuth server — `Jetons`

`etat` is the table `oauth_tokens` reduced to what decides (no row yet, active, inactive,
deleted), `famille` its column `request_id`, `accords` the table `oauth_grants`; `origine`
and `chutes` are histories: which token each pair replaced, and how a family was revoked. A
pair is an access token and the refresh token issued with it. A process is a goroutine that
serves one request after another:

* a **decision** (`RecevoirDecision`, `Noter`, `CreerCode`, `CreerDefi`) writes the consent,
  the code, the PKCE challenge, in three statements that no transaction holds together;
* an **exchange** (`LireCode`, `LireDefi`, `EffacerDefi`, `RelireCode`, then `BeginTX`,
  `Consommer`, `Emettre`, `Valider`) reads the code twice and consumes it without a condition;
* a **rotation** (`Lire`, then `BeginTX`, `Retirer`, both sweeps, `Emettre`, `Valider`): the
  condition `active` of `rotatePresentedToken` is judged on the row once its lock is got;
* a **replay** of a code sweeps the family without a transaction, that of a refresh token
  (`Effacer`) in one; a **revocation** sweeps it from any active token.

A sweep is one `UPDATE`: `Balayer` fixes the rows of its snapshot (`reste`), `Verrouiller`
takes one when it is free, `Terminer` ends the statement. A sweep that fails outside of a transaction
(`Echouer`) does not prevent the next one: fosite looks at the errors once both have been called. Between the store and the handlers is
fosite: which of its handlers calls which method, and in which order, is taken from what each
method of the store answers. Expiry is `Abandonner` for whoever presents the token and `Purger`
for the table, which deletes in the order of the ages and never a row that a transaction
holds. Two statements that wait for each other's rows are a deadlock that PostgreSQL ends by
`Abandonner`.

### documents, server and commands — `Depot`, `Instance`

`Depot` is `Service.Upload`: draw an identifier, `EcrireContenu`, `Inserer`, `Nettoyer` when
the row fails, `Confirmer`. Each write may fail before or after it has been applied; a row
committed by a statement that failed is in `perdues`. The store is a disk or S3 (`stockage`).
`S3.Save` returns when S3 has written; `Filesystem.Save` publishes a file that it never synchronises,
nor its directory, so that the contents are in `enCache` until the power fails: which of them the
kernel had written by then is decided at that moment (`PerdreCache`), the others are missing or
truncated, and those that had a row are in `emportees`. PostgreSQL synchronises a row before it confirms it. `Instance` runs those calls in
processes: the goroutines of the server and the commands that seed. A process connects,
applies the migrations it finds missing (`lu` is what it has read of `goose_db_version`, once),
listens or seeds, closes its pool (`Fermer`) and leaves (`Quitter`), or is killed (`Tuer`) at
any moment, and may be started again: the death of a process takes nothing it has written. `Coupure` is
the power of the machine, which all processes share: they die together and the disk loses what was not written. The server's stop is `Arreter`, `FinirArret` or
`DelaiPasse`, then the deferred calls in their order: the purge is told to stop and waited
for (`FinirPurge`, `ArreterPurge`), then the pool is closed. A seed makes the six reads of
`checkEmptyInstance` one after another (`Verifier`), then its writes (`Semer`, `Deposer`), and
leaves what it has written if one fails. `Saisir` is people who use the server meanwhile.

## 3. Runs

Each run is one question; `PROJECT.json` names its properties, and for each property a
mutation of the code that TLC finds to violate it.

| Run | Bounds | What it shows |
|---|---|---|
| `devis` | 2 requests of any kind, 3 devis in competition and one alone, 3 connections | `DemandeTranchee`, `DecisionIndivisible`, `DecisionDefinitive`: one decision per demande, whole and final, whatever is recorded, retained or rejected meanwhile. `ReponseVraie`: every answer is true. `PromesseTenue`. `ToutesRepondues`: no deadlock with a pool larger than the requests |
| `devis_pool` (violation) | 3 requests, 2 devis, 2 connections | `ToutesRepondues` fails: see findings |
| `planning` | 2 requests of any kind, 2 steps, every legal content of the tables at the start | `SansCycle`, `DemarrageLegitime`, `Avancement`: the rules of the works. `RienEcraseSansLeVoir`: no lost update although page, service and transaction read in separate queries. `ReponseVraie`, `PromesseTenue`, `ToutesRepondues` |
| `parcours` | every graph on at most 3 steps, self-loops and unknown prerequisites included | `VerdictJuste`: the verdict of `CheckAcyclic` is the definition. `ChaquePasAvance`: no turn of its walk comes back, so that it cannot go round for ever |
| `finance_transitions` | 3 goroutines, 1 piece, amounts 1 and 2 | `RienPerdu`: no transition erases another. `PromesseTenue` |
| `finance_engagement` | 2 goroutines, 2 pieces, one devis of 2 units | `CumulSousEngagement`, `DepassementFonde`: the cap holds and refuses nobody wrongly. `SyntheseEncadree`: a summary in three reads is bounded by before and now. `ToutesRepondues` |
| `acces_droits` | 1 account, 1 request of any kind, 1 command of any kind, 2 session tokens | `DroitsRecents`: who acts held the scope since the request came in, by a session or a token. `ConnexionFondee`: who logs in had the password of an account open meanwhile. `FermetureEffective`, `PromesseTenue` |
| `acces_fermeture` (violation) | 1 account, 2 commands | `FermetureTenue` fails: see findings |
| `acces_deconnexion` (violation) | 1 account, 2 requests, 1 token | `DeconnexionTenue` fails: see findings |
| `limiteur` | 3 keys, 2 requests, threshold 2, window 2, capacity 2 | `BlocageFonde`, `OubliJustifie`: nobody waits and nothing is forgotten without a reason. `CarteBornee`, `EssaisBornes`: the map and the attempts are bounded although check and count are not atomic. `BlocageFini` |
| `jetons` | 1 authorization, 2 requests of any kind at a time, 3 pairs of tokens, the purge at any moment | `UnSuccesseur`: a refresh token has one successor. `RotationStricte`: no token is active beside its replacement. `FamilleTombee`: what a revocation or a replay that nothing crossed has brought down stays down. `Consenti`: nothing is given without a consent |
| `instance` | a server with an upload, a seed, 2 documents, 2 migrations, a disk or S3, any kill, stop, power cut and start | `SchemaAJour`: nothing runs on half a schema. `PoolTenu`: the pool outlives the purge and the requests `Shutdown` has waited for. `AmorceSurVide`: a seed spares an instance that has lived. `PieceEntiere`, `PieceConfirmee`: no listed or confirmed piece lacks its contents, except for what a power cut takes from a disk. `ArretFinit`: a server told to stop stops |

**Why the bounds are enough.** A hazard here is between two requests on one object: the one
that has read and the one that writes. Two requests and one contended object show it; a
second object shows what must not be disturbed. The third devis in `devis` is a sibling that
neither request names; the third goroutine of `finance_transitions` makes a transition meet
two others at different moments; the third key of `limiteur` is the one an eviction is for.
In `jetons` three pairs are a first one, its replacement, and the one a race would issue beside
it; one authorization is enough because nothing in the code reads two families together, and the
theorems hold for any number. In `instance` a request and a seed write to the same stores with
two identifiers, so that one is drawn again after a failure, and two migrations let a process die, or
another overtake it, between them. A run of `acces_droits` has one request and one command: what
two browsers do to each other's sessions is proved (`Acces_proofs`), for any number.
For what is proved, the bounds do not matter: the theorems hold for every number of requests,
devis, steps, pieces, keys, and for every threshold, window and capacity.

**Fairness.** Weak fairness of `Etape(p)`: the Go scheduler runs every goroutine that can run
and PostgreSQL answers every statement that does not wait. No fairness on `Abandonner`
(nobody has to hang up), on arrivals, on commands, on expiry. `Finance` adds strong fairness
of `Verrouiller`, because goroutines serve requests for ever and the lock may be taken again
before a waiter is looked at: PostgreSQL queues the waiters of a lock in order, which strong
fairness abstracts. `DecisionDevis` and `Planning` do not need it, as their requests end.
`ParcoursGraphe` needs none: it is sequential and its progress is an action property. `Limiteur` adds that time passes.
`Instance` has none on starts, kills, signals, requests or migrations: only the way out is fair,
weakly for `Arreter`, the end of `Shutdown` (its delay passes), the end of a pass of the purge
(its statements answer), `ArreterPurge` and `Quitter`; strongly for `FinirPurge`, since a `select`
with a tick and a cancellation both ready picks one at random. `Jetons` states safety only.
Deadlock is checked everywhere; `Repos` is the instance that has answered everybody.

## 4. Findings

* **The pool can starve** (`devis_pool`, `adapters/postgres/devis.go:335`). The loser of a
  retention calls `explainMissedUpdate` inside its transaction; `DevisByID` asks the pool for a
  second connection. If the others are held by requests that wait for the lock this very
  transaction holds, nobody is ever answered. The planning repository makes the same read
  inside its transaction.
* **A disabled account enabled by somebody who did not** (`acces_fermeture`,
  `adapters/postgres/users.go:106`). `Update` rewrites the whole row: `set-role` or
  `set-password` that has read it before a `disable` writes `actif` back. The other components
  have an optimistic guard for this, this one has none.
* **A logout undone** (`acces_deconnexion`, `adapters/web/session.go:59`). A page of the same
  browser under way during the logout writes the session back by an upsert, and sets its cookie.

Remarks, without a run, most of them behaviours of the models that a property had to leave room for:

* Sessions of a disabled account are destroyed one by one, when a request comes with one of
  them (`session.go:184`). `disable` then `enable` with no request in between leaves them
  open, whereas the repository's `README.md:176` and `cmd/avanti/user.go:316` say that they are closed.
* The summary reads the retained devis before the pieces (`adapters/mcp/tools_finance.go:115`): one
  that is retained and invoiced in between is shown as a devis that has disappeared.
* Two exchanges of one code that have both read it active both consume it
  (`InvalidateAuthorizeCodeSession` has no condition) and issue two pairs of one family; hence
  `UnSuccesseur` is stated for refresh tokens.
* A revocation that crosses a rotation may miss the pair the rotation is about to commit, and the
  family lives on, although `adapters/web/oauth_token.go:20-21` and `62-64` say that it falls
  whole; hence `FamilleTombee` is stated for revocations that nothing crossed. Likewise when
  PostgreSQL ends a deadlock between a replay and a rotation by aborting the replay.
* `oauth.go:303-305` says that the purge keeps rows for a horizon after they expire; `expiryOf`
  gives the date of expiry itself.
* An `INSERT` of a document that is committed but whose answer is lost: `Upload` deletes the
  contents of a row that is there, and its download fails, which the comment over `Upload`
  (`document/service.go:147-153`) says cannot happen. It is the exception `perdues` of `PieceEntiere`.
* `Filesystem.Save` synchronises neither the file nor its directory. Its comment
  (`adapters/storage/filesystem.go:65-67`) says that a failure on the way leaves at worst a temporary file,
  never truncated contents under a published key. That is true of a process that dies and not of a power cut,
  which can take or truncate contents already published, and even confirmed, while their row stays. It is the exception
  `emportees` of `PieceEntiere` and `PieceConfirmee`, empty with S3.
* What people enter while a seed checks, a seed may miss (`cmd/avanti/seed.go:53-55` says it
  refuses an instance that is not empty), and one that failed half way cannot be run again.
* Of two processes that migrate at once one may fail to start. A request longer than the delay of
  the shutdown dies in the middle (`sortie = "delai"`). Behind the deadlock of the first finding
  `pool.Close` would wait for ever; `Instance` does not model that. `pool.Close` waits for the connections that are
  out, and what still runs then ends with the process: in `Instance` a request holds a connection during its `INSERT` only, which
  is one step, so that `Quitter` finds none to wait for. `ArretFinit` therefore supposes that statements answer.

## 5. Proofs

Every theorem is proved by TLAPS for every value of the constants, from the assumptions
declared with them: finite sets where something is counted, a positive pool, threshold, window
and capacity, a commitment of at least one unit, null values that are no identifiers. Each module
of proofs follows the same line: the type invariant; an inductive invariant with one lemma per
action or group of actions that disturb the same parts; then the properties.

* **`DecisionDevis_proofs`.** `Coherence` is inductive with the type: what a decision has read
  stays true while it waits, an open transaction has written exactly its devis, then also the
  siblings that wait, two transactions never hold one demande. `DemandeTranchee` needs it because the
  devis that is retained and the siblings are written in two statements: only the lock says
  that the set of siblings is the same at `MajSoeurs` and at the commit. `Implemente` maps the commit to
  `Retenir`, the `UPDATE` of a rejection to `Refuser`, everything else to a stutter.
  `BlocageSeul` delimits the finding of `devis_pool`: when nobody can go on, the pool is exhausted, a
  retention that lost its race asks it for a second connection, and whoever holds one is such a
  retention or waits for the demande of one. `PeutAvancer` is the guard of `Etape` written out, since
  ENABLED is out of reach; locks alone block nobody for ever, because a retention that holds its demande and has
  not lost waits for nobody (`RetenueAvance`). `PoolSuffisant` (a cardinality): with more connections than requests
  nobody is blocked.
* **`Planning_proofs`.** `Coherence`, `SansCycle` and `DemarrageLegitime` are inductive together: a
  commit keeps the graph acyclic because `Verifier` looked at it under the lock that is still
  held, and the version read first means that as long as it has not moved, what was read in several queries is the
  row (`LectureOk`). `Vivace` takes a minimal unfinished step of an acyclic graph.
* **`ParcoursGraphe_proofs`.** The grey steps are the trail, the trail is a path, black steps have
  black prerequisites and no cycle among them (`ParcoursOk`); the verdict and the named loop follow,
  for graphs of any size. `EnAvant` proves `ChaquePasAvance`: colours only darken, and every turn
  darkens one, takes one prerequisite out of the loop of a grey step, or returns.
* **`Finance_proofs`.** Lemmas on sums (`SommeAjout`, `CumulInsertion`: one more piece, so much
  more), then `Coherence` (fresh identifiers, exclusion by the lock even if keys collide,
  same version same row) and `CumulSousEngagement`; `RienPerdu` with the invariant `Cibles`.
  `Encadrement` and `Fonde` compare sums of two moments: a step only prolongs the tables
  (`PasProlonge`), so that every total grows (`SommeCroit`, `TotalCroit`, `CumulCroit`). For the summary
  the invariant `Synthese` says what holds between its reads (`LectureOk`): the invoices it has seen are at most
  those of now, and with the down payments of now they make at least what there was at its beginning; a refund
  adds to the indemnities, because there was none before it (`Indemnites`). `Refus` keeps that
  a refusal was about a proposal and still exceeds its commitment.
* **`Acces_proofs`.** `Coherence` is inductive with the type. It says of each request separately
  (`SessionOk`, `ParcoursOk`, `TemoinOk`) that what it holds between two round trips was read
  from the tables since it came in, and of the tokens that each belongs to one account for ever
  (`TitulaireSeul`). A step of one request or command leaves the part of the others alone
  (lemma `Cadre`), so each action is proved on its own request only. `DroitsRecents` and
  `ConnexionFondee` are parts of it: for any number of browsers, tokens and commands that cross.
  `Implemente` proves `PromesseTenue` under `[]Serialises`, no two commands on one account at once: then
  the row a command has read is still the row when it writes (`LueFraiche`), each write is one command of
  `RegistreAcces`, and requests may cross as they like. `ImplementeSeul` discharges the hypothesis when there
  is one command process, which is the case of run `acces_droits`. The properties that the two violation runs refute
  are proved under the hypothesis that excludes what is refuted, and so say where the findings end: a closed account
  stays closed under `Serialises` (`FermeeSerialisee`), a logout is final if no two requests carry one
  session at once (`DeconnexionSeule`). The code guarantees neither hypothesis. The only
  assumptions are that the null account is no account and no password, that the null token is no
  token, and that the commands given are commands that exist.
* **`Limiteur_proofs`.** The type with the relation between counters, ages and attempts, then
  `BlocageFonde`, `CarteBornee` (an insertion into a full map evicts at least one key,
  counted by cardinalities), `EssaisBornes` and `OubliJustifie`. `Borne` is the safety half of `BlocageFini`:
  while a key is blocked no attempt joins those already let through, and only one of these, which then
  is over, starts its window again.
* **`Jetons_proofs`.** `Ensemble` is inductive: the type, and three groups of facts.
  `Formes` says which rows a process may hold or seek at each place. `Coherence` is about
  the locks: no row is held twice (`Exclusion`), a held row has not been deleted (`Tenues`), a pair is
  born with its transaction (`Naissance`, `Prise`), what has a successor is not active
  (`Remplaces`), a consent precedes every row (`Note`); `UnSuccesseur`, `RotationStricte` and
  `Consenti` follow, because the condition of `Retirer` is judged under the lock that the
  transaction keeps until its commit. `Descendance` is for `FamilleTombee`: every pair comes
  from its family's code (`Filiation`, `CodesUses`), a request alone on its family is the only one that
  can touch it (`Seuls`), so that its snapshots miss no row (`Balaye`, `Connu`) and nothing that
  starts later finds an active token or code (`Rejoue`, `Nouvelle`, `Eteinte`). `Irreversible`: a
  row only ages, active to inactive to deleted, which is what the detection of replays rests on.
* **`Instance_proofs`.** `Coherence` is inductive with the type, in four parts, each disturbed by
  few actions: what an upload knows of its piece between two writes, that no other has the same, and that
  rows without contents are in `perdues` or `emportees`
  (`DepotCoherence`); what a process knows of the schema (`SchemaOk`); between which steps the purge
  and the requests live (`PoolOk`); that what there was when a seed began is in a check still to
  come (`AmorceOk`, which needs that nothing is ever deleted from a domain). All five invariants
  of the run follow, for any number of requests, seeds and migrations. `Entiere` and `Confirmee` hold through every death of
  processes and name the two exceptions; `QueLaCoupure` says that only a power cut, on a disk, takes the contents of a
  confirmed piece, and only if they were written since the machine has power: what has survived one cut survives the next. `EnArret` is the safety half of
  `ArretFinit`: a stop goes through its phases in order, accepts nothing, settles once how it ended, and
  waits only for a purge that was started (`PoolOk` says that the port is never open without it).

Some properties are theorems only, as they cost a run more than they say beside the others:
`JamaisBloque` (planning is never stuck), `BoucleNommee` (the cycle that is named is one), `SeulBlocage`,
`SeuleCoupure`, `SansRallonge`, `SansRetour`, `ArretSansRetour`, and the inductive invariants. TLC agreed with
each of them on the instances of the runs before it was proved.

**Only model-checked.** Liveness (`ToutesRepondues`, `FermetureEffective`,
`BlocageFini`, `ArretFinit`) and anything with ENABLED, which the prover does not handle. Every invariant
and every action property of a passing run is a theorem; so is every refinement, that of `Acces` under the
hypothesis above, without which the second finding is a counterexample. For three of the liveness properties the proofs
give the safety facts they rest on (`BlocageSeul`, `Borne`, `EnArret`), and fairness is left to TLC.

## 6. Not modelled

Formatting, templates, translations, export, configuration, logging, middlewares and probes: no
state. Hashing and fosite: libraries, modelled from how the code calls them where it
matters; so is scs, but for its periodic deletion of expired sessions, which a session read
tells from nothing. The MCP server has no state of its own, its tools are the operations of the modules
above. The open registration of OAuth clients is left out: a count and an insert whose race
`oauth_register.go:130-132` says it accepts. In `Instance` a client that hangs up and a signal to a
seed are failures of the calls under way, which may fail anyway. Parsing and bounds of
amounts, normalisation of texts, dates and delays, milestones, the Gantt chart and the
comparison of devis are not modelled yet.

## 7. Plan

Done: devis, planning, finance, accounts and sessions, login limiter, OAuth server, documents with
the processes that write them, in the order of what a mistake would cost the owner. Next:

1. **`Echeancier`**: milestones and dates of the planning as actions of `Planning`, delays and the
   Gantt chart as operators.
2. **Comparison** of devis and **amounts** (parsing, bounds, splits) as operators checked against
   their definition.
3. **Registration of clients** and the composition of `Jetons` with `Acces!Introspecter`.

------------------------------- MODULE Instance -------------------------------
(***************************************************************************)
(* The processes of an instance over one database and one storage: the     *)
(* server from its start to its graceful stop (cmd/avanti/main.go,         *)
(* wiring.go, platform/server, platform/db, platform/migrate), and the     *)
(* commands that seed it (cmd/avanti/seed.go), all on one machine.  Any of *)
(* them may be killed at any moment and started again, or all by a power   *)
(* cut; the uploads of both are those of Depot.                            *)
(***************************************************************************)
EXTENDS Depot, Sequences

CONSTANTS
    Requetes,       \* goroutines of the server that serve an upload
    Amorces,        \* processes "avanti seed demo"
    Serveur,        \* the process "avanti serve"
    Migrations,     \* how many migrations the binary embeds
    Saisies         \* the domains people enter data in while it is served

(* The tables that say that an instance has lived, but for the documents. *)
Domaines == {"demandes", "factures", "acomptes", "etapes", "jalons"}

ASSUME InstanceAssumption ==
    /\ Appelants = Requetes \cup Amorces
    /\ Requetes \cap Amorces = {} /\ Serveur \notin Appelants
    /\ Migrations \in Nat /\ Saisies \subseteq Domaines

VARIABLES
    inst,           \* where each process is
    migre,          \* AVANTI_MIGRATE_ON_START, of all the processes
    schema,         \* table goose_db_version: migrations applied
    donnees,        \* the domains that hold data, but for the documents
    lu,             \* the migrations applied, as it knows them
    rang,           \* where a seed is in its checks or in its writes
    vecu,           \* history: there was data when its checks began
    signal,         \* the server was sent SIGINT or SIGTERM
    purge,          \* what its goroutine that purges the OAuth tokens does
    sortie          \* how Server.Run has returned

processus == <<inst, migre, schema, donnees, lu, rang, vecu, signal, purge, sortie>>
vars == <<depot, processus>>

Hotes == {Serveur} \cup Amorces

(* The calls of Upload that run in a process. *)
Portes(h) == IF h = Serveur THEN Requetes ELSE {h}

Phases == {"eteint", "connecter", "migrer", "monter", "ecoute", "arret", "sortir",
           "verifier", "semer", "deposer", "fermer"}

(* Between db.Open and the deferred pool.Close. *)
PoolOuvert(h) == inst[h] \notin {"eteint", "connecter", "fermer"}

(* A statement about the domains can succeed. *)
Base(h) == PoolOuvert(h) /\ schema = Migrations

Init ==
    /\ DepotInit
    /\ inst = [h \in Hotes |-> "eteint"]
    /\ migre \in BOOLEAN
    /\ schema \in IF migre THEN {0} ELSE 0..Migrations
    /\ donnees = {}
    /\ lu = [h \in Hotes |-> 0]
    /\ rang = [h \in Amorces |-> 1]
    /\ vecu = [h \in Amorces |-> FALSE]
    /\ signal = FALSE /\ purge = "absente" /\ sortie = "aucune"

Passer(h, phase) == inst' = [inst EXCEPT ![h] = phase]

(* What most steps leave alone. *)
amorcage == <<rang, vecu>>
service == <<signal, purge, sortie>>
bases == <<migre, schema, donnees>>

(* Every early return of openInstance, serve and seedDemo: the pool is     *)
(* closed, if there is one, and the command ends.                          *)
Fermer(h) ==
    /\ Passer(h, "fermer")
    /\ lu' = [lu EXCEPT ![h] = 0]
    /\ rang' = [a \in Amorces |-> IF a = h THEN 1 ELSE rang[a]]
    /\ vecu' = [a \in Amorces |-> IF a = h THEN FALSE ELSE vecu[a]]

-----------------------------------------------------------------------------
(* main.  Of the signals only those to the server are kept: the context of *)
(* a seed is that of its calls, each of which may fail anyway.             *)
Lancer(h) ==
    /\ inst[h] = "eteint"
    /\ Passer(h, "connecter")
    /\ UNCHANGED <<depot, bases, lu, amorcage, service>>

(* SIGINT or SIGTERM; a second one is swallowed. *)
Signaler ==
    /\ inst[Serveur] # "eteint" /\ ~signal
    /\ signal' = TRUE
    /\ UNCHANGED <<depot, inst, bases, lu, amorcage, purge, sortie>>

(* What processes leave behind: nothing but their writes. *)
Mourir(morts) ==
    /\ inst' = [h \in Hotes |-> IF h \in morts THEN "eteint" ELSE inst[h]]
    /\ pc' = [p \in Appelants |-> IF \E h \in morts : p \in Portes(h) THEN "attente" ELSE pc[p]]
    /\ piece' = [p \in Appelants |-> IF \E h \in morts : p \in Portes(h) THEN Aucun ELSE piece[p]]
    /\ lu' = [h \in Hotes |-> IF h \in morts THEN 0 ELSE lu[h]]
    /\ rang' = [a \in Amorces |-> IF a \in morts THEN 1 ELSE rang[a]]
    /\ vecu' = [a \in Amorces |-> IF a \in morts THEN FALSE ELSE vecu[a]]
    /\ signal' = (Serveur \notin morts /\ signal)
    /\ purge' = IF Serveur \in morts THEN "absente" ELSE purge
    /\ sortie' = IF Serveur \in morts THEN "aucune" ELSE sortie
    /\ UNCHANGED bases

(* SIGKILL, a panic outside of a handler: the machine goes on, and what    *)
(* the process has written is there.                                       *)
Tuer(h) == inst[h] # "eteint" /\ Mourir({h}) /\ UNCHANGED tables

(* A power cut: every process dies, and the machine forgets what it had    *)
(* not written.                                                            *)
Coupure == Mourir(Hotes) /\ PerdreCache

-----------------------------------------------------------------------------
(* openInstance: db.Open pings until the database answers, its timeout or  *)
(* a signal.  applySchema then does nothing when it is told so; else goose *)
(* reads which migrations are applied, once, without a lock between        *)
(* processes.                                                              *)
Connecter(h) ==
    /\ inst[h] = "connecter"
    /\ \/ /\ h = Serveur => ~signal
          /\ Passer(h, IF migre THEN "migrer" ELSE "monter")
          /\ lu' = [lu EXCEPT ![h] = schema]
          /\ UNCHANGED amorcage
       \/ Fermer(h)
    /\ UNCHANGED <<depot, bases, service>>

(* The next missing migration, in a transaction of its own with the row    *)
(* that records it.                                                        *)
AppliquerUne(h) ==
    /\ lu[h] < Migrations /\ schema = lu[h]
    /\ schema' = schema + 1
    /\ lu' = [lu EXCEPT ![h] = schema + 1]
    /\ UNCHANGED <<inst, amorcage>>

(* Mutation: the error of migrate.Up is logged, as that of closing is. *)
MigrerSansErreur(h) ==
    /\ inst[h] = "migrer"
    /\ \/ AppliquerUne(h)
       \/ Passer(h, "monter") /\ UNCHANGED <<schema, lu, amorcage>>
    /\ UNCHANGED <<depot, migre, donnees, service>>

(* migrate.Up.  A migration that another process has applied since fails   *)
(* (the table exists), and the process does not start.                     *)
Migrer(h) ==
    /\ inst[h] = "migrer"
    /\ \/ AppliquerUne(h)
       \/ lu[h] = Migrations /\ Passer(h, "monter") /\ UNCHANGED <<schema, lu, amorcage>>
       \/ lu[h] < Migrations /\ Fermer(h) /\ UNCHANGED schema
    /\ UNCHANGED <<depot, migre, donnees, service>>

-----------------------------------------------------------------------------
(* serve: the services and the storage that the configuration names; the   *)
(* purge starts, then the port is opened, or not.                          *)
Ecouter ==
    /\ inst[Serveur] = "monter"
    /\ \/ Fermer(Serveur) /\ UNCHANGED service
       \/ /\ purge' = "repos"
          /\ \/ Passer(Serveur, "ecoute") /\ UNCHANGED sortie
             \/ Passer(Serveur, "sortir") /\ sortie' = "panne"
          /\ UNCHANGED <<lu, amorcage, signal>>
    /\ UNCHANGED <<depot, bases>>

(* People enter data of another domain. *)
Saisir ==
    /\ inst[Serveur] = "ecoute" /\ Base(Serveur)
    /\ \E t \in Saisies \ donnees : donnees' = donnees \cup {t}
    /\ UNCHANGED <<depot, inst, migre, schema, lu, amorcage, service>>

(* startOAuthPurge: a pass at each tick. *)
Tic ==
    /\ purge = "repos"
    /\ purge' = "passe"
    /\ UNCHANGED <<depot, inst, bases, lu, amorcage, signal, sortie>>

FinirPasse ==
    /\ purge = "passe"
    /\ purge' = "repos"
    /\ UNCHANGED <<depot, inst, bases, lu, amorcage, signal, sortie>>

Sortir(comment) == Passer(Serveur, "sortir") /\ sortie' = comment

(* Server.Serve: http.Serve fails, before the signal or after it; or the   *)
(* context is cancelled and Shutdown begins: nothing new is accepted.      *)
EcouteTombee ==
    /\ inst[Serveur] \in {"ecoute", "arret"}
    /\ Sortir("panne")
    /\ UNCHANGED <<depot, bases, lu, amorcage, signal, purge>>

Arreter ==
    /\ inst[Serveur] = "ecoute" /\ signal
    /\ Passer(Serveur, "arret")
    /\ UNCHANGED <<depot, bases, lu, amorcage, service>>

EnVol == {p \in Requetes : EnCours(p)}

(* Shutdown returns: no request is left, or its delay is over.             *)
FinirArret ==
    /\ inst[Serveur] = "arret" /\ EnVol = {}
    /\ Sortir("propre")
    /\ UNCHANGED <<depot, bases, lu, amorcage, signal, purge>>

DelaiPasse ==
    /\ inst[Serveur] = "arret" /\ EnVol # {}
    /\ Sortir("delai")
    /\ UNCHANGED <<depot, bases, lu, amorcage, signal, purge>>

(* The deferred calls.  stopPurge cancels a context of its own, whether or *)
(* not a signal has come; the goroutine sees it when its pass is over.     *)
(* Mutation: only the context of the process stops the purge.              *)
FinirPurgeSurSignal ==
    /\ inst[Serveur] = "sortir" /\ signal
    /\ purge = "repos"
    /\ purge' = "finie"
    /\ UNCHANGED <<depot, inst, bases, lu, amorcage, signal, sortie>>

FinirPurge ==
    /\ inst[Serveur] = "sortir" \/ signal
    /\ purge = "repos"
    /\ purge' = "finie"
    /\ UNCHANGED <<depot, inst, bases, lu, amorcage, signal, sortie>>

(* Mutation: the function that startOAuthPurge returns does not wait. *)
ArreterPurgeSansAttendre ==
    /\ inst[Serveur] = "sortir"
    /\ Fermer(Serveur)
    /\ UNCHANGED <<depot, bases, service>>

(* It waits for the goroutine. *)
ArreterPurge ==
    /\ inst[Serveur] = "sortir" /\ purge = "finie"
    /\ Fermer(Serveur)
    /\ UNCHANGED <<depot, bases, service>>

(* pool.Close, then os.Exit: what still runs ends where it is.  Close      *)
(* waits for the connections that are out; an upload holds one during its  *)
(* INSERT only, which is one step here, so that none is out in between.    *)
Quitter(h) == inst[h] = "fermer" /\ Mourir({h}) /\ UNCHANGED tables

-----------------------------------------------------------------------------
(* Mutation: only the first domain is checked. *)
ControlesDevis == <<"demandes">>

(* The checks of a seed, and its writes, in their order. *)
Controles == <<"demandes", "factures", "acomptes", "etapes", "jalons", "documents">>
Ecritures == <<"demandes", "factures", "acomptes", "etapes", "jalons">>

Rempli(t) == IF t = "documents" THEN lignes # {} ELSE t \in donnees

(* seedDemo: the instance is open, and the account must exist. *)
Identifier(h) ==
    /\ inst[h] = "monter"
    /\ \/ /\ Base(h)
          /\ vecu' = [vecu EXCEPT ![h] = donnees # {} \/ lignes # {}]
          /\ Passer(h, "verifier")
          /\ UNCHANGED <<lu, rang>>
       \/ Fermer(h)
    /\ UNCHANGED <<depot, bases, service>>

(* The k-th step of a phase is done: the next one, or the next phase. *)
Avancer(h, derniere, suivante) ==
    /\ IF rang[h] < derniere
       THEN rang' = [rang EXCEPT ![h] = @ + 1] /\ UNCHANGED inst
       ELSE rang' = [rang EXCEPT ![h] = 1] /\ Passer(h, suivante)
    /\ UNCHANGED <<lu, vecu>>

(* checkEmptyInstance: one read after another. *)
Verifier(h) ==
    /\ inst[h] = "verifier"
    /\ \/ ~Rempli(Controles[rang[h]]) /\ Avancer(h, Len(Controles), "semer")
       \/ Fermer(h)
    /\ UNCHANGED <<depot, bases, service>>

(* buildDemoData, domain by domain; an error stops it, and what is written *)
(* stays.                                                                  *)
Semer(h) ==
    LET semees == donnees \cup {Ecritures[rang[h]]}
    IN /\ inst[h] = "semer"
       /\ \/ donnees' = semees /\ Avancer(h, Len(Ecritures), "deposer")
          \/ donnees' \in {donnees, semees} /\ Fermer(h)
       /\ UNCHANGED <<depot, migre, schema, service>>

(* Its two pieces, through the service of the documents; the seed goes on  *)
(* when Upload returns.                                                    *)
Suite(h, reussi) ==
    /\ IF reussi /\ rang[h] = 1 THEN Avancer(h, 2, "fermer") ELSE Fermer(h)
    /\ UNCHANGED <<bases, service>>

Deposer(h) ==
    /\ inst[h] = "deposer"
    /\ Controler(h) \/ EtapeDepot(h, Base(h))
    /\ IF pc'[h] # "attente" THEN UNCHANGED processus ELSE Suite(h, confirmees' # confirmees)

-----------------------------------------------------------------------------
(* A request that uploads.  Its context is that of its connection: neither *)
(* a signal nor the end of Shutdown cancels it.                            *)
RecevoirDepot(p) == inst[Serveur] = "ecoute" /\ Controler(p) /\ UNCHANGED processus

Servir(p) == EtapeDepot(p, Base(Serveur)) /\ UNCHANGED processus

Next ==
    \/ \E h \in Hotes :
          \/ Lancer(h) \/ Tuer(h) \/ Connecter(h) \/ Migrer(h) \/ Quitter(h)
    \/ Coupure
    \/ Signaler \/ Ecouter \/ Saisir \/ EcouteTombee \/ Arreter \/ FinirArret \/ DelaiPasse
    \/ Tic \/ FinirPasse \/ FinirPurge \/ ArreterPurge
    \/ \E p \in Requetes : RecevoirDepot(p) \/ Servir(p)
    \/ \E h \in Amorces :
          Identifier(h) \/ Verifier(h) \/ Semer(h) \/ Deposer(h)

Spec == Init /\ [][Next]_vars

(* Nobody has to start, stop or kill a process, nor to send a request.  A  *)
(* goroutine that can run does; the delay of Shutdown passes; a ticker is  *)
(* an hour long and a select with two ready cases picks one at random, so  *)
(* that a purge at rest sees that it is told to stop.                      *)
Fairness ==
    /\ WF_vars(Arreter) /\ WF_vars(FinirArret \/ DelaiPasse)
    /\ WF_vars(FinirPasse) /\ SF_vars(FinirPurge) /\ WF_vars(ArreterPurge)
    /\ WF_vars(Quitter(Serveur))

FairSpec == Spec /\ Fairness

-----------------------------------------------------------------------------
TypeOK ==
    /\ DepotTypeOK
    /\ inst \in [Hotes -> Phases]
    /\ migre \in BOOLEAN
    /\ schema \in 0..Migrations
    /\ donnees \subseteq Domaines
    /\ lu \in [Hotes -> 0..Migrations]
    /\ rang \in [Amorces -> 1..6]
    /\ vecu \in [Amorces -> BOOLEAN]
    /\ signal \in BOOLEAN
    /\ purge \in {"absente", "repos", "passe", "finie"}
    /\ sortie \in {"aucune", "propre", "delai", "panne"}

(* No process that applies migrations serves or seeds on a schema that is  *)
(* not complete, whoever migrates at the same time, however far another    *)
(* process that failed or was killed had gone.                             *)
SchemaAJour ==
    \A h \in Hotes :
        migre /\ inst[h] \in {"monter", "ecoute", "arret", "verifier", "semer", "deposer"} =>
            schema = Migrations

(* When the pool is closed the purge is not in the middle of a pass        *)
(* ("le processus pourrait fermer son pool de connexions pendant qu'une    *)
(* passe tourne encore"), nor is a request, if Shutdown said they were     *)
(* over.                                                                   *)
PoolTenu ==
    inst[Serveur] = "fermer" =>
        /\ purge # "passe"
        /\ sortie = "propre" => EnVol = {}

(* A server told to stop, or whose listening has failed, ends: neither a   *)
(* request that never does, nor the purge, keeps it.                       *)
ArretFinit ==
    inst[Serveur] \in {"arret", "sortir", "fermer"} ~> inst[Serveur] = "eteint"

(* A stop only goes forward: nothing is accepted any more, the phases come *)
(* in the order of Serve and of the deferred calls, how the server stopped *)
(* is settled once, and who waits for the purge waits for a goroutine that *)
(* was started and, once over, does not start again.                       *)
ArretSansRetour ==
    [][ LET avant == inst[Serveur]
            apres == inst'[Serveur]
        IN avant \in {"arret", "sortir", "fermer"} /\ apres # "eteint" =>
              /\ apres \in IF avant = "arret" THEN {"arret", "sortir"}
                           ELSE IF avant = "sortir" THEN {"sortir", "fermer"} ELSE {"fermer"}
              /\ EnVol' \subseteq EnVol
              /\ avant # "arret" => sortie' = sortie
              /\ avant = "sortir" => purge' # "absente"
              /\ purge = "finie" => purge' = "finie"
      ]_vars

(* The contents of a confirmed piece are only ever taken by the end of the *)
(* machine, from a disk, and if they were written since it has power: what *)
(* has survived one power cut survives the next.                           *)
SeuleCoupure ==
    [][ \A d \in confirmees : Ouvrir(d) /\ ~Ouvrir(d)' =>
           /\ stockage = "filesystem" /\ d \in enCache
           /\ \A h \in Hotes : inst'[h] = "eteint"
      ]_vars

(* A seed writes nothing if there was data of any domain when its checks   *)
(* began: an instance that has lived, or that another seed has half filled *)
(* and left.  (What comes while it checks, it may miss.)                   *)
AmorceSurVide ==
    \A h \in Amorces : inst[h] \in {"semer", "deposer"} => ~vecu[h]

-----------------------------------------------------------------------------
(* What holds between the steps of the processes: an inductive invariant,  *)
(* in parts.                                                               *)

(* A process that migrates has seen no migration that is not there, and    *)
(* goes on when it has seen them all.                                      *)
SchemaOk ==
    /\ SchemaAJour
    /\ \A h \in Hotes : inst[h] = "migrer" => lu[h] <= schema

(* The purge and the requests live between Ecouter and the deferred calls. *)
PoolOk ==
    /\ inst[Serveur] \in {"eteint", "connecter", "migrer", "monter"} =>
          purge = "absente" /\ EnVol = {}
    /\ inst[Serveur] \in {"ecoute", "arret", "sortir"} => purge # "absente"
    /\ inst[Serveur] \notin {"sortir", "fermer"} => sortie = "aucune"
    /\ inst[Serveur] = "fermer" => purge \in {"absente", "finie"}
    /\ sortie = "propre" => EnVol = {}

(* What there was when a seed began its checks is in one that is to come.  *)
AmorceOk ==
    \A h \in Amorces :
        /\ inst[h] \notin {"verifier", "semer", "deposer"} => rang[h] = 1
        /\ inst[h] = "verifier" /\ vecu[h] =>
              \E i \in rang[h]..6 : Rempli(Controles[i])
        /\ inst[h] = "semer" => rang[h] \in 1..5
        /\ inst[h] = "deposer" => rang[h] \in 1..2
        /\ inst[h] \in {"semer", "deposer"} => ~vecu[h]

Coherence == DepotCoherence /\ SchemaOk /\ PoolOk /\ AmorceOk
=============================================================================

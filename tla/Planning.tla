------------------------------ MODULE Planning ------------------------------
(***************************************************************************)
(* The planning component as it runs: Service (internal/planning/          *)
(* service.go) over PlanningRepo (internal/adapters/postgres/planning.go)  *)
(* over migration 00010, called by the web forms and by the MCP tools.     *)
(*                                                                         *)
(* A request is a process that advances one database round trip at a time, *)
(* from the page the person reads to the answer to the form.  PostgreSQL   *)
(* runs in READ COMMITTED: a read sees committed rows only.  Writers meet  *)
(* on one advisory lock, held to the end of the transaction; readers take  *)
(* no lock.                                                                *)
(*                                                                         *)
(* Column modifie_le is the version the optimistic guard compares.  It is  *)
(* a date; the model counts writes instead, which is the same as long as   *)
(* the clock moves between the read of a row and the next write of it.     *)
(***************************************************************************)
EXTENDS Integers, GrapheEtapes

CONSTANTS
    Requetes,    \* requests in flight, one goroutine each
    Etapes       \* identifiers of the steps of the works

VARIABLES
    avance,      \* debut_reel and fin_reelle of each row, as Etape.Statut
    prerequis,   \* table etape_dependances
    version,     \* column modifie_le
    op,          \* what each request asks
    cible,       \* the step it is about
    soumis,      \* the prerequisites its form carries
    attendue,    \* the version its form carries (Expected)
    vus,         \* the prerequisites the page showed
    lue,         \* the step as the service has read it
    connues,     \* the steps the service has listed
    pc,          \* where it is
    reponse      \* what the caller was told

tables == <<avance, prerequis, version>>
locales == <<op, cible, soumis, attendue, vus, lue, connues>>
vars == <<tables, locales, pc, reponse>>

Operations == {"creer", "modifier", "demarrer", "terminer"}
Statuts == {"absente", "prevue", "en_cours", "terminee"}
Reponses == {"aucune", "ok", "abandon", "conflit", "inconnue", "bloquee", "cycle",
             "prerequis_inconnu", "prerequis_figes", "deja_demarree",
             "non_demarree", "deja_terminee"}

(* Mutation: no deferred Rollback, an early return keeps the lock.         *)
EtapesVerrouFuite == {"relire_prealables", "ecrire", "verifier", "valider", "fini"}

(* Between pg_advisory_xact_lock and the end of the transaction. *)
EtapesVerrou == {"relire_prealables", "ecrire", "verifier", "valider"}

Pas == EtapesVerrou \cup
    {"charger", "charger_prerequis", "lire", "lire_prerequis", "lire_prealables",
     "lister", "lister_prerequis", "verrouiller", "fini"}

Existantes == {e \in Etapes : avance[e] # "absente"}

(* Mutation: the lock is taken outside of the transaction, and released at *)
(* once.                                                                   *)
VerrouEphemere == TRUE

VerrouLibre == \A p \in Requetes : pc[p] \notin EtapesVerrou

(* Another transaction has updated this row and not ended yet. *)
LigneLibre(p) ==
    \A r \in Requetes \ {p} :
        cible[r] = cible[p] => ~(pc[r] \in {"verifier", "valider"} /\ op[r] # "creer")

-----------------------------------------------------------------------------
(* The first round trip: of Service.CreateEtape, or of the page that shows *)
(* the form.                                                               *)
Premiere(o, deps) ==
    IF o # "creer" THEN "charger"
    ELSE IF deps # {} THEN "lister" ELSE "verrouiller"

(* What the forms hand over to the service: the use case, the step it is   *)
(* about and, to create or to edit it, its prerequisites.                  *)
Saisies ==
    /\ op \in [Requetes -> Operations]
    /\ cible \in [Requetes -> Etapes]
    /\ soumis \in [Requetes -> SUBSET Etapes]
    /\ \A p \in Requetes : op[p] \in {"demarrer", "terminer"} => soumis[p] = {}

(* normalizeDependsOn refuses a step that depends on itself.               *)
Normalisees == \A p \in Requetes : cible[p] \notin soumis[p]

(* Service.buildEtape draws the identifier of the step it creates.         *)
IdentifiantsTires ==
    \A p \in Requetes : op[p] = "creer" =>
        /\ avance[cible[p]] = "absente"
        /\ \A r \in Requetes \ {p} : op[r] = "creer" => cible[r] # cible[p]

(* The tables hold what earlier requests left there. *)
Init ==
    /\ avance \in [Etapes -> Statuts]
    /\ prerequis \in [Etapes -> SUBSET Etapes]
    /\ \A e \in Etapes :
          /\ prerequis[e] \subseteq Existantes \ {e}
          /\ avance[e] = "absente" => prerequis[e] = {}
          /\ avance[e] \in {"en_cours", "terminee"} =>
                \A f \in prerequis[e] : avance[f] = "terminee"
    /\ Acyclique(prerequis, Existantes)
    /\ version = [e \in Etapes |-> 0]
    /\ Saisies
    /\ Normalisees
    /\ IdentifiantsTires
    /\ attendue = [p \in Requetes |-> 0]
    /\ vus = [p \in Requetes |-> {}]
    /\ lue = [p \in Requetes |-> [avance |-> "absente", prerequis |-> {}]]
    /\ connues = [p \in Requetes |-> {}]
    /\ pc = [p \in Requetes |-> Premiere(op[p], soumis[p])]
    /\ reponse = [p \in Requetes |-> "aucune"]

Aller(p, etape) ==
    /\ pc' = [pc EXCEPT ![p] = etape]
    /\ UNCHANGED reponse

(* The handler returns; the deferred Rollback ends an open transaction. *)
Repondre(p, r) ==
    /\ pc' = [pc EXCEPT ![p] = "fini"]
    /\ reponse' = [reponse EXCEPT ![p] = r]

(* The graph of the steps S in which the target of p has prerequisites     *)
(* deps; CheckAcyclic ignores a prerequisite that is none of them.         *)
Graphe(p, S, deps) ==
    [e \in Etapes |->
        (IF e = cible[p] THEN deps ELSE prerequis[e]) \cap (S \cup {cible[p]})]

Sain(p, S, deps) == Acyclique(Graphe(p, S, deps), S \cup {cible[p]})

(* Service.checkDependencies and checkEtapeGraph. *)
Juger(p, S, deps, suite) ==
    \/ ~(deps \subseteq S \ {cible[p]}) /\ Repondre(p, "prerequis_inconnu")
    \/ deps \subseteq S \ {cible[p]} /\ ~Sain(p, S, deps) /\ Repondre(p, "cycle")
    \/ deps \subseteq S \ {cible[p]} /\ Sain(p, S, deps) /\ Aller(p, suite)

-----------------------------------------------------------------------------
(* The page: EtapeByID reads the row, hence modifie_le, ... *)
Charger(p) ==
    /\ pc[p] = "charger"
    /\ \/ /\ avance[cible[p]] = "absente"
          /\ Repondre(p, "inconnue")
          /\ UNCHANGED attendue
       \/ /\ avance[cible[p]] # "absente"
          /\ attendue' = [attendue EXCEPT ![p] = version[cible[p]]]
          /\ Aller(p, "charger_prerequis")
    /\ UNCHANGED <<tables, op, cible, soumis, vus, lue, connues>>

(* ... then its prerequisites in a second query. *)
ChargerPrerequis(p) ==
    /\ pc[p] = "charger_prerequis"
    /\ vus' = [vus EXCEPT ![p] = prerequis[cible[p]]]
    /\ Aller(p, "lire")
    /\ UNCHANGED <<tables, op, cible, soumis, attendue, lue, connues>>

(* Service.guardedEtape reads the row again and compares the versions.  No *)
(* statement of the program deletes a row of etapes.                       *)
Lire(p) ==
    /\ pc[p] = "lire"
    /\ \/ version[cible[p]] # attendue[p] /\ Repondre(p, "conflit")
       \/ version[cible[p]] = attendue[p] /\ Aller(p, "lire_prerequis")
    /\ lue' = [lue EXCEPT ![p] = [avance |-> avance[cible[p]], prerequis |-> {}]]
    /\ UNCHANGED <<tables, op, cible, soumis, attendue, vus, connues>>

(* Mutation: applyEtapeUpdate without ErrDependenciesLocked. *)
LirePrerequisSansGel(p) ==
    /\ pc[p] = "lire_prerequis"
    /\ LET deps == prerequis[cible[p]]
           statut == lue[p].avance
       IN /\ lue' = [lue EXCEPT ![p] = [avance |-> statut, prerequis |-> deps]]
          /\ \/ /\ op[p] = "modifier"
                /\ Aller(p, IF soumis[p] \in {{}, deps} THEN "verrouiller" ELSE "lister")
             \/ op[p] = "demarrer" /\ Aller(p, "lire_prealables")
             \/ op[p] = "terminer" /\ statut = "prevue" /\ Repondre(p, "non_demarree")
             \/ op[p] = "terminer" /\ statut = "terminee" /\ Repondre(p, "deja_terminee")
             \/ op[p] = "terminer" /\ statut = "en_cours" /\ Aller(p, "verrouiller")
    /\ UNCHANGED <<tables, op, cible, soumis, attendue, vus, connues>>

(* The second query of EtapeByID, and what each use case then checks of    *)
(* the step it has read: applyEtapeUpdate, Etape.Finish.                   *)
LirePrerequis(p) ==
    /\ pc[p] = "lire_prerequis"
    /\ LET deps == prerequis[cible[p]]
           statut == lue[p].avance
       IN /\ lue' = [lue EXCEPT ![p] = [avance |-> statut, prerequis |-> deps]]
          /\ \/ /\ op[p] = "modifier" /\ statut # "prevue" /\ soumis[p] # deps
                /\ Repondre(p, "prerequis_figes")
             \/ /\ op[p] = "modifier" /\ (statut = "prevue" \/ soumis[p] = deps)
                /\ Aller(p, IF soumis[p] \in {{}, deps} THEN "verrouiller" ELSE "lister")
             \/ op[p] = "demarrer" /\ Aller(p, "lire_prealables")
             \/ op[p] = "terminer" /\ statut = "prevue" /\ Repondre(p, "non_demarree")
             \/ op[p] = "terminer" /\ statut = "terminee" /\ Repondre(p, "deja_terminee")
             \/ op[p] = "terminer" /\ statut = "en_cours" /\ Aller(p, "verrouiller")
    /\ UNCHANGED <<tables, op, cible, soumis, attendue, vus, connues>>

(* Service.checkPrerequisitesDone, then Etape.Start.  The code reads the   *)
(* prerequisites one by one; a finished step stays finished, so the answer *)
(* is the one of a single read at some moment in between.                  *)
LirePrealables(p) ==
    /\ pc[p] = "lire_prealables"
    /\ LET prets == \A f \in lue[p].prerequis : avance[f] = "terminee"
       IN \/ ~prets /\ Repondre(p, "bloquee")
          \/ prets /\ lue[p].avance # "prevue" /\ Repondre(p, "deja_demarree")
          \/ prets /\ lue[p].avance = "prevue" /\ Aller(p, "verrouiller")
    /\ UNCHANGED <<tables, locales>>

(* ListEtapes: the rows, ... *)
Lister(p) ==
    /\ pc[p] = "lister"
    /\ connues' = [connues EXCEPT ![p] = Existantes]
    /\ Aller(p, "lister_prerequis")
    /\ UNCHANGED <<tables, op, cible, soumis, attendue, vus, lue>>

(* ... then all their prerequisites, and the early refusal of              *)
(* Service.checkDependencies.                                              *)
ListerPrerequis(p) ==
    /\ pc[p] = "lister_prerequis"
    /\ Juger(p, connues[p], soumis[p], "verrouiller")
    /\ UNCHANGED <<tables, locales>>

-----------------------------------------------------------------------------
(* Mutation: UpdateEtape rebuilds the row from the form, without the dates *)
(* ActualStart and ActualEnd it has read.                                  *)
StatutEcritDuFormulaire(p) ==
    CASE op[p] \in {"creer", "modifier"} -> "prevue"
      [] op[p] = "demarrer" -> "en_cours"
      [] op[p] = "terminer" -> "terminee"

(* What the transaction writes: the whole row as the service has built it  *)
(* from what it read, and the prerequisites wiped and inserted again.      *)
(* StartEtape leaves etape_dependances alone.                              *)
StatutEcrit(p) ==
    CASE op[p] = "creer" -> "prevue"
      [] op[p] = "modifier" -> lue[p].avance
      [] op[p] = "demarrer" -> "en_cours"
      [] op[p] = "terminer" -> "terminee"

(* Mutation: a transition wipes the prerequisites and inserts those of a   *)
(* form that carries none.                                                 *)
PrerequisEcritsDuFormulaire(p) ==
    IF op[p] = "demarrer" THEN prerequis[cible[p]] ELSE soumis[p]

PrerequisEcrits(p) ==
    CASE op[p] \in {"creer", "modifier"} -> soumis[p]
      [] op[p] = "demarrer" -> prerequis[cible[p]]
      [] op[p] = "terminer" -> lue[p].prerequis

(* acquirePlanningLock, first statement of every transaction that writes. *)
Verrouiller(p) ==
    /\ pc[p] = "verrouiller"
    /\ VerrouLibre
    /\ Aller(p, CASE op[p] = "creer" -> "verifier"
                  [] op[p] = "demarrer" -> "relire_prealables"
                  [] OTHER -> "ecrire")
    /\ UNCHANGED <<tables, locales>>

(* PlanningRepo.StartEtape, query "pending". *)
RelirePrealables(p) ==
    /\ pc[p] = "relire_prealables"
    /\ \/ /\ \A f \in prerequis[cible[p]] : avance[f] = "terminee"
          /\ Aller(p, "ecrire")
       \/ /\ \E f \in prerequis[cible[p]] : avance[f] # "terminee"
          /\ Repondre(p, "bloquee")
    /\ UNCHANGED <<tables, locales>>

(* Mutation: UPDATE ... WHERE id = $1, without the optimistic guard. *)
EcrireSansGarde(p) ==
    /\ pc[p] = "ecrire"
    /\ LigneLibre(p)
    /\ Aller(p, IF op[p] = "demarrer" THEN "valider" ELSE "verifier")
    /\ UNCHANGED <<tables, locales>>

(* writeEtapeLocked: UPDATE ... WHERE modifie_le = expected; with no row   *)
(* touched, explainMissedEtapeUpdate reads in the same transaction.  In    *)
(* UpdateEtape the prerequisites are rewritten by the next two statements. *)
Ecrire(p) ==
    /\ pc[p] = "ecrire"
    /\ LigneLibre(p)
    /\ \/ /\ version[cible[p]] = attendue[p]
          /\ Aller(p, IF op[p] = "demarrer" THEN "valider" ELSE "verifier")
       \/ /\ version[cible[p]] # attendue[p]
          /\ Repondre(p, "conflit")
    /\ UNCHANGED <<tables, locales>>

(* checkEtapeGraph, replayed on what the transaction sees: the committed   *)
(* rows and its own.                                                       *)
Verifier(p) ==
    /\ pc[p] = "verifier"
    /\ Juger(p, Existantes, PrerequisEcrits(p), "valider")
    /\ UNCHANGED <<tables, locales>>

(* Mutation: the error of COMMIT is ignored. *)
ValiderSansErreur(p) ==
    /\ pc[p] = "valider"
    /\ \/ /\ avance' = [avance EXCEPT ![cible[p]] = StatutEcrit(p)]
          /\ prerequis' = [prerequis EXCEPT ![cible[p]] = PrerequisEcrits(p)]
          /\ version' = [version EXCEPT ![cible[p]] = @ + 1]
       \/ UNCHANGED tables
    /\ Repondre(p, "ok")
    /\ UNCHANGED locales

(* COMMIT; its answer may be lost ("abandon"). *)
Valider(p) ==
    /\ pc[p] = "valider"
    /\ avance' = [avance EXCEPT ![cible[p]] = StatutEcrit(p)]
    /\ prerequis' = [prerequis EXCEPT ![cible[p]] = PrerequisEcrits(p)]
    /\ version' = [version EXCEPT ![cible[p]] = @ + 1]
    /\ \E r \in {"ok", "abandon"} : Repondre(p, r)
    /\ UNCHANGED locales

(* The client hangs up, a query fails or the process dies. *)
Abandonner(p) ==
    /\ pc[p] # "fini"
    /\ Repondre(p, "abandon")
    /\ UNCHANGED <<tables, locales>>

Etape(p) ==
    \/ Charger(p)
    \/ ChargerPrerequis(p)
    \/ Lire(p)
    \/ LirePrerequis(p)
    \/ LirePrealables(p)
    \/ Lister(p)
    \/ ListerPrerequis(p)
    \/ Verrouiller(p)
    \/ RelirePrealables(p)
    \/ Ecrire(p)
    \/ Verifier(p)
    \/ Valider(p)

(* Every request has been answered: the instance waits for the next ones. *)
Repos ==
    /\ \A p \in Requetes : pc[p] = "fini"
    /\ UNCHANGED vars

Next ==
    \/ \E p \in Requetes : Etape(p) \/ Abandonner(p)
    \/ Repos

Spec == Init /\ [][Next]_vars

(* The Go scheduler and PostgreSQL let every request that can advance      *)
(* advance; the person behind a page does submit it.                       *)
FairSpec == Spec /\ \A p \in Requetes : WF_vars(Etape(p))

-----------------------------------------------------------------------------
TypeOK ==
    /\ avance \in [Etapes -> Statuts]
    /\ prerequis \in [Etapes -> SUBSET Etapes]
    /\ version \in [Etapes -> Nat]
    /\ op \in [Requetes -> Operations]
    /\ cible \in [Requetes -> Etapes]
    /\ soumis \in [Requetes -> SUBSET Etapes]
    /\ attendue \in [Requetes -> Nat]
    /\ vus \in [Requetes -> SUBSET Etapes]
    /\ lue \in [Requetes -> [avance : Statuts, prerequis : SUBSET Etapes]]
    /\ connues \in [Requetes -> SUBSET Etapes]
    /\ pc \in [Requetes -> Pas]
    /\ reponse \in [Requetes -> Reponses]

(* The prerequisites never form a cycle, whatever is edited at the same    *)
(* time: two edits, each innocent on what it has read, would close one     *)
(* together (contract of planning.Repository).                             *)
SansCycle == Acyclique(prerequis, Existantes)

(* The central rule of the domain: what has started had all its            *)
(* prerequisites, as they are now, finished.                               *)
DemarrageLegitime ==
    \A e \in Etapes : avance[e] \in {"en_cours", "terminee"} =>
        \A f \in prerequis[e] : avance[f] = "terminee"

(* The works can go on: as long as one step is not finished, some step is  *)
(* under way or can be started.                                            *)
JamaisBloque ==
    (\E e \in Existantes : avance[e] # "terminee") =>
        \E e \in Existantes :
            \/ avance[e] = "en_cours"
            \/ avance[e] = "prevue" /\ \A f \in prerequis[e] : avance[f] = "terminee"

(* No lost update: an edit about to be committed replaces exactly the      *)
(* prerequisites its page showed, although the page, the service and the   *)
(* transaction read the row and its prerequisites in separate queries.     *)
RienEcraseSansLeVoir ==
    \A p \in Requetes : pc[p] = "valider" /\ op[p] # "creer" =>
        /\ prerequis[cible[p]] = vus[p]
        /\ prerequis[cible[p]] = lue[p].prerequis
        /\ avance[cible[p]] = lue[p].avance

(* A refusal is never a false alarm: whoever is told that somebody else    *)
(* was faster, or that the step has started, was indeed overtaken, and     *)
(* "ok" is only said of what is there.                                     *)
ReponseVraie ==
    \A p \in Requetes :
        /\ reponse[p] = "conflit" => version[cible[p]] > attendue[p]
        /\ reponse[p] \in {"prerequis_figes", "deja_demarree"} =>
              avance[cible[p]] \in {"en_cours", "terminee"}
        /\ reponse[p] = "deja_terminee" => avance[cible[p]] = "terminee"
        /\ reponse[p] = "ok" =>
              /\ version[cible[p]] > attendue[p]
              /\ op[p] = "demarrer" => avance[cible[p]] \in {"en_cours", "terminee"}
              /\ op[p] = "terminer" => avance[cible[p]] = "terminee"

-----------------------------------------------------------------------------
(* What holds between the steps of the requests: an inductive invariant,   *)
(* in parts.                                                               *)

EtapesPage == {"charger", "charger_prerequis", "lire", "lire_prerequis"}
EtapesDecidees == EtapesVerrou \cup {"lister", "lister_prerequis", "verrouiller"}

(* Foreign keys and CHECK of table etape_dependances. *)
ReferencesOk ==
    \A e \in Etapes :
        /\ prerequis[e] \subseteq Existantes \ {e}
        /\ avance[e] = "absente" => prerequis[e] = {}

(* The advisory lock: one transaction at a time. *)
VerrouExclusif ==
    \A p, r \in Requetes : pc[p] \in EtapesVerrou /\ pc[r] \in EtapesVerrou => p = r

(* A request only goes through the steps of its own operation. *)
ParcoursOk(p) ==
    /\ pc[p] \in EtapesPage \cup {"ecrire"} => op[p] # "creer"
    /\ pc[p] \in {"lire_prealables", "relire_prealables"} => op[p] = "demarrer"
    /\ pc[p] \in {"lister", "lister_prerequis"} => op[p] \in {"creer", "modifier"}
    /\ pc[p] = "verifier" => op[p] # "demarrer"
    /\ pc[p] # "fini" <=> reponse[p] = "aucune"

(* The identifier a request brings is its own until it is inserted. *)
IdentifiantNeuf(p) ==
    op[p] = "creer" =>
        /\ pc[p] # "fini" => avance[cible[p]] = "absente"
        /\ \A r \in Requetes \ {p} : op[r] = "creer" => cible[r] # cible[p]

(* A status read is never ahead of the row. *)
Devance(lu, actuel) ==
    /\ lu # "absente"
    /\ lu = "en_cours" => actuel \in {"en_cours", "terminee"}
    /\ lu = "terminee" => actuel = "terminee"

(* While the version has not moved, what was read in several queries is    *)
(* the row: the row, hence the version, is always read first.              *)
LectureOk(p) ==
    /\ attendue[p] <= version[cible[p]]
    /\ (op[p] # "creer" /\ pc[p] \notin {"charger", "fini"}) =>
          /\ avance[cible[p]] # "absente"
          /\ pc[p] \notin {"charger_prerequis", "lire"} => Devance(lue[p].avance, avance[cible[p]])
          /\ version[cible[p]] = attendue[p] =>
                /\ pc[p] # "charger_prerequis" => vus[p] = prerequis[cible[p]]
                /\ pc[p] \notin {"charger_prerequis", "lire"} =>
                      lue[p].avance = avance[cible[p]]
                /\ pc[p] \notin {"charger_prerequis", "lire", "lire_prerequis"} =>
                      lue[p].prerequis = prerequis[cible[p]]

(* What the service has decided to write is allowed by what it has read. *)
DecisionOk(p) ==
    pc[p] \in EtapesDecidees =>
        /\ op[p] = "modifier" => lue[p].avance = "prevue" \/ soumis[p] = lue[p].prerequis
        /\ op[p] = "terminer" => lue[p].avance = "en_cours"
        /\ op[p] = "demarrer" => lue[p].avance = "prevue"

(* What a transaction has checked under the lock still holds. *)
TransactionOk(p) ==
    /\ (pc[p] \in {"verifier", "valider"} /\ op[p] # "creer") =>
          version[cible[p]] = attendue[p]
    /\ (pc[p] \in {"ecrire", "valider"} /\ op[p] = "demarrer") =>
          \A f \in prerequis[cible[p]] : avance[f] = "terminee"
    /\ (pc[p] = "valider" /\ op[p] # "demarrer") =>
          /\ PrerequisEcrits(p) \subseteq Existantes \ {cible[p]}
          /\ Sain(p, Existantes, PrerequisEcrits(p))

(* The lock and the versions do their work: everything a request relies on *)
(* between two of its round trips is protected from all the others.        *)
Coherence ==
    /\ ReferencesOk
    /\ VerrouExclusif
    /\ \A p \in Requetes :
          /\ ParcoursOk(p)
          /\ IdentifiantNeuf(p)
          /\ LectureOk(p)
          /\ DecisionOk(p)
          /\ TransactionOk(p)

-----------------------------------------------------------------------------
(* The works only go forward: no step goes back or skips its start, the    *)
(* prerequisites of a started step never change, a changed row changes     *)
(* its version.                                                            *)
Avancement ==
    [][\A e \in Etapes :
          /\ <<avance[e], avance'[e]>> \in {<<s, s>> : s \in Statuts} \cup
                {<<"absente", "prevue">>, <<"prevue", "en_cours">>, <<"en_cours", "terminee">>}
          /\ avance[e] \in {"en_cours", "terminee"} => prerequis'[e] = prerequis[e]
          /\ version'[e] = version[e] =>
                avance'[e] = avance[e] /\ prerequis'[e] = prerequis[e]]_tables

(* Seen from the tables alone, every step is one whole use case. *)
Promesse == INSTANCE Chantier
PromesseTenue == Promesse!Spec

(* Every request is answered. *)
ToutesRepondues == \A p \in Requetes : <>(pc[p] = "fini")
=============================================================================

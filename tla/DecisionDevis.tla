--------------------------- MODULE DecisionDevis ---------------------------
(***************************************************************************)
(* The devis component as it runs: Service (internal/devis/service.go)     *)
(* over DevisRepo (internal/adapters/postgres/devis.go) over the tables,   *)
(* the partial unique index and the trigger of migrations 00006 and 00007. *)
(*                                                                         *)
(* A request is a process that advances one database round trip at a time. *)
(* PostgreSQL runs in READ COMMITTED: a read sees committed rows only, an  *)
(* UPDATE waits for the writer of its row and then looks at the row again. *)
(* Row locks and pool connections are not stored, they are functions of    *)
(* where each request is.  A request that only reads borrows a connection  *)
(* for the time of its query, which waits on nobody: one step, possible    *)
(* whenever a connection is free.                                          *)
(***************************************************************************)
EXTENDS Integers, FiniteSets

CONSTANTS
    Requetes,    \* requests in flight, one goroutine each
    Demandes,
    Devis,
    demandeDe,   \* column devis.demande_id
    Personne,    \* NULL in column devis.decide_par
    PoolMax      \* size of the pgx pool (pool_max_conns)

ASSUME DevisAssumption ==
    /\ demandeDe \in [Devis -> Demandes]
    /\ Personne \notin Requetes
    /\ PoolMax \in Nat \ {0}

VARIABLES
    demandes,    \* committed rows of demandes_devis
    statut,      \* committed column devis.statut, "absent": no such row
    decidePar,   \* committed columns decide_par, decide_le: which request decided
    op,          \* what each request asks
    cible,       \* the devis each request is about
    pc,          \* where each request is
    ecrit,       \* rows its open transaction has written and locked
    reponse      \* what the caller was told

tables == <<demandes, statut, decidePar>>
vars == <<demandes, statut, decidePar, op, cible, pc, ecrit, reponse>>

Operations == {"enregistrer", "retenir", "refuser"}
Statuts == {"absent", "recu", "retenu", "refuse"}
Reponses == {"aucune", "ok", "abandon", "demande_inconnue", "devis_inconnu",
             "deja_tranche", "demande_close"}

-----------------------------------------------------------------------------
(* Locks and connections, read off the program counters. *)

(* Mutation: no deferred Rollback, a request that returns early keeps its  *)
(* transaction open.                                                       *)
EtapesVerrouFuite == {"maj_retenu", "maj_soeurs", "valider", "expliquer_tx", "termine"}

(* Between SELECT ... FOR UPDATE OF dd and the end of its transaction, a   *)
(* retention holds the row of its demande.                                 *)
EtapesVerrou == {"maj_retenu", "maj_soeurs", "valider", "expliquer_tx"}

(* A transaction, or a statement that may have to wait, keeps a connection *)
(* out of the pool.                                                        *)
EtapesConnexion == EtapesVerrou \cup {"inserer_tx", "verrouiller", "maj_refus_tx"}

Etapes == EtapesConnexion \cup
    {"lire_demande", "lire_devis", "lire_soeurs", "inserer", "ouvrir",
     "maj_refus", "expliquer", "relire", "termine"}

Tient(p, q) == pc[p] \in EtapesVerrou /\ demandeDe[cible[p]] = q

(* Mutation: no FOR UPDATE, neither in Retain nor in the trigger. *)
VerrouAbsent(q) == TRUE

VerrouLibre(q) == \A r \in Requetes : ~Tient(r, q)

(* An uncommitted UPDATE locks its row. *)
LigneLibre(p, d) == \A r \in Requetes \ {p} : d \notin ecrit[r]

ConnexionLibre ==
    Cardinality({p \in Requetes : pc[p] \in EtapesConnexion}) < PoolMax

Soeurs(d) == {e \in Devis \ {d} : demandeDe[e] = demandeDe[d]}

(* A sibling is retained: the unique index and the trigger look for that,  *)
(* and so does retenu() over the list the service reads.                   *)
ClosePour(d) == \E e \in Soeurs(d) : statut[e] = "retenu"

-----------------------------------------------------------------------------
Premiere(o) == IF o = "enregistrer" THEN "lire_demande" ELSE "lire_devis"

(* What the handlers hand over to the service: the use case, and the devis *)
(* it is about.                                                            *)
Saisies ==
    /\ op \in [Requetes -> Operations]
    /\ cible \in [Requetes -> Devis]

(* Service.buildDevis draws the identifier of the devis it records.        *)
IdentifiantsTires ==
    \A p \in Requetes : op[p] = "enregistrer" =>
        /\ statut[cible[p]] = "absent"
        /\ \A r \in Requetes \ {p} : op[r] = "enregistrer" => cible[r] # cible[p]

(* The tables hold what earlier requests left there: demandes, and devis   *)
(* nobody has decided yet.                                                 *)
Init ==
    /\ demandes \in SUBSET Demandes
    /\ statut \in [Devis -> {"absent", "recu"}]
    /\ \A d \in Devis : statut[d] = "recu" => demandeDe[d] \in demandes
    /\ decidePar = [d \in Devis |-> Personne]
    /\ Saisies
    /\ IdentifiantsTires
    /\ pc = [p \in Requetes |-> Premiere(op[p])]
    /\ ecrit = [p \in Requetes |-> {}]
    /\ reponse = [p \in Requetes |-> "aucune"]

Aller(p, etape) ==
    /\ pc' = [pc EXCEPT ![p] = etape]
    /\ UNCHANGED <<op, cible, ecrit, reponse>>

(* The handler returns: the deferred Rollback undoes what was not          *)
(* committed, locks and connection are given back.                         *)
Repondre(p, r) ==
    /\ pc' = [pc EXCEPT ![p] = "termine"]
    /\ reponse' = [reponse EXCEPT ![p] = r]
    /\ ecrit' = [ecrit EXCEPT ![p] = {}]
    /\ UNCHANGED <<op, cible>>

-----------------------------------------------------------------------------
(* Service.CreateDemande: one INSERT, no rule about other rows. *)
DemanderDevis(q) ==
    /\ q \notin demandes
    /\ ConnexionLibre
    /\ demandes' = demandes \cup {q}
    /\ UNCHANGED <<statut, decidePar, op, cible, pc, ecrit, reponse>>

(* Service.RecordDevis, DemandeByID. *)
LireDemande(p) ==
    /\ pc[p] = "lire_demande"
    /\ ConnexionLibre
    /\ \/ demandeDe[cible[p]] \in demandes /\ Aller(p, "lire_soeurs")
       \/ demandeDe[cible[p]] \notin demandes /\ Repondre(p, "demande_inconnue")
    /\ UNCHANGED tables

(* Service.checkDecision: DevisByID and the dry run of decide(). *)
LireDevis(p) ==
    /\ pc[p] = "lire_devis"
    /\ ConnexionLibre
    /\ \/ statut[cible[p]] = "absent" /\ Repondre(p, "devis_inconnu")
       \/ statut[cible[p]] \in {"retenu", "refuse"} /\ Repondre(p, "deja_tranche")
       \/ statut[cible[p]] = "recu" /\ Aller(p, "lire_soeurs")
    /\ UNCHANGED tables

(* Where the service hands over to the repository. *)
Suite == [enregistrer |-> "inserer", retenir |-> "ouvrir", refuser |-> "maj_refus"]

(* ListDevisByDemande, in RecordDevis and in checkDecision: refuse early   *)
(* when another proposal is already retained.                              *)
LireSoeurs(p) ==
    /\ pc[p] = "lire_soeurs"
    /\ ConnexionLibre
    /\ \/ ClosePour(cible[p]) /\ Repondre(p, "demande_close")
       \/ ~ClosePour(cible[p]) /\ Aller(p, Suite[op[p]])
    /\ UNCHANGED tables

(* pool.Exec of an INSERT or UPDATE that may wait, pool.Begin of Retain. *)
PrendreConnexion(p) ==
    /\ ConnexionLibre
    /\ \/ pc[p] = "inserer" /\ Aller(p, "inserer_tx")
       \/ pc[p] = "ouvrir" /\ Aller(p, "verrouiller")
       \/ pc[p] = "maj_refus" /\ Aller(p, "maj_refus_tx")
    /\ UNCHANGED tables

(* DevisRepo.CreateDevis: the trigger locks the row of the demande, then   *)
(* looks for a retained devis among committed rows; the statement commits  *)
(* on its own, and the answer may be lost on its way back ("abandon").     *)
Inserer(p) ==
    /\ pc[p] = "inserer_tx"
    /\ VerrouLibre(demandeDe[cible[p]])
    /\ \/ /\ ~ClosePour(cible[p])
          /\ statut' = [statut EXCEPT ![cible[p]] = "recu"]
          /\ \E r \in {"ok", "abandon"} : Repondre(p, r)
       \/ /\ ClosePour(cible[p])
          /\ UNCHANGED statut
          /\ Repondre(p, "demande_close")
    /\ UNCHANGED <<demandes, decidePar>>

(* DevisRepo.Retain, verrouQuery.  No statement of the program deletes a   *)
(* devis, so the row the service has just read is there.                   *)
Verrouiller(p) ==
    /\ pc[p] = "verrouiller"
    /\ VerrouLibre(demandeDe[cible[p]])
    /\ Aller(p, "maj_retenu")
    /\ UNCHANGED tables

(* DevisRepo.Retain, retenirQuery: the row must still be "recu"; the       *)
(* partial unique index refuses a second retained devis.                   *)
MajRetenu(p) ==
    /\ pc[p] = "maj_retenu"
    /\ LigneLibre(p, cible[p])
    /\ \/ /\ statut[cible[p]] = "recu"
          /\ IF ClosePour(cible[p])
             THEN Repondre(p, "demande_close")
             ELSE /\ pc' = [pc EXCEPT ![p] = "maj_soeurs"]
                  /\ ecrit' = [ecrit EXCEPT ![p] = {cible[p]}]
                  /\ UNCHANGED <<op, cible, reponse>>
       \/ /\ statut[cible[p]] # "recu"
          /\ Aller(p, "expliquer_tx")
    /\ UNCHANGED tables

(* The SET clauses: decide_par and decide_le of the rows a decision writes. *)
Signer(p, lignes) == [e \in Devis |-> IF e \in lignes THEN p ELSE decidePar[e]]

(* Mutation: refuserQuery without "statut = 'recu'". *)
EnAttenteSansStatut(d) == {e \in Soeurs(d) : statut[e] # "absent"}

(* Mutation: refuserQuery without "demande_id = $1". *)
EnAttentePartout(d) == {e \in Devis \ {d} : statut[e] = "recu"}

(* DevisRepo.Retain, refuserQuery: every sibling still "recu". *)
EnAttente(d) == {e \in Soeurs(d) : statut[e] = "recu"}

(* Mutation: the siblings are refused through the pool, not through tx. *)
MajSoeursHorsTransaction(p) ==
    /\ pc[p] = "maj_soeurs"
    /\ LET perdants == EnAttente(cible[p])
       IN /\ statut' = [e \in Devis |-> IF e \in perdants THEN "refuse" ELSE statut[e]]
          /\ decidePar' = Signer(p, perdants)
    /\ Aller(p, "valider")
    /\ UNCHANGED demandes

MajSoeurs(p) ==
    /\ pc[p] = "maj_soeurs"
    /\ \A e \in EnAttente(cible[p]) : LigneLibre(p, e)
    /\ pc' = [pc EXCEPT ![p] = "valider"]
    /\ ecrit' = [ecrit EXCEPT ![p] = @ \cup EnAttente(cible[p])]
    /\ UNCHANGED <<op, cible, reponse>>
    /\ UNCHANGED tables

(* DevisRepo.Retain, Commit: the rows written become visible at once. *)
Valider(p) ==
    /\ pc[p] = "valider"
    /\ statut' = [e \in Devis |->
          IF e = cible[p] THEN "retenu"
          ELSE IF e \in ecrit[p] THEN "refuse" ELSE statut[e]]
    /\ decidePar' = Signer(p, ecrit[p])
    /\ pc' = [pc EXCEPT ![p] = "relire"]
    /\ ecrit' = [ecrit EXCEPT ![p] = {}]
    /\ UNCHANGED <<demandes, op, cible, reponse>>

(* Mutation: Reject does not look at RowsAffected. *)
MajRefusAveugle(p) ==
    /\ pc[p] = "maj_refus_tx"
    /\ LigneLibre(p, cible[p])
    /\ LET lignes == {d \in {cible[p]} : statut[d] = "recu"}
       IN /\ statut' = [d \in Devis |-> IF d \in lignes THEN "refuse" ELSE statut[d]]
          /\ decidePar' = Signer(p, lignes)
    /\ Aller(p, "relire")
    /\ UNCHANGED demandes

(* DevisRepo.Reject: a single UPDATE ... WHERE statut = 'recu', no lock on *)
(* the demande.  It waits for a retention that has written the row, then   *)
(* looks at the committed row.                                             *)
MajRefus(p) ==
    /\ pc[p] = "maj_refus_tx"
    /\ LigneLibre(p, cible[p])
    /\ \/ /\ statut[cible[p]] = "recu"
          /\ statut' = [statut EXCEPT ![cible[p]] = "refuse"]
          /\ decidePar' = Signer(p, {cible[p]})
          /\ Aller(p, "relire")
       \/ /\ statut[cible[p]] # "recu"
          /\ UNCHANGED <<statut, decidePar>>
          /\ Aller(p, "expliquer")
    /\ UNCHANGED demandes

(* explainMissedUpdate: DevisByID goes through the pool, so a retention    *)
(* asks for a second connection while its transaction still holds one and  *)
(* the row of the demande ("expliquer_tx").  The row exists (see           *)
(* Verrouiller), so the explanation is ErrDevisAlreadyDecided.             *)
Expliquer(p) ==
    /\ pc[p] \in {"expliquer", "expliquer_tx"}
    /\ ConnexionLibre
    /\ Repondre(p, "deja_tranche")
    /\ UNCHANGED tables

(* The last DevisByID of Service.Retain and Service.Reject. *)
Relire(p) ==
    /\ pc[p] = "relire"
    /\ ConnexionLibre
    /\ Repondre(p, "ok")
    /\ UNCHANGED tables

(* The request's context is cancelled (the client hangs up), a query fails *)
(* or the process dies: PostgreSQL rolls back what was not committed.      *)
(* After Valider or MajRefus the decision stands, its answer is lost.      *)
Abandonner(p) ==
    /\ pc[p] # "termine"
    /\ Repondre(p, "abandon")
    /\ UNCHANGED tables

Etape(p) ==
    \/ LireDemande(p)
    \/ LireDevis(p)
    \/ LireSoeurs(p)
    \/ PrendreConnexion(p)
    \/ Inserer(p)
    \/ Verrouiller(p)
    \/ MajRetenu(p)
    \/ MajSoeurs(p)
    \/ Valider(p)
    \/ MajRefus(p)
    \/ Expliquer(p)
    \/ Relire(p)

(* Every request has been answered: the instance waits for the next ones. *)
Repos ==
    /\ \A p \in Requetes : pc[p] = "termine"
    /\ UNCHANGED vars

Next ==
    \/ \E q \in Demandes : DemanderDevis(q)
    \/ \E p \in Requetes : Etape(p) \/ Abandonner(p)
    \/ Repos

Spec == Init /\ [][Next]_vars

(* The Go scheduler and PostgreSQL let every request that can advance      *)
(* advance; nothing obliges a client to hang up.                           *)
FairSpec == Spec /\ \A p \in Requetes : WF_vars(Etape(p))

-----------------------------------------------------------------------------
TypeOK ==
    /\ demandes \subseteq Demandes
    /\ statut \in [Devis -> Statuts]
    /\ decidePar \in [Devis -> Requetes \cup {Personne}]
    /\ op \in [Requetes -> Operations]
    /\ cible \in [Requetes -> Devis]
    /\ pc \in [Requetes -> Etapes]
    /\ ecrit \in [Requetes -> SUBSET Devis]
    /\ reponse \in [Requetes -> Reponses]

(* A closed demande: once a devis is retained, none of its siblings is     *)
(* retained nor still waiting, whatever was being recorded, retained or    *)
(* rejected meanwhile (migration 00007, "aucune fenetre entre les deux").  *)
DemandeTranchee ==
    \A d \in Devis : statut[d] = "retenu" =>
        \A e \in Soeurs(d) : statut[e] \in {"absent", "refuse"}

(* Retaining and refusing are one decision (comment of DevisRepo.Retain):  *)
(* a devis refused by a retention means that the devis that very request   *)
(* wanted is retained, and by it.                                          *)
DecisionIndivisible ==
    \A d \in Devis : LET p == decidePar[d] IN
        (statut[d] = "refuse" /\ p # Personne) =>
            \/ op[p] = "refuser" /\ cible[p] = d
            \/ /\ op[p] = "retenir"
               /\ d \in Soeurs(cible[p])
               /\ statut[cible[p]] = "retenu"
               /\ decidePar[cible[p]] = p

(* Callers are told the truth, however their request interleaved: "ok" is  *)
(* said of the decision they took, an error only to those who decided      *)
(* nothing and for a reason that holds.                                    *)
ReponseVraie ==
    \A p \in Requetes :
        /\ reponse[p] = "ok" =>
              \/ op[p] = "enregistrer" /\ statut[cible[p]] # "absent"
              \/ op[p] = "retenir" /\ statut[cible[p]] = "retenu" /\ decidePar[cible[p]] = p
              \/ op[p] = "refuser" /\ statut[cible[p]] = "refuse" /\ decidePar[cible[p]] = p
        /\ reponse[p] \in Reponses \ {"aucune", "ok", "abandon"} =>
              \A d \in Devis : decidePar[d] # p
        /\ reponse[p] = "demande_close" => ClosePour(cible[p])
        /\ reponse[p] = "deja_tranche" => statut[cible[p]] \in {"retenu", "refuse"}

-----------------------------------------------------------------------------
(* What holds between the steps of the requests, from which the above      *)
(* follow: an inductive invariant, in parts.                               *)

EtapesRetenue == EtapesVerrou \cup {"ouvrir", "verrouiller"}
EtapesRefus == {"maj_refus", "maj_refus_tx", "expliquer"}
EtapesSaisie == {"lire_demande", "inserer", "inserer_tx"}

(* A request only goes through the steps of its own operation. *)
ParcoursOk(p) ==
    /\ pc[p] \in EtapesSaisie => op[p] = "enregistrer"
    /\ pc[p] \in EtapesRetenue => op[p] = "retenir"
    /\ pc[p] \in EtapesRefus => op[p] = "refuser"
    /\ pc[p] \in {"lire_devis", "relire"} => op[p] # "enregistrer"
    /\ pc[p] # "termine" <=> reponse[p] = "aucune"

(* The identifier a request brings is its own until it is inserted. *)
IdentifiantNeuf(p) ==
    op[p] = "enregistrer" =>
        /\ pc[p] # "termine" => statut[cible[p]] = "absent"
        /\ pc[p] \in {"lire_soeurs", "inserer", "inserer_tx"} =>
              demandeDe[cible[p]] \in demandes
        /\ \A r \in Requetes \ {p} : op[r] = "enregistrer" => cible[r] # cible[p]

(* What a decision has read of its devis stays true while it waits. *)
LectureOk(p) ==
    /\ (op[p] # "enregistrer" /\ pc[p] \notin {"lire_devis", "termine"}) =>
          statut[cible[p]] # "absent"
    /\ pc[p] \in {"expliquer", "expliquer_tx"} => statut[cible[p]] # "recu"

(* An open retention has written exactly its devis, then also the siblings *)
(* that wait, and these are still waiting.                                 *)
EcritureOk(p) ==
    /\ pc[p] \notin {"maj_soeurs", "valider"} => ecrit[p] = {}
    /\ pc[p] = "maj_soeurs" => ecrit[p] = {cible[p]}
    /\ pc[p] = "valider" => ecrit[p] = {cible[p]} \cup EnAttente(cible[p])
    /\ pc[p] \in {"maj_soeurs", "valider"} =>
          statut[cible[p]] = "recu" /\ ~ClosePour(cible[p])

(* Two retentions never hold the same demande. *)
VerrouExclusif ==
    \A p \in Requetes : \A r \in Requetes \ {p} :
        pc[p] \in EtapesVerrou /\ pc[r] \in EtapesVerrou =>
            demandeDe[cible[p]] # demandeDe[cible[r]]

(* A request signs nothing before its decision, and its own devis with it. *)
SignatureOk(p) ==
    /\ pc[p] = "relire" =>
          /\ decidePar[cible[p]] = p
          /\ statut[cible[p]] = IF op[p] = "retenir" THEN "retenu" ELSE "refuse"
    /\ pc[p] \notin {"relire", "termine"} => \A d \in Devis : decidePar[d] # p

(* CHECK devis_decision_coherente and the foreign key of migration 00006.  *)
LigneCoherente(d) ==
    /\ decidePar[d] = Personne <=> statut[d] \in {"absent", "recu"}
    /\ statut[d] # "absent" => demandeDe[d] \in demandes

(* The locks do their work: everything a request relies on between two of  *)
(* its round trips is protected from all the others.                       *)
Coherence ==
    /\ \A p \in Requetes :
          /\ ParcoursOk(p)
          /\ IdentifiantNeuf(p)
          /\ LectureOk(p)
          /\ EcritureOk(p)
          /\ SignatureOk(p)
    /\ VerrouExclusif
    /\ \A d \in Devis : LigneCoherente(d)

-----------------------------------------------------------------------------
(* p has a round trip to take and waits neither for a connection nor for a *)
(* lock: the guard of Etape(p), written out.                               *)
PeutAvancer(p) ==
    /\ pc[p] # "termine"
    /\ pc[p] \notin EtapesConnexion \ {"expliquer_tx"} => ConnexionLibre
    /\ pc[p] \in {"inserer_tx", "verrouiller"} => VerrouLibre(demandeDe[cible[p]])
    /\ pc[p] \in {"maj_retenu", "maj_refus_tx"} => LigneLibre(p, cible[p])
    /\ pc[p] = "maj_soeurs" => \A e \in EnAttente(cible[p]) : LigneLibre(p, e)

Bloquees == (\E p \in Requetes : pc[p] # "termine") /\ \A p \in Requetes : ~PeutAvancer(p)

(* Nobody can advance for one reason only: the pool is empty while a       *)
(* retention that lost its race asks it for a second connection, and who   *)
(* holds one is such a retention or waits for the demande of one.          *)
(* (explainMissedUpdate reads through the pool, inside the transaction.)   *)
SeulBlocage ==
    Bloquees =>
        /\ ~ConnexionLibre
        /\ \E r \in Requetes : pc[r] = "expliquer_tx"
        /\ \A p \in Requetes : pc[p] \in EtapesConnexion =>
              \/ pc[p] = "expliquer_tx"
              \/ \E r \in Requetes :
                    pc[r] = "expliquer_tx" /\ demandeDe[cible[r]] = demandeDe[cible[p]]

-----------------------------------------------------------------------------
(* A decision is final: no later step, by any interleaving, changes the    *)
(* status of a decided devis or the decision it is attributed to.          *)
DecisionDefinitive ==
    [][\A d \in Devis : statut[d] \in {"retenu", "refuse"} =>
          statut'[d] = statut[d] /\ decidePar'[d] = decidePar[d]]_tables

(* Seen from the tables alone, every step is one whole use case.           *)
Promesse == INSTANCE Consultation WITH Decideurs <- Requetes
PromesseTenue == Promesse!Spec

(* Every request is answered, even when nobody hangs up.                   *)
ToutesRepondues == \A p \in Requetes : <>(pc[p] = "termine")

=============================================================================

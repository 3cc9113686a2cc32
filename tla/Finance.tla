------------------------------ MODULE Finance ------------------------------
(***************************************************************************)
(* The finance component as it runs: Service (internal/finance/service.go) *)
(* over FinanceRepo (internal/adapters/postgres/finance.go) over migration *)
(* 00009, called by the web handlers and by the MCP tools, which ask the   *)
(* devis component whether a proposal is retained and for how much.        *)
(*                                                                         *)
(* A process is one goroutine of the server that serves a request after    *)
(* another, one database round trip at a time, in READ COMMITTED.  Column  *)
(* modifie_le is counted, as in Planning.                                  *)
(***************************************************************************)
EXTENDS PiecesFinance

CONSTANTS
    Requetes,    \* the goroutines
    Demandes,    \* the operations people ask for: all, or a bound of a run
    Aucune,      \* no piece
    Cle          \* hashtext: the key of the advisory lock of a proposal

ASSUME Aucune \notin Pieces

VARIABLES
    retenus,     \* the proposals of table devis with statut = 'retenu'
    pieces,      \* tables factures and acomptes, except ...
    version,     \* ... their columns modifie_le
    op,          \* what each request asks
    cible,       \* the piece it is about; a fresh one if it records
    saisie,      \* the proposal and the amount that were typed
    lue,         \* the row the service has read, and its modifie_le
    vu,          \* what the summary has read so far
    debut,       \* history: the totals when the request came in
    pc,          \* where it is
    reponse      \* what the caller was told

tables == <<retenus, pieces, version>>
locales == <<op, cible, saisie, lue, vu, debut>>
vars == <<tables, locales, pc, reponse>>

Enregistrements == {"facture", "acompte"}
Operations == Enregistrements \cup Transitions \cup {"synthese"}
Reponses == {"aucune", "ok", "abandon", "page", "devis_refuse", "montant_invalide",
             "depassement", "inconnue", "refusee", "conflit"}

(* Mutation: the service takes the lock as well, on another connection,    *)
(* before it calls the repository.                                         *)
SousVerrouPrisDeuxFois == {"verrouiller", "relire", "inserer", "valider"}

(* Between pg_advisory_xact_lock and the end of the transaction. *)
SousVerrou == {"relire", "inserer", "valider"}

Pas == SousVerrou \cup
    {"attente", "resoudre", "inserer_seul", "cumuler", "verrouiller", "lire", "ecrire",
     "expliquer", "lire_retenus", "lire_factures", "lire_acomptes"}

RienLu == [ligne |-> Absente, version |-> 0]
RienVu == [retenus |-> {}, totaux |-> [d \in Perimetres |-> Nul]]

Init ==
    /\ retenus \in SUBSET Devis
    /\ pieces = [i \in Pieces |-> Absente]
    /\ version = [i \in Pieces |-> 0]
    /\ op = [p \in Requetes |-> "synthese"]
    /\ cible = [p \in Requetes |-> Aucune]
    /\ saisie = [p \in Requetes |-> [devis |-> HorsDevis, montant |-> 0]]
    /\ lue = [p \in Requetes |-> RienLu]
    /\ vu = [p \in Requetes |-> RienVu]
    /\ debut = [p \in Requetes |-> [d \in Perimetres |-> Nul]]
    /\ pc = [p \in Requetes |-> "attente"]
    /\ reponse = [p \in Requetes |-> "aucune"]

Aller(p, etape) ==
    /\ pc' = [pc EXCEPT ![p] = etape]
    /\ UNCHANGED reponse

(* The handler returns; the deferred Rollback ends an open transaction. *)
Repondre(p, r) ==
    /\ pc' = [pc EXCEPT ![p] = "attente"]
    /\ reponse' = [reponse EXCEPT ![p] = r]

(* One INSERT or UPDATE, committed; the answer of the database may be lost. *)
Poser(p, i, ligne) ==
    /\ pieces' = [pieces EXCEPT ![i] = ligne]
    /\ version' = [version EXCEPT ![i] = @ + 1]
    /\ \E r \in {"ok", "abandon"} : Repondre(p, r)
    /\ UNCHANGED retenus

-----------------------------------------------------------------------------
Recevoir(p, o, i, d, m, etape) ==
    /\ pc[p] = "attente"
    /\ op' = [op EXCEPT ![p] = o]
    /\ cible' = [cible EXCEPT ![p] = i]
    /\ saisie' = [saisie EXCEPT ![p] = [devis |-> d, montant |-> m]]
    /\ lue' = [lue EXCEPT ![p] = RienLu]
    /\ vu' = [vu EXCEPT ![p] = RienVu]
    /\ pc' = [pc EXCEPT ![p] = etape]
    /\ reponse' = [reponse EXCEPT ![p] = "aucune"]
    /\ UNCHANGED tables

(* newID draws an identifier nobody holds. *)
Fraiche(i) ==
    /\ pieces[i].nature = "absente"
    /\ \A r \in Requetes :
          pc[r] # "attente" /\ op[r] \in Enregistrements => cible[r] # i

(* The form of an invoice or of a down payment, or the tool. *)
RecevoirPiece(p) ==
    \E o \in Demandes \cap Enregistrements, i \in Pieces, d \in Perimetres, m \in Montants :
        /\ Fraiche(i)
        /\ Recevoir(p, o, i, d, m, "resoudre")
        /\ UNCHANGED debut

(* The button of a transition; rembourser comes with an amount. *)
RecevoirTransition(p) ==
    \E o \in Demandes \cap Transitions, i \in Pieces, m \in Montants \cup {0} :
        /\ o # "rembourser" => m = 0
        /\ Recevoir(p, o, i, HorsDevis, m, "lire")
        /\ UNCHANGED debut

(* The page of the finances, the insurance file, tool finances_synthese. *)
RecevoirSynthese(p) ==
    /\ "synthese" \in Demandes
    /\ Recevoir(p, "synthese", Aucune, HorsDevis, 0, "lire_retenus")
    /\ debut' = [debut EXCEPT ![p] = Totaux(pieces)]

(* devis.Retain commits in another request. *)
Retenir(d) ==
    /\ d \notin retenus
    /\ retenus' = retenus \cup {d}
    /\ UNCHANGED <<pieces, version, locales, pc, reponse>>

-----------------------------------------------------------------------------
(* resolveRetenu, one read of the proposal unless there is none; then the  *)
(* amount is validated (checkPieceValues).                                 *)
Resoudre(p) ==
    /\ pc[p] = "resoudre"
    /\ LET d == saisie[p].devis
           m == saisie[p].montant
       IN \/ d \notin retenus \cup {HorsDevis} /\ Repondre(p, "devis_refuse")
          \/ d \in retenus \cup {HorsDevis} /\ m = 0 /\ Repondre(p, "montant_invalide")
          \/ /\ d \in retenus \cup {HorsDevis} /\ m > 0
             /\ Aller(p, IF op[p] = "facture" \/ d = HorsDevis
                         THEN "inserer_seul" ELSE "cumuler")
    /\ UNCHANGED <<tables, locales>>

LigneSaisie(p) == Naissante(op[p], saisie[p].devis, saisie[p].montant)

(* CreateFacture; CreateAcompte without a proposal. *)
InsererSeul(p) ==
    /\ pc[p] = "inserer_seul"
    /\ Poser(p, cible[p], LigneSaisie(p))
    /\ UNCHANGED locales

Tient(p) == Cumul(pieces, saisie[p].devis) + saisie[p].montant <= Engage[saisie[p].devis]

(* Mutation: an amount that settles the commitment exactly is refused. *)
CumulerStrict(p) ==
    /\ pc[p] = "cumuler"
    /\ LET apres == Cumul(pieces, saisie[p].devis) + saisie[p].montant
       IN \/ apres < Engage[saisie[p].devis] /\ Aller(p, "verrouiller")
          \/ apres >= Engage[saisie[p].devis] /\ Repondre(p, "depassement")
    /\ UNCHANGED <<tables, locales>>

(* Service.checkEngagement, before any lock. *)
Cumuler(p) ==
    /\ pc[p] = "cumuler"
    /\ \/ Tient(p) /\ Aller(p, "verrouiller")
       \/ ~Tient(p) /\ Repondre(p, "depassement")
    /\ UNCHANGED <<tables, locales>>

(* Mutation: pg_try_advisory_xact_lock, the answer of which nobody looks at. *)
VerrouillerSansAttendre(p) ==
    /\ pc[p] = "verrouiller"
    /\ Aller(p, "relire")
    /\ UNCHANGED <<tables, locales>>

(* FinanceRepo.CreateAcompte: Begin, then pg_advisory_xact_lock on the     *)
(* hash of the proposal, which two proposals may share.                    *)
Verrouiller(p) ==
    /\ pc[p] = "verrouiller"
    /\ \A r \in Requetes :
          pc[r] \in SousVerrou => Cle[saisie[r].devis] # Cle[saisie[p].devis]
    /\ Aller(p, "relire")
    /\ UNCHANGED <<tables, locales>>

(* The sum again, under the lock: the one that decides. *)
Relire(p) ==
    /\ pc[p] = "relire"
    /\ \/ Tient(p) /\ Aller(p, "inserer")
       \/ ~Tient(p) /\ Repondre(p, "depassement")
    /\ UNCHANGED <<tables, locales>>

(* INSERT: nobody else sees the row yet. *)
Inserer(p) ==
    /\ pc[p] = "inserer"
    /\ Aller(p, "valider")
    /\ UNCHANGED <<tables, locales>>

(* COMMIT *)
Valider(p) ==
    /\ pc[p] = "valider"
    /\ Poser(p, cible[p], LigneSaisie(p))
    /\ UNCHANGED locales

-----------------------------------------------------------------------------
(* updateFacture, updateAcompte: FactureByID or AcompteByID, after the     *)
(* route, then the transition on the entity.                               *)
Connue(p) ==
    LET n == pieces[cible[p]].nature
    IN n = "facture" \/ (n = "acompte" /\ op[p] # "payer")

Lire(p) ==
    /\ pc[p] = "lire"
    /\ LET l == pieces[cible[p]]
           permise == Permet(op[p], l, saisie[p].montant)
       IN \/ ~Connue(p) /\ Repondre(p, "inconnue") /\ UNCHANGED lue
          \/ Connue(p) /\ ~permise /\ Repondre(p, "refusee") /\ UNCHANGED lue
          \/ /\ Connue(p) /\ permise
             /\ lue' = [lue EXCEPT ![p] = [ligne |-> l, version |-> version[cible[p]]]]
             /\ Aller(p, "ecrire")
    /\ UNCHANGED <<tables, op, cible, saisie, vu, debut>>

(* Mutation: UPDATE ... WHERE id = $1, without the optimistic guard. *)
EcrireSansGarde(p) ==
    /\ pc[p] = "ecrire"
    /\ Poser(p, cible[p], Apres(op[p], lue[p].ligne, saisie[p].montant))
    /\ UNCHANGED locales

(* UPDATE ... WHERE modifie_le = expected, of the whole row. *)
Ecrire(p) ==
    /\ pc[p] = "ecrire"
    /\ \/ /\ version[cible[p]] = lue[p].version
          /\ Poser(p, cible[p], Apres(op[p], lue[p].ligne, saisie[p].montant))
       \/ /\ version[cible[p]] # lue[p].version
          /\ Aller(p, "expliquer")
          /\ UNCHANGED tables
    /\ UNCHANGED locales

(* explainMissedFactureUpdate; no statement deletes a piece. *)
Expliquer(p) ==
    /\ pc[p] = "expliquer"
    /\ Repondre(p, "conflit")
    /\ UNCHANGED <<tables, locales>>

-----------------------------------------------------------------------------
(* loadFinances, handleFinancesSynthese: devisRetenus first, ... *)
LireRetenus(p) ==
    /\ pc[p] = "lire_retenus"
    /\ vu' = [vu EXCEPT ![p].retenus = retenus]
    /\ Aller(p, "lire_factures")
    /\ UNCHANGED <<tables, op, cible, saisie, lue, debut>>

(* ... then ListFactures, ... *)
LireFactures(p) ==
    /\ pc[p] = "lire_factures"
    /\ vu' = [vu EXCEPT ![p].totaux = [d \in Perimetres |-> Total(pieces, "facture", d)]]
    /\ Aller(p, "lire_acomptes")
    /\ UNCHANGED <<tables, op, cible, saisie, lue, debut>>

(* Mutation: the down payments replace the totals of the invoices. *)
LireAcomptesEcrase(p) ==
    /\ pc[p] = "lire_acomptes"
    /\ vu' = [vu EXCEPT ![p].totaux = [d \in Perimetres |-> Total(pieces, "acompte", d)]]
    /\ Repondre(p, "page")
    /\ UNCHANGED <<tables, op, cible, saisie, lue, debut>>

(* ... then ListAcomptes, and ComputeTotaux. *)
LireAcomptes(p) ==
    /\ pc[p] = "lire_acomptes"
    /\ vu' = [vu EXCEPT ![p].totaux =
                [d \in Perimetres |-> Plus(@[d], Total(pieces, "acompte", d))]]
    /\ Repondre(p, "page")
    /\ UNCHANGED <<tables, op, cible, saisie, lue, debut>>

(* The client hangs up, a query fails or the process dies. *)
Abandonner(p) ==
    /\ pc[p] # "attente"
    /\ Repondre(p, "abandon")
    /\ UNCHANGED <<tables, locales>>

Etape(p) ==
    \/ Resoudre(p) \/ InsererSeul(p)
    \/ Cumuler(p) \/ Verrouiller(p) \/ Relire(p) \/ Inserer(p) \/ Valider(p)
    \/ Lire(p) \/ Ecrire(p) \/ Expliquer(p)
    \/ LireRetenus(p) \/ LireFactures(p) \/ LireAcomptes(p)

(* Nobody asks anything. *)
Repos ==
    /\ \A p \in Requetes : pc[p] = "attente"
    /\ UNCHANGED vars

Next ==
    \/ Repos
    \/ \E p \in Requetes :
          \/ RecevoirPiece(p) \/ RecevoirTransition(p) \/ RecevoirSynthese(p)
          \/ Etape(p)
          \/ Abandonner(p)
    \/ \E d \in Devis : Retenir(d)

Spec == Init /\ [][Next]_vars

(* The Go scheduler and PostgreSQL let every request that can advance      *)
(* advance; those that wait for a lock are served in turn.                 *)
FairSpec ==
    /\ Spec
    /\ \A p \in Requetes : WF_vars(Etape(p)) /\ SF_vars(Verrouiller(p))

-----------------------------------------------------------------------------
TypeOK ==
    /\ retenus \subseteq Devis
    /\ pieces \in [Pieces -> Lignes]
    /\ version \in [Pieces -> Nat]
    /\ op \in [Requetes -> Operations]
    /\ cible \in [Requetes -> Pieces \cup {Aucune}]
    /\ saisie \in [Requetes -> [devis : Perimetres, montant : Montants \cup {0}]]
    /\ lue \in [Requetes -> [ligne : Lignes, version : Nat]]
    /\ vu \in [Requetes -> [retenus : SUBSET Devis,
                            totaux : [Perimetres -> [facture : Nat, paye : Nat, rembourse : Nat]]]]
    /\ debut \in [Requetes -> [Perimetres -> [facture : Nat, paye : Nat, rembourse : Nat]]]
    /\ pc \in [Requetes -> Pas]
    /\ reponse \in [Requetes -> Reponses]

(* The central rule of the domain: what is paid down on a proposal never   *)
(* exceeds what it commits, however many down payments are typed at once   *)
(* (contract of finance.Repository).                                       *)
CumulSousEngagement == \A d \in Devis : Cumul(pieces, d) <= Engage[d]

(* What a request was told "ok" of is there. *)
Tenu(p) ==
    LET l == pieces[cible[p]]
        m == saisie[p].montant
    IN /\ op[p] \in Enregistrements =>
             l.nature = op[p] /\ l.devis = saisie[p].devis /\ l.montant = m
       /\ op[p] = "payer" => l.paiement = "payee"
       /\ op[p] = "envoyer" => l.assurance \in {"envoyee", "remboursee"}
       /\ op[p] = "rembourser" => l.assurance = "remboursee" /\ l.rembourse = m

(* "ok" is only said of what is there, and stays: no transition erases the *)
(* one another person has made on the same piece, no row is written twice. *)
RienPerdu == \A p \in Requetes : reponse[p] = "ok" => Tenu(p)

(* A down payment is refused for its amount only if it does not fit, now   *)
(* and for ever, although the first check takes no lock.                   *)
DepassementFonde == \A p \in Requetes : reponse[p] = "depassement" => ~Tient(p)

(* The summary is made of three reads between which others write, so it    *)
(* may show a moment that never was; yet each of its totals lies between   *)
(* what it was when the request came in and what it is now.                *)
Encadree(p) ==
    reponse[p] = "page" =>
        \A d \in Perimetres :
            /\ AuPlus(debut[p][d], vu[p].totaux[d])
            /\ AuPlus(vu[p].totaux[d], Totaux(pieces)[d])

SyntheseEncadree == \A p \in Requetes : Encadree(p)

-----------------------------------------------------------------------------
(* What holds between the steps of the requests: an inductive invariant,   *)
(* in parts.                                                               *)

PasResolu == {"inserer_seul", "cumuler", "verrouiller"} \cup SousVerrou
PasEngage == {"cumuler", "verrouiller"} \cup SousVerrou
Enregistre(p) == pc[p] \in {"resoudre"} \cup PasResolu

(* A row that is not there holds nothing. *)
Vierges == \A i \in Pieces : pieces[i].nature = "absente" => pieces[i] = Absente

(* Each recording in flight has an identifier of its own, not yet used. *)
Fraicheur ==
    \A p \in Requetes : Enregistre(p) =>
        /\ op[p] \in Enregistrements
        /\ cible[p] \in Pieces
        /\ pieces[cible[p]].nature = "absente"
        /\ \A r \in Requetes \ {p} : Enregistre(r) => cible[r] # cible[p]

(* What resolveRetenu and checkPieceValues have established lasts. *)
Resolution ==
    \A p \in Requetes :
        /\ pc[p] \in PasResolu =>
              saisie[p].devis \in retenus \cup {HorsDevis} /\ saisie[p].montant > 0
        /\ pc[p] = "inserer_seul" => op[p] = "facture" \/ saisie[p].devis = HorsDevis
        /\ pc[p] \in PasEngage => op[p] = "acompte" /\ saisie[p].devis \in Devis

(* Under the lock, alone on its proposal; past the sum, the amount fits. *)
Exclusion ==
    \A p \in Requetes :
        /\ pc[p] \in SousVerrou =>
              \A r \in Requetes \ {p} :
                 pc[r] \in SousVerrou => saisie[r].devis # saisie[p].devis
        /\ pc[p] \in {"inserer", "valider"} => Tient(p)

(* Same modifie_le, same row. *)
Garde ==
    \A p \in Requetes :
        /\ pc[p] \in {"lire", "ecrire", "expliquer"} =>
              op[p] \in Transitions /\ cible[p] \in Pieces
        /\ pc[p] = "ecrire" =>
              /\ Permet(op[p], lue[p].ligne, saisie[p].montant)
              /\ lue[p].ligne.nature = "facture" \/ (lue[p].ligne.nature = "acompte" /\ op[p] # "payer")
              /\ version[cible[p]] >= lue[p].version
              /\ version[cible[p]] = lue[p].version => pieces[cible[p]] = lue[p].ligne
        /\ pc[p] = "expliquer" => version[cible[p]] > lue[p].version

(* Only a refund gives back: until then the piece carries no indemnity.    *)
Indemnites ==
    \A i \in Pieces : pieces[i].assurance # "remboursee" => pieces[i].rembourse = 0

(* What a summary has read so far, whatever others have written meanwhile: *)
(* the invoices it has seen are at most those of now, and with the down    *)
(* payments of now they make at least what there was when it came in.      *)
LectureOk(p) ==
    /\ pc[p] # "attente" => reponse[p] = "aucune"
    /\ pc[p] \in {"lire_retenus", "lire_factures"} =>
          \A d \in Perimetres : AuPlus(debut[p][d], Totaux(pieces)[d])
    /\ pc[p] = "lire_acomptes" =>
          \A d \in Perimetres :
             /\ AuPlus(debut[p][d], Plus(vu[p].totaux[d], Total(pieces, "acompte", d)))
             /\ AuPlus(vu[p].totaux[d], Total(pieces, "facture", d))
    /\ Encadree(p)

Synthese == Indemnites /\ \A p \in Requetes : LectureOk(p)

(* A refusal was about a proposal, and stays founded.                      *)
Refus ==
    \A p \in Requetes :
        reponse[p] = "depassement" => saisie[p].devis \in Devis /\ ~Tient(p)

Coherence ==
    /\ Vierges
    /\ Fraicheur
    /\ Resolution
    /\ Exclusion
    /\ Garde

(* The component implements Tresorerie. *)
Promesse == INSTANCE Tresorerie
PromesseTenue == Promesse!Spec

(* Every request is answered: the lock of a proposal always comes back.    *)
ToutesRepondues == \A p \in Requetes : pc[p] # "attente" ~> pc[p] = "attente"
=============================================================================

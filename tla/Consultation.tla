---------------------------- MODULE Consultation ----------------------------
(***************************************************************************)
(* What the devis component promises, as if each use case were one step:   *)
(* a "demande" collects price proposals ("devis"); retaining one of them   *)
(* refuses by the same stroke every proposal still waiting, and closes the *)
(* demande.  DecisionDevis shows that the service, the repository and the  *)
(* SQL of Avanti, cut at every round trip to the database, implement this. *)
(***************************************************************************)

CONSTANTS
    Demandes,    \* identifiers of the requests for quotation
    Devis,       \* identifiers of the proposals
    demandeDe,   \* the demande each proposal answers (column demande_id)
    Decideurs,   \* those who decide
    Personne     \* NULL in column decide_par

VARIABLES
    demandes,    \* the demandes that exist
    statut,      \* [Devis -> {"absent", "recu", "retenu", "refuse"}]
    decidePar    \* [Devis -> Decideurs or Personne]

vars == <<demandes, statut, decidePar>>

(* The other proposals made for the same demande. *)
Soeurs(d) == {e \in Devis \ {d} : demandeDe[e] = demandeDe[d]}

(* A sibling of d has been retained: the demande is closed for d. *)
ClosePour(d) == \E e \in Soeurs(d) : statut[e] = "retenu"

Init ==
    /\ demandes \in SUBSET Demandes
    /\ statut \in [Devis -> {"absent", "recu"}]
    /\ decidePar = [d \in Devis |-> Personne]
    /\ \A d \in Devis : statut[d] = "recu" => demandeDe[d] \in demandes

(* Service.CreateDemande: a demande is opened. *)
Demander(q) ==
    /\ q \notin demandes
    /\ demandes' = demandes \cup {q}
    /\ UNCHANGED <<statut, decidePar>>

(* Service.RecordDevis: an artisan's proposal comes in. *)
Enregistrer(d) ==
    /\ demandeDe[d] \in demandes
    /\ statut[d] = "absent"
    /\ ~ClosePour(d)
    /\ statut' = [statut EXCEPT ![d] = "recu"]
    /\ UNCHANGED <<demandes, decidePar>>

(* Service.Retain: d wins and every sibling still waiting loses, in one    *)
(* decision signed by a.                                                   *)
Retenir(d, a) ==
    /\ statut[d] = "recu"
    /\ ~ClosePour(d)
    /\ LET perdants == {e \in Soeurs(d) : statut[e] = "recu"}
       IN /\ statut' = [e \in Devis |->
                IF e = d THEN "retenu"
                ELSE IF e \in perdants THEN "refuse" ELSE statut[e]]
          /\ decidePar' = [e \in Devis |->
                IF e \in perdants \cup {d} THEN a ELSE decidePar[e]]
    /\ UNCHANGED demandes

(* Service.Reject: d is put aside, its siblings do not move. *)
Refuser(d, a) ==
    /\ statut[d] = "recu"
    /\ statut' = [statut EXCEPT ![d] = "refuse"]
    /\ decidePar' = [decidePar EXCEPT ![d] = a]
    /\ UNCHANGED demandes

Next ==
    \/ \E q \in Demandes : Demander(q)
    \/ \E d \in Devis : Enregistrer(d)
    \/ \E d \in Devis, a \in Decideurs : Retenir(d, a) \/ Refuser(d, a)

Spec == Init /\ [][Next]_vars

=============================================================================

------------------------------ MODULE Chantier ------------------------------
(***************************************************************************)
(* What the planning component promises: steps of works ("etapes") that    *)
(* wait for their prerequisites, each use case being one step.  Planning   *)
(* shows that the service and the repository of Avanti implement this.     *)
(***************************************************************************)
EXTENDS GrapheEtapes

CONSTANT Etapes    \* identifiers of the steps of the works

VARIABLES
    avance,       \* [Etapes -> {"absente", "prevue", "en_cours", "terminee"}]
    prerequis     \* [Etapes -> SUBSET Etapes]

vars == <<avance, prerequis>>

Existantes == {e \in Etapes : avance[e] # "absente"}

(* No cycle, every prerequisite exists, and what has started had all its   *)
(* prerequisites finished.                                                 *)
Init ==
    /\ avance \in [Etapes -> {"absente", "prevue", "en_cours", "terminee"}]
    /\ prerequis \in [Etapes -> SUBSET Etapes]
    /\ \A e \in Etapes :
          /\ prerequis[e] \subseteq Existantes \ {e}
          /\ avance[e] = "absente" => prerequis[e] = {}
          /\ avance[e] \in {"en_cours", "terminee"} =>
                \A f \in prerequis[e] : avance[f] = "terminee"
    /\ Acyclique(prerequis, Existantes)

(* Service.CreateEtape *)
Creer(e, deps) ==
    /\ avance[e] = "absente"
    /\ deps \subseteq Existantes
    /\ avance' = [avance EXCEPT ![e] = "prevue"]
    /\ prerequis' = [prerequis EXCEPT ![e] = deps]

(* Service.UpdateEtape: the prerequisites of a step that has started are   *)
(* frozen (ErrDependenciesLocked), and none may close a cycle.             *)
Modifier(e, deps) ==
    /\ avance[e] = "prevue"
    /\ deps \subseteq Existantes \ {e}
    /\ prerequis' = [prerequis EXCEPT ![e] = deps]
    /\ Acyclique(prerequis', Existantes)
    /\ UNCHANGED avance

(* Service.StartEtape *)
Demarrer(e) ==
    /\ avance[e] = "prevue"
    /\ \A f \in prerequis[e] : avance[f] = "terminee"
    /\ avance' = [avance EXCEPT ![e] = "en_cours"]
    /\ UNCHANGED prerequis

(* Service.FinishEtape *)
Terminer(e) ==
    /\ avance[e] = "en_cours"
    /\ avance' = [avance EXCEPT ![e] = "terminee"]
    /\ UNCHANGED prerequis

Next ==
    \E e \in Etapes :
        \/ \E deps \in SUBSET Etapes : Creer(e, deps) \/ Modifier(e, deps)
        \/ Demarrer(e)
        \/ Terminer(e)

Spec == Init /\ [][Next]_vars
=============================================================================

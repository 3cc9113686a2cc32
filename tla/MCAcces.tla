------------------------------ MODULE MCAcces ------------------------------
(* Instances of Acces for TLC. *)
EXTENDS Acces, TLC

(* What the commands of a run may be. *)
TousLesOrdres == Ordres
FermerEtRole == {o \in Ordres : o.op \in {"fermer", "role"}}
Aucun == {}

Symetrie == Permutations(Requetes) \cup Permutations(Jetons)
=============================================================================

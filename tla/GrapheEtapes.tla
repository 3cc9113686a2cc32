---------------------------- MODULE GrapheEtapes ----------------------------
(* The graph of the prerequisites, as a function from each step of the     *)
(* works to the set of those it depends on (table etape_dependances).      *)

(* No cycle among S: every part of it has a step that depends on no other  *)
(* step of that part.  This is the definition; CheckAcyclic, the algorithm *)
(* of the code, is in module ParcoursGraphe.                               *)
Acyclique(prerequis, S) ==
    \A C \in SUBSET S : C # {} => \E e \in C : prerequis[e] \cap C = {}
=============================================================================

-------------------------- MODULE MCDecisionDevis --------------------------
(* Instances of DecisionDevis for TLC: small sets of devis and the demande *)
(* each of them answers.                                                   *)
EXTENDS DecisionDevis, TLC

CONSTANTS q1, q2, d1, d2, d3, d4

(* Three devis compete for q1; the fourth is alone on q2. *)
Concurrence == d1 :> q1 @@ d2 :> q1 @@ d3 :> q1 @@ d4 :> q2

(* Two devis compete for the only demande. *)
Duel == d1 :> q1 @@ d2 :> q1
=============================================================================

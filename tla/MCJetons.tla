------------------------------ MODULE MCJetons ------------------------------
(* Instances of Jetons for TLC. *)
EXTENDS Jetons, TLC

CONSTANTS a1, couple

(* One decision, of one person about one client. *)
CoupleUn == (a1 :> couple)

Symetrie == Permutations(Requetes)
=============================================================================

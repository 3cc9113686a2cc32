----------------------------- MODULE MCFinance -----------------------------
(* Instances of Finance for TLC. *)
EXTENDS Finance, TLC

CONSTANT d1

(* One proposal of two units. *)
EngageUn == (d1 :> 2)
CleUne == (d1 :> 0)

Symetrie == Permutations(Requetes) \cup Permutations(Pieces)
=============================================================================

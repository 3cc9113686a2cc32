----------------------------- MODULE MCInstance -----------------------------
(* Instances of Instance for TLC. *)
EXTENDS Instance

CONSTANTS r1, a1

AppelantsMC == {r1, a1}
=============================================================================

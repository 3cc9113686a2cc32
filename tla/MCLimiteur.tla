----------------------------- MODULE MCLimiteur -----------------------------
(* Instances of Limiteur for TLC. *)
EXTENDS Limiteur
=============================================================================

-------------------------- MODULE MCParcoursGraphe --------------------------
(* ParcoursGraphe on every graph of a few steps of the works.              *)
EXTENDS ParcoursGraphe
=============================================================================

----------------------------- MODULE Tresorerie -----------------------------
(***************************************************************************)
(* What the finance component promises: pieces are recorded against a      *)
(* retained proposal or against none, what is paid down on a proposal      *)
(* never exceeds what it commits, and each piece goes once through each of *)
(* its transitions, payment and insurance independently.  Finance shows    *)
(* that the service and the repository of Avanti implement this.           *)
(***************************************************************************)
EXTENDS PiecesFinance

VARIABLES
    retenus,    \* the proposals that are retained
    pieces      \* tables factures and acomptes: [Pieces -> Lignes]

vars == <<retenus, pieces>>

Init ==
    /\ retenus \in SUBSET Devis
    /\ pieces = [i \in Pieces |-> Absente]

(* DecisionDevis: a proposal once retained stays so. *)
Retenir(d) ==
    /\ retenus' = retenus \cup {d}
    /\ UNCHANGED pieces

(* Service.RecordFacture, Service.RecordAcompte *)
Enregistrer(i, n, d, m) ==
    /\ pieces[i].nature = "absente"
    /\ d \in retenus \cup {HorsDevis}
    /\ m > 0
    /\ n = "acompte" /\ d # HorsDevis => Cumul(pieces, d) + m <= Engage[d]
    /\ pieces' = [pieces EXCEPT ![i] = Naissante(n, d, m)]
    /\ UNCHANGED retenus

(* Service.MarkFacturePayee and the four other transitions; a down payment *)
(* has no payment of its own.                                              *)
Avancer(i, o, m) ==
    /\ pieces[i].nature = "facture" \/ (pieces[i].nature = "acompte" /\ o # "payer")
    /\ Permet(o, pieces[i], m)
    /\ pieces' = [pieces EXCEPT ![i] = Apres(o, pieces[i], m)]
    /\ UNCHANGED retenus

Next ==
    \/ \E d \in Devis : Retenir(d)
    \/ \E i \in Pieces, m \in Montants \cup {0} :
          \/ \E n \in {"facture", "acompte"}, d \in Perimetres : Enregistrer(i, n, d, m)
          \/ \E o \in Transitions : Avancer(i, o, m)

Spec == Init /\ [][Next]_vars
=============================================================================

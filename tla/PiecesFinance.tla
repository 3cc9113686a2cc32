--------------------------- MODULE PiecesFinance ---------------------------
(***************************************************************************)
(* The entities of internal/finance: an invoice ("facture") waits for its  *)
(* payment, a down payment ("acompte") is one; both carry the follow-up of *)
(* their indemnity by the insurance.  A row holds what rules and totals    *)
(* read of the piece; names, dates and notes are left out.                 *)
(***************************************************************************)
EXTENDS Integers, FiniteSets

CONSTANTS
    Pieces,       \* identifiers of the invoices and of the down payments
    Devis,        \* identifiers of the proposals of the artisans
    HorsDevis,    \* the empty devis_id of an expense without a proposal
    Engage,       \* the amount of each proposal, committed if it is retained
    Montants      \* the amounts people type

(* No use case changes the amount of a proposal.                           *)
ASSUME MontantsEngages ==
    /\ IsFiniteSet(Pieces)
    /\ HorsDevis \notin Devis
    /\ Engage \in [Devis -> Nat \ {0}]
    /\ Montants \subseteq Nat

Perimetres == Devis \cup {HorsDevis}

Lignes ==
    [nature : {"absente", "facture", "acompte"}, devis : Perimetres, montant : Nat,
     paiement : {"impayee", "payee"},
     assurance : {"non_envoyee", "envoyee", "remboursee"}, rembourse : Nat]

Absente ==
    [nature |-> "absente", devis |-> HorsDevis, montant |-> 0,
     paiement |-> "impayee", assurance |-> "non_envoyee", rembourse |-> 0]

(* Service.buildFacture, Service.buildAcompte *)
Naissante(n, d, m) ==
    [nature |-> n, devis |-> d, montant |-> m,
     paiement |-> IF n = "facture" THEN "impayee" ELSE "payee",
     assurance |-> "non_envoyee", rembourse |-> 0]

Transitions == {"payer", "envoyer", "rembourser"}

(* What MarkPayee, send and refund accept of a row; m is the indemnity. *)
Permet(o, l, m) ==
    \/ o = "payer" /\ l.paiement = "impayee"
    \/ o = "envoyer" /\ l.assurance = "non_envoyee"
    \/ o = "rembourser" /\ l.assurance = "envoyee" /\ 0 < m /\ m <= l.montant

(* Mutation: the row sent to the insurance is rebuilt, payment forgotten. *)
ApresEcrase(o, l, m) ==
    CASE o = "payer" -> [l EXCEPT !.paiement = "payee"]
      [] o = "envoyer" -> [Naissante(l.nature, l.devis, l.montant) EXCEPT !.assurance = "envoyee"]
      [] o = "rembourser" -> [l EXCEPT !.assurance = "remboursee", !.rembourse = m]

(* The row they return. *)
Apres(o, l, m) ==
    CASE o = "payer" -> [l EXCEPT !.paiement = "payee"]
      [] o = "envoyer" -> [l EXCEPT !.assurance = "envoyee"]
      [] o = "rembourser" -> [l EXCEPT !.assurance = "remboursee", !.rembourse = m]

-----------------------------------------------------------------------------
(* The sum of f over S, one unit at a time: the number of units there are. *)
Unites(f, S) == UNION {{i} \X (1 .. f[i]) : i \in S}
Somme(f, S) == Cardinality(Unites(f, S))

Montant(t) == [i \in Pieces |-> t[i].montant]
Indemnite(t) == [i \in Pieces |-> t[i].rembourse]

(* The rows of a table of pieces t, of one nature, attached to d. *)
Rattachees(t, n, d) == {i \in Pieces : t[i].nature = n /\ t[i].devis = d}

(* SELECT COALESCE(SUM(montant), 0) FROM acomptes WHERE devis_id = d *)
Cumul(t, d) == Somme(Montant(t), Rattachees(t, "acompte", d))

(* ComputeTotaux for the pieces of one nature: what d has been invoiced,   *)
(* what has been paid and what the insurance has given back.               *)
Total(t, n, d) ==
    LET rattachees == Rattachees(t, n, d)
    IN [facture |-> IF n = "facture" THEN Somme(Montant(t), rattachees) ELSE 0,
        paye |-> Somme(Montant(t), {i \in rattachees : t[i].paiement = "payee"}),
        rembourse |-> Somme(Indemnite(t), rattachees)]

(* TotalFinance.add *)
Plus(a, b) ==
    [facture |-> a.facture + b.facture,
     paye |-> a.paye + b.paye,
     rembourse |-> a.rembourse + b.rembourse]

Totaux(t) == [d \in Perimetres |-> Plus(Total(t, "facture", d), Total(t, "acompte", d))]

Nul == [facture |-> 0, paye |-> 0, rembourse |-> 0]

AuPlus(a, b) ==
    a.facture <= b.facture /\ a.paye <= b.paye /\ a.rembourse <= b.rembourse
=============================================================================

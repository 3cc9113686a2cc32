--------------------------- MODULE Finance_proofs ---------------------------
(* What TLAPS proves of Finance for any requests, pieces and proposals.    *)
EXTENDS Finance, FiniteSetTheorems, TLAPS

-----------------------------------------------------------------------------
(* Sums of amounts, counted unit by unit.                                  *)

(* Finitely many amounts make finitely many units. *)
LEMMA UnitesFinies ==
    ASSUME NEW S, IsFiniteSet(S), NEW f, \A i \in S : f[i] \in Nat
    PROVE  IsFiniteSet(Unites(f, S))
<1> DEFINE T == {{i} \X (1 .. f[i]) : i \in S}
           F == [i \in S |-> {i} \X (1 .. f[i])]
<1>1. F \in Surjection(S, T)
  BY DEF Surjection
<1>2. IsFiniteSet(T)
  <2> HIDE DEF T, F
  <2> QED
    BY <1>1, FS_Surjection
<1>3. ASSUME NEW U \in T PROVE IsFiniteSet(U)
  <2>1. PICK i \in S : U = {i} \X (1 .. f[i])
    BY <1>3
  <2>2. IsFiniteSet({i})
    BY FS_Singleton
  <2>3. IsFiniteSet(1 .. f[i])
    BY FS_Interval
  <2> QED
    BY <2>1, <2>2, <2>3, FS_Product
<1> QED
  <2> HIDE DEF T
  <2>1. IsFiniteSet(UNION T)
    BY <1>2, <1>3, FS_UNION
  <2> QED
    BY <2>1 DEF Unites, T

LEMMA SommeNaturelle ==
    ASSUME NEW S, IsFiniteSet(S), NEW f, \A i \in S : f[i] \in Nat
    PROVE  Somme(f, S) \in Nat
BY UnitesFinies, FS_CardinalityType DEF Somme

(* A sum only depends on what it adds. *)
LEMMA SommeEgale ==
    ASSUME NEW S, NEW f, NEW g, \A i \in S : f[i] = g[i]
    PROVE  Somme(f, S) = Somme(g, S)
<1>1. Unites(f, S) = Unites(g, S)
  BY DEF Unites
<1> QED
  BY <1>1 DEF Somme

(* One more amount adds itself to the sum. *)
LEMMA SommeAjout ==
    ASSUME NEW S, IsFiniteSet(S), NEW f, NEW i, i \notin S,
           \A j \in S \cup {i} : f[j] \in Nat
    PROVE  Somme(f, S \cup {i}) = Somme(f, S) + f[i]
<1> DEFINE A == Unites(f, S)
           B == {i} \X (1 .. f[i])
<1>1. Unites(f, S \cup {i}) = A \cup B
  BY DEF Unites
<1>2. A \cap B = {}
  BY DEF Unites
<1>3. IsFiniteSet(A)
  BY UnitesFinies
<1>4. IsFiniteSet(B) /\ Cardinality(B) = f[i]
  <2>1. IsFiniteSet({i}) /\ Cardinality({i}) = 1
    BY FS_Singleton
  <2>2. IsFiniteSet(1 .. f[i]) /\ Cardinality(1 .. f[i]) = f[i]
    BY FS_Interval
  <2>3. IsFiniteSet(B) /\ Cardinality(B) = Cardinality({i}) * Cardinality(1 .. f[i])
    BY <2>1, <2>2, FS_Product
  <2> QED
    BY <2>1, <2>2, <2>3
<1>5. Cardinality(A \cup B) = Cardinality(A) + Cardinality(B) - Cardinality(A \cap B)
  <2> HIDE DEF A, B
  <2> QED
    BY <1>3, <1>4, FS_Union
<1>6. Cardinality(A) \in Nat
  BY <1>3, FS_CardinalityType
<1>7. Cardinality(A \cap B) = 0
  BY <1>2, FS_EmptySet
<1> HIDE DEF A, B
<1>8. Cardinality(A \cup B) = Cardinality(A) + f[i]
  BY <1>4, <1>5, <1>6, <1>7
<1> QED
  BY <1>1, <1>8 DEF Somme, A

-----------------------------------------------------------------------------
(* What is paid down on a proposal, from one table of pieces to the next.  *)

(* The state of payment and of insurance plays no part in it. *)
LEMMA CumulStable ==
    ASSUME NEW t, NEW u, NEW d,
           \A i \in Pieces : /\ t[i].nature = u[i].nature
                             /\ t[i].devis = u[i].devis
                             /\ t[i].montant = u[i].montant
    PROVE  Cumul(u, d) = Cumul(t, d)
<1>1. Rattachees(u, "acompte", d) = Rattachees(t, "acompte", d)
  BY DEF Rattachees
<1>2. \A i \in Rattachees(t, "acompte", d) : Montant(t)[i] = Montant(u)[i]
  BY DEF Rattachees, Montant
<1> QED
  BY <1>1, <1>2, SommeEgale DEF Cumul

LEMMA CumulNaturel ==
    ASSUME NEW t \in [Pieces -> Lignes], NEW d
    PROVE  Cumul(t, d) \in Nat
<1>1. IsFiniteSet(Rattachees(t, "acompte", d))
  BY MontantsEngages, FS_Subset DEF Rattachees
<1>2. \A i \in Rattachees(t, "acompte", d) : Montant(t)[i] \in Nat
  BY DEF Rattachees, Montant, Lignes
<1> QED
  BY <1>1, <1>2, SommeNaturelle DEF Cumul

(* A new row counts if it is a down payment on this proposal. *)
LEMMA CumulInsertion ==
    ASSUME NEW t \in [Pieces -> Lignes], NEW i \in Pieces, t[i].nature = "absente",
           NEW d, NEW u, u[i].montant \in Nat,
           \A j \in Pieces \ {i} : u[j] = t[j]
    PROVE  Cumul(u, d) = IF u[i].nature = "acompte" /\ u[i].devis = d
                           THEN Cumul(t, d) + u[i].montant ELSE Cumul(t, d)
<1> DEFINE S == Rattachees(t, "acompte", d)
<1>1. i \notin S
  BY DEF Rattachees
<1>2. \A j \in S : Montant(t)[j] \in Nat /\ Montant(u)[j] = Montant(t)[j]
  BY <1>1 DEF Rattachees, Montant, Lignes
<1>3. CASE u[i].nature = "acompte" /\ u[i].devis = d
  <2>1. Rattachees(u, "acompte", d) = S \cup {i}
    BY <1>3 DEF Rattachees
  <2>2. Montant(u)[i] = u[i].montant
    BY DEF Montant
  <2>3. IsFiniteSet(S)
    BY MontantsEngages, FS_Subset DEF Rattachees
  <2> HIDE DEF S
  <2>4. Montant(u)[i] \in Nat
    BY <2>2
  <2>5. \A j \in S \cup {i} : Montant(u)[j] \in Nat
    <3>1. \A j \in S : Montant(u)[j] \in Nat
      BY <1>2
    <3> QED
      BY <2>4, <3>1
  <2>6. Somme(Montant(u), S \cup {i}) = Somme(Montant(u), S) + Montant(u)[i]
    BY ONLY <1>1, <2>3, <2>5, SommeAjout
  <2>7. Somme(Montant(u), S) = Somme(Montant(t), S)
    BY <1>2, SommeEgale
  <2> QED
    BY <1>3, <2>1, <2>2, <2>6, <2>7 DEF Cumul, S
<1>4. CASE ~(u[i].nature = "acompte" /\ u[i].devis = d)
  <2>1. Rattachees(u, "acompte", d) = S
    BY <1>4, <1>1 DEF Rattachees
  <2> HIDE DEF S
  <2>2. Somme(Montant(u), S) = Somme(Montant(t), S)
    BY <1>2, SommeEgale
  <2> QED
    BY <1>4, <2>1, <2>2 DEF Cumul, S
<1> QED
  BY <1>3, <1>4

-----------------------------------------------------------------------------
(* Rows and totals are of the declared shape.                              *)

LEMMA LigneNaissante ==
    ASSUME NEW n \in Enregistrements, NEW d \in Perimetres, NEW m \in Nat
    PROVE  Naissante(n, d, m) \in Lignes
BY DEF Naissante, Lignes, Enregistrements

LEMMA LigneSuivante ==
    ASSUME NEW l \in Lignes, NEW o \in Transitions, NEW m \in Nat
    PROVE  /\ Apres(o, l, m) \in Lignes
           /\ Apres(o, l, m).nature = l.nature
           /\ Apres(o, l, m).devis = l.devis
           /\ Apres(o, l, m).montant = l.montant
BY DEF Apres, Lignes, Transitions

Bilans == [facture : Nat, paye : Nat, rembourse : Nat]

LEMMA TotalNaturel ==
    ASSUME NEW t \in [Pieces -> Lignes], NEW n, NEW d
    PROVE  Total(t, n, d) \in Bilans
<1> DEFINE S == Rattachees(t, n, d)
           P == {i \in S : t[i].paiement = "payee"}
<1>1. S \subseteq Pieces /\ P \subseteq Pieces
  BY DEF Rattachees
<1>2. IsFiniteSet(S) /\ IsFiniteSet(P)
  BY <1>1, MontantsEngages, FS_Subset
<1>3. \A i \in Pieces : Montant(t)[i] \in Nat /\ Indemnite(t)[i] \in Nat
  BY DEF Montant, Indemnite, Lignes
<1>4. Somme(Montant(t), S) \in Nat
  BY <1>1, <1>2, <1>3, SommeNaturelle
<1>5. Somme(Montant(t), P) \in Nat
  BY <1>1, <1>2, <1>3, SommeNaturelle
<1>6. Somme(Indemnite(t), S) \in Nat
  BY <1>1, <1>2, <1>3, SommeNaturelle
<1> QED
  BY <1>4, <1>5, <1>6 DEF Total, Bilans

LEMMA PlusNaturel ==
    ASSUME NEW a \in Bilans, NEW b \in Bilans
    PROVE  Plus(a, b) \in Bilans
BY DEF Plus, Bilans

LEMMA TotauxNaturels ==
    ASSUME NEW t \in [Pieces -> Lignes]
    PROVE  Totaux(t) \in [Perimetres -> Bilans]
BY TotalNaturel, PlusNaturel DEF Totaux

(* What is typed and what is written are of the declared shape: the part   *)
(* of TypeOK about Poser, the only writer of pieces.                       *)
LEMMA PoserType ==
    ASSUME TypeOK, NEW p \in Requetes, NEW i \in Pieces, NEW l \in Lignes,
           Poser(p, i, l), UNCHANGED locales
    PROVE  TypeOK'
<1>1. pieces' \in [Pieces -> Lignes] /\ version' \in [Pieces -> Nat]
  BY DEF TypeOK, Poser
<1>2. pc' \in [Requetes -> Pas] /\ reponse' \in [Requetes -> Reponses]
  BY DEF TypeOK, Poser, Repondre, Pas, Reponses
<1> QED
  BY <1>1, <1>2 DEF TypeOK, Poser, locales

(* A step that only answers or goes on to the next round trip. *)
LEMMA SautType ==
    ASSUME TypeOK, NEW p \in Requetes, UNCHANGED <<tables, locales>>,
           (\E e \in Pas : Aller(p, e)) \/ (\E r \in Reponses : Repondre(p, r))
    PROVE  TypeOK'
<1>1. pc' \in [Requetes -> Pas] /\ reponse' \in [Requetes -> Reponses]
  <2>1. pc \in [Requetes -> Pas] /\ reponse \in [Requetes -> Reponses] /\ "attente" \in Pas
    BY DEF TypeOK, Pas
  <2>2. CASE \E e \in Pas : Aller(p, e)
    BY <2>1, <2>2 DEF Aller
  <2>3. CASE \E r \in Reponses : Repondre(p, r)
    BY <2>1, <2>3 DEF Repondre
  <2> QED
    BY <2>2, <2>3
<1> QED
  BY <1>1 DEF TypeOK, tables, locales

LEMMA TypeInitial == Init => TypeOK
<1> SUFFICES ASSUME Init PROVE TypeOK
  OBVIOUS
<1>1. Nul \in Bilans
  BY DEF Nul, Bilans
<1>2. Absente \in Lignes
  BY DEF Absente, Lignes, Perimetres
<1>3. RienLu \in [ligne : Lignes, version : Nat]
  BY <1>2 DEF RienLu
<1>4. RienVu \in [retenus : SUBSET Devis, totaux : [Perimetres -> Bilans]]
  BY <1>1 DEF RienVu
<1> QED
  BY <1>1, <1>2, <1>3, <1>4 DEF Init, TypeOK, Bilans, Operations, Perimetres, Pas, Reponses

LEMMA RecevoirType ==
    ASSUME TypeOK, NEW p \in Requetes, NEW o \in Operations,
           NEW i \in Pieces \cup {Aucune}, NEW d \in Perimetres,
           NEW m \in Montants \cup {0}, NEW e \in Pas, Recevoir(p, o, i, d, m, e),
           UNCHANGED debut \/ debut' = [debut EXCEPT ![p] = Totaux(pieces)]
    PROVE  TypeOK'
<1>1. Absente \in Lignes
  BY DEF Absente, Lignes, Perimetres
<1>2. RienLu \in [ligne : Lignes, version : Nat]
  BY <1>1 DEF RienLu
<1>3. RienVu \in [retenus : SUBSET Devis, totaux : [Perimetres -> Bilans]]
  BY DEF RienVu, Nul, Bilans
<1>4. [devis |-> d, montant |-> m] \in [devis : Perimetres, montant : Montants \cup {0}]
  OBVIOUS
<1>5. op' \in [Requetes -> Operations] /\ cible' \in [Requetes -> Pieces \cup {Aucune}]
  BY DEF TypeOK, Recevoir
<1>6. saisie' \in [Requetes -> [devis : Perimetres, montant : Montants \cup {0}]]
  BY <1>4 DEF TypeOK, Recevoir
<1>7. lue' \in [Requetes -> [ligne : Lignes, version : Nat]]
  BY <1>2 DEF TypeOK, Recevoir
<1>8. vu' \in [Requetes -> [retenus : SUBSET Devis, totaux : [Perimetres -> Bilans]]]
  BY <1>3 DEF TypeOK, Recevoir, Bilans
<1>9. pc' \in [Requetes -> Pas] /\ reponse' \in [Requetes -> Reponses]
  BY DEF TypeOK, Recevoir, Reponses
<1>10. debut' \in [Requetes -> [Perimetres -> Bilans]]
  <2>1. Totaux(pieces) \in [Perimetres -> Bilans]
    BY TotauxNaturels DEF TypeOK
  <2> QED
    BY <2>1 DEF TypeOK, Bilans
<1>11. UNCHANGED <<retenus, pieces, version>>
  BY DEF Recevoir, tables
<1> QED
  BY <1>5, <1>6, <1>7, <1>8, <1>9, <1>10, <1>11 DEF TypeOK, Bilans

LEMMA LocalesType ==
    ASSUME TypeOK, NEW p \in Requetes
    PROVE  /\ saisie[p].devis \in Perimetres
           /\ saisie[p].montant \in Nat
           /\ lue[p].ligne \in Lignes
           /\ lue[p].version \in Nat
<1>1. saisie[p] \in [devis : Perimetres, montant : Montants \cup {0}]
  BY DEF TypeOK
<1>2. saisie[p].montant \in Montants \cup {0}
  BY <1>1
<1>3. Montants \cup {0} \subseteq Nat
  BY MontantsEngages
<1>4. lue[p] \in [ligne : Lignes, version : Nat]
  BY DEF TypeOK
<1> QED
  BY <1>1, <1>2, <1>3, <1>4

LEMMA TypeSuivant == TypeOK /\ Coherence /\ [Next]_vars => TypeOK'
<1> SUFFICES ASSUME TypeOK, Coherence, [Next]_vars PROVE TypeOK'
  OBVIOUS
<1>1. ASSUME NEW p \in Requetes, RecevoirPiece(p) PROVE TypeOK'
  BY <1>1, RecevoirType DEF RecevoirPiece, Operations, Enregistrements, Pas
<1>2. ASSUME NEW p \in Requetes, RecevoirTransition(p) PROVE TypeOK'
  <2>1. HorsDevis \in Perimetres /\ "lire" \in Pas
    BY DEF Perimetres, Pas
  <2> QED
    BY <1>2, <2>1, RecevoirType DEF RecevoirTransition, Operations
<1>3. ASSUME NEW p \in Requetes, RecevoirSynthese(p) PROVE TypeOK'
  <2>1. HorsDevis \in Perimetres /\ "lire_retenus" \in Pas /\ "synthese" \in Operations
    BY DEF Perimetres, Pas, Operations
  <2>2. 0 \in Montants \cup {0} /\ Aucune \in Pieces \cup {Aucune}
    OBVIOUS
  <2>3. Recevoir(p, "synthese", Aucune, HorsDevis, 0, "lire_retenus")
    BY <1>3 DEF RecevoirSynthese
  <2>4. debut' = [debut EXCEPT ![p] = Totaux(pieces)]
    BY <1>3 DEF RecevoirSynthese
  <2> QED
    BY <2>1, <2>2, <2>3, <2>4, RecevoirType
<1>4. ASSUME NEW d \in Devis, Retenir(d) PROVE TypeOK'
  BY <1>4 DEF Retenir, TypeOK, locales
<1>5. ASSUME NEW p \in Requetes,
             \/ Resoudre(p) \/ Cumuler(p) \/ Verrouiller(p) \/ Relire(p)
             \/ Inserer(p) \/ Expliquer(p) \/ Abandonner(p)
      PROVE TypeOK'
  <2>1. UNCHANGED <<tables, locales>>
    BY <1>5 DEF Resoudre, Cumuler, Verrouiller, Relire, Inserer, Expliquer, Abandonner
  <2>2. (\E e \in Pas : Aller(p, e)) \/ (\E r \in Reponses : Repondre(p, r))
    BY <1>5 DEF Resoudre, Cumuler, Verrouiller, Relire, Inserer, Expliquer, Abandonner,
                Pas, SousVerrou, Reponses
  <2> QED
    BY <2>1, <2>2, SautType
<1>6. ASSUME NEW p \in Requetes, InsererSeul(p) \/ Valider(p) PROVE TypeOK'
  <2>1. pc[p] \in PasResolu /\ Enregistre(p)
    BY <1>6 DEF InsererSeul, Valider, PasResolu, SousVerrou, Enregistre
  <2>2. op[p] \in Enregistrements /\ cible[p] \in Pieces
    BY <2>1 DEF Coherence, Fraicheur
  <2>3. saisie[p].devis \in Perimetres /\ saisie[p].montant \in Nat
    BY LocalesType
  <2>4. LigneSaisie(p) \in Lignes
    BY <2>2, <2>3, LigneNaissante DEF LigneSaisie
  <2>5. Poser(p, cible[p], LigneSaisie(p)) /\ UNCHANGED locales
    BY <1>6 DEF InsererSeul, Valider
  <2> QED
    BY <2>2, <2>4, <2>5, PoserType
<1>7. ASSUME NEW p \in Requetes, Lire(p) PROVE TypeOK'
  <2>1. cible[p] \in Pieces
    BY <1>7 DEF Lire, Coherence, Garde
  <2>2. [ligne |-> pieces[cible[p]], version |-> version[cible[p]]] \in [ligne : Lignes, version : Nat]
    BY <2>1 DEF TypeOK
  <2>3. lue' \in [Requetes -> [ligne : Lignes, version : Nat]]
    BY <1>7, <2>2 DEF Lire, TypeOK
  <2>4. pc' \in [Requetes -> Pas] /\ reponse' \in [Requetes -> Reponses]
    BY <1>7 DEF Lire, Aller, Repondre, TypeOK, Pas, Reponses
  <2>5. UNCHANGED <<tables, op, cible, saisie, vu, debut>>
    BY <1>7 DEF Lire
  <2> QED
    BY <2>3, <2>4, <2>5 DEF TypeOK, tables
<1>8. ASSUME NEW p \in Requetes, Ecrire(p) PROVE TypeOK'
  <2>1. op[p] \in Transitions /\ cible[p] \in Pieces
    BY <1>8 DEF Ecrire, Coherence, Garde
  <2>2. CASE UNCHANGED tables /\ Aller(p, "expliquer")
    <3>1. UNCHANGED <<tables, locales>>
      BY <1>8, <2>2 DEF Ecrire
    <3>2. "expliquer" \in Pas
      BY DEF Pas
    <3> QED
      BY <2>2, <3>1, <3>2, SautType
  <2>3. CASE Poser(p, cible[p], Apres(op[p], lue[p].ligne, saisie[p].montant))
    <3>1. lue[p].ligne \in Lignes /\ saisie[p].montant \in Nat
      BY LocalesType
    <3>2. Apres(op[p], lue[p].ligne, saisie[p].montant) \in Lignes
      BY <2>1, <3>1, LigneSuivante
    <3>3. UNCHANGED locales
      BY <1>8 DEF Ecrire
    <3> QED
      BY <2>1, <2>3, <3>2, <3>3, PoserType
  <2> QED
    BY <1>8, <2>2, <2>3 DEF Ecrire
<1>9. ASSUME NEW p \in Requetes, LireRetenus(p) \/ LireFactures(p) \/ LireAcomptes(p)
      PROVE TypeOK'
  <2>1. \A n, d : Total(pieces, n, d) \in Bilans
    BY TotalNaturel DEF TypeOK
  <2>2. vu' \in [Requetes -> [retenus : SUBSET Devis, totaux : [Perimetres -> Bilans]]]
    <3>1. CASE LireRetenus(p)
      BY <3>1 DEF LireRetenus, TypeOK, Bilans
    <3>2. CASE LireFactures(p)
      BY <3>2, <2>1 DEF LireFactures, TypeOK, Bilans
    <3>3. CASE LireAcomptes(p)
      <4>1. \A d \in Perimetres : vu[p].totaux[d] \in Bilans
        BY DEF TypeOK, Bilans
      <4>2. \A d \in Perimetres : Plus(vu[p].totaux[d], Total(pieces, "acompte", d)) \in Bilans
        BY <2>1, <4>1, PlusNaturel
      <4> QED
        BY <3>3, <4>2 DEF LireAcomptes, TypeOK, Bilans
    <3> QED
      BY <1>9, <3>1, <3>2, <3>3
  <2>3. pc' \in [Requetes -> Pas] /\ reponse' \in [Requetes -> Reponses]
    BY <1>9 DEF LireRetenus, LireFactures, LireAcomptes, Aller, Repondre, TypeOK, Pas, Reponses
  <2>4. UNCHANGED <<tables, op, cible, saisie, lue, debut>>
    BY <1>9 DEF LireRetenus, LireFactures, LireAcomptes
  <2> QED
    BY <2>2, <2>3, <2>4 DEF TypeOK, tables, Bilans
<1>10. CASE UNCHANGED vars
  BY <1>10 DEF TypeOK, vars, tables, locales
<1> QED
  BY <1>1, <1>2, <1>3, <1>4, <1>5, <1>6, <1>7, <1>8, <1>9, <1>10 DEF Next, Etape, Repos

-----------------------------------------------------------------------------
(* The parts of Coherence, step by step.                                   *)

(* A request that goes on, or answers, without writing anything. *)
LEMMA CoherenceSaut ==
    ASSUME TypeOK, Coherence, NEW p \in Requetes,
           \/ Resoudre(p) \/ Cumuler(p) \/ Verrouiller(p) \/ Relire(p)
           \/ Inserer(p) \/ Expliquer(p) \/ Abandonner(p)
    PROVE  Coherence'
<1>1. UNCHANGED <<tables, locales>>
  BY DEF Resoudre, Cumuler, Verrouiller, Relire, Inserer, Expliquer, Abandonner
<1>2. \A r \in Requetes \ {p} : pc'[r] = pc[r]
  BY DEF Resoudre, Cumuler, Verrouiller, Relire, Inserer, Expliquer, Abandonner,
         Aller, Repondre, TypeOK
<1>3. \/ pc'[p] = "attente"
      \/ Resoudre(p) /\ pc'[p] \in {"inserer_seul", "cumuler"}
      \/ Cumuler(p) /\ pc'[p] = "verrouiller"
      \/ Verrouiller(p) /\ pc'[p] = "relire"
      \/ Relire(p) /\ pc'[p] = "inserer"
      \/ Inserer(p) /\ pc'[p] = "valider"
  BY DEF Resoudre, Cumuler, Verrouiller, Relire, Inserer, Expliquer, Abandonner,
         Aller, Repondre, TypeOK
<1>4. Enregistre(p)' => Enregistre(p)
  BY <1>3 DEF Enregistre, PasResolu, SousVerrou, Resoudre, Cumuler, Verrouiller, Relire, Inserer
<1>5. \A r \in Requetes \ {p} : Enregistre(r)' = Enregistre(r)
  BY <1>2 DEF Enregistre
<1>6. Vierges'
  BY <1>1 DEF Coherence, Vierges, tables
<1>7. Fraicheur'
  BY <1>1, <1>4, <1>5 DEF Coherence, Fraicheur, tables, locales
<1>8. Resolution'
  <2>1. UNCHANGED <<op, saisie, retenus>>
    BY <1>1 DEF tables, locales
  <2>2. CASE pc'[p] = "attente"
    BY <2>1, <2>2, <1>2 DEF Coherence, Resolution, PasResolu, PasEngage, SousVerrou
  <2>3. CASE Resoudre(p) /\ pc'[p] \in {"inserer_seul", "cumuler"}
    <3>1. /\ saisie[p].devis \in retenus \cup {HorsDevis} /\ saisie[p].montant > 0
          /\ pc'[p] = IF op[p] = "facture" \/ saisie[p].devis = HorsDevis
                      THEN "inserer_seul" ELSE "cumuler"
      BY <2>3, LocalesType DEF Resoudre, Aller, Repondre, TypeOK
    <3>2. op[p] \in Enregistrements
      BY <2>3 DEF Resoudre, Coherence, Fraicheur, Enregistre
    <3>3. retenus \subseteq Devis
      BY DEF TypeOK
    <3> QED
      BY <2>1, <1>2, <3>1, <3>2, <3>3
      DEF Coherence, Resolution, PasResolu, PasEngage, SousVerrou, Enregistrements
  <2>4. CASE \/ Cumuler(p) /\ pc'[p] = "verrouiller"
             \/ Verrouiller(p) /\ pc'[p] = "relire"
             \/ Relire(p) /\ pc'[p] = "inserer"
             \/ Inserer(p) /\ pc'[p] = "valider"
    <3>1. pc[p] \in PasResolu /\ pc[p] \in PasEngage /\ pc'[p] # "inserer_seul"
      BY <2>4 DEF Cumuler, Verrouiller, Relire, Inserer, PasResolu, PasEngage, SousVerrou
    <3> QED
      BY <2>1, <1>2, <3>1 DEF Coherence, Resolution
  <2> QED
    BY <1>3, <2>2, <2>3, <2>4
<1>9. Exclusion'
  <2>1. UNCHANGED <<op, saisie, pieces>>
    BY <1>1 DEF tables, locales
  <2>2. \A r \in Requetes : Tient(r)' = Tient(r)
    BY <2>1 DEF Tient
  <2>3. CASE pc'[p] \notin SousVerrou
    BY <2>1, <2>2, <2>3, <1>2 DEF Coherence, Exclusion, SousVerrou
  <2>4. CASE Verrouiller(p) /\ pc'[p] = "relire"
    <3>1. \A r \in Requetes : pc[r] \in SousVerrou => saisie[r].devis # saisie[p].devis
      BY <2>4 DEF Verrouiller
    <3> QED
      BY <2>1, <2>2, <2>4, <3>1, <1>2 DEF Coherence, Exclusion, SousVerrou
  <2>5. CASE Relire(p) /\ pc'[p] = "inserer"
    <3>1. pc[p] \in SousVerrou /\ Tient(p)
      BY <2>5 DEF Relire, SousVerrou, Aller, Repondre, TypeOK
    <3> QED
      BY <2>1, <2>2, <2>5, <3>1, <1>2 DEF Coherence, Exclusion, SousVerrou
  <2>6. CASE Inserer(p) /\ pc'[p] = "valider"
    <3>1. pc[p] \in SousVerrou /\ Tient(p)
      BY <2>6 DEF Inserer, SousVerrou, Coherence, Exclusion
    <3> QED
      BY <2>1, <2>2, <2>6, <3>1, <1>2 DEF Coherence, Exclusion, SousVerrou
  <2> QED
    BY <1>3, <2>3, <2>4, <2>5, <2>6 DEF SousVerrou
<1>10. Garde'
  <2>1. pc'[p] \notin {"lire", "ecrire", "expliquer"}
    BY <1>3
  <2> QED
    BY <1>1, <1>2, <2>1 DEF Coherence, Garde, tables, locales
<1> QED
  BY <1>6, <1>7, <1>8, <1>9, <1>10 DEF Coherence

(* The reads of the summary, and the retention of a proposal. *)
LEMMA CoherenceSynthese ==
    ASSUME TypeOK, Coherence, NEW p \in Requetes,
           LireRetenus(p) \/ LireFactures(p) \/ LireAcomptes(p)
    PROVE  Coherence'
<1>1. UNCHANGED <<retenus, pieces, version, op, cible, saisie, lue>>
  BY DEF LireRetenus, LireFactures, LireAcomptes, tables
<1>2. \A r \in Requetes \ {p} : pc'[r] = pc[r]
  BY DEF LireRetenus, LireFactures, LireAcomptes, Aller, Repondre, TypeOK
<1>3. pc'[p] \in {"attente", "lire_factures", "lire_acomptes"}
  BY DEF LireRetenus, LireFactures, LireAcomptes, Aller, Repondre, TypeOK
<1>4. \A r \in Requetes : Enregistre(r)' => Enregistre(r)
  BY <1>2, <1>3 DEF Enregistre, PasResolu, SousVerrou
<1>5. \A r \in Requetes : Tient(r)' = Tient(r)
  BY <1>1 DEF Tient
<1>6. Vierges'
  BY <1>1 DEF Coherence, Vierges
<1>7. Fraicheur'
  BY <1>1, <1>4 DEF Coherence, Fraicheur
<1>8. Resolution'
  BY <1>1, <1>2, <1>3 DEF Coherence, Resolution, PasResolu, PasEngage, SousVerrou
<1>9. Exclusion'
  BY <1>1, <1>2, <1>3, <1>5 DEF Coherence, Exclusion, SousVerrou
<1>10. Garde'
  BY <1>1, <1>2, <1>3 DEF Coherence, Garde
<1> QED
  BY <1>6, <1>7, <1>8, <1>9, <1>10 DEF Coherence

LEMMA CoherenceRetenir ==
    ASSUME TypeOK, Coherence, NEW d \in Devis, Retenir(d)
    PROVE  Coherence'
<1>1. UNCHANGED <<pieces, version, op, cible, saisie, lue, pc>> /\ retenus \subseteq retenus'
  BY DEF Retenir, locales
<1>2. \A r \in Requetes : Tient(r)' = Tient(r) /\ Enregistre(r)' = Enregistre(r)
  BY <1>1 DEF Tient, Enregistre
<1>3. Vierges' /\ Fraicheur'
  BY <1>1, <1>2 DEF Coherence, Vierges, Fraicheur
<1>4. Resolution'
  BY <1>1 DEF Coherence, Resolution
<1>5. Exclusion'
  BY <1>1, <1>2 DEF Coherence, Exclusion
<1>6. Garde'
  BY <1>1 DEF Coherence, Garde
<1> QED
  BY <1>3, <1>4, <1>5, <1>6 DEF Coherence

(* A request comes in. *)
LEMMA CoherenceRecevoir ==
    ASSUME TypeOK, Coherence, NEW p \in Requetes,
           RecevoirPiece(p) \/ RecevoirTransition(p) \/ RecevoirSynthese(p)
    PROVE  Coherence'
<1>1. PICK o \in Operations, i \in Pieces \cup {Aucune}, d \in Perimetres,
           m \in Montants \cup {0}, e \in {"resoudre", "lire", "lire_retenus"} :
        /\ Recevoir(p, o, i, d, m, e)
        /\ e = "resoudre" => o \in Enregistrements /\ i \in Pieces /\ Fraiche(i)
        /\ e = "lire" => o \in Transitions /\ i \in Pieces
  <2>1. HorsDevis \in Perimetres
    BY DEF Perimetres
  <2>2. CASE RecevoirPiece(p)
    BY <2>2 DEF RecevoirPiece, Operations
  <2>3. CASE RecevoirTransition(p)
    BY <2>1, <2>3 DEF RecevoirTransition, Operations
  <2>4. CASE RecevoirSynthese(p)
    <3>1. Recevoir(p, "synthese", Aucune, HorsDevis, 0, "lire_retenus")
      BY <2>4 DEF RecevoirSynthese
    <3>2. "synthese" \in Operations /\ 0 \in Montants \cup {0} /\ Aucune \in Pieces \cup {Aucune}
      BY DEF Operations
    <3> QED
      BY <2>1, <3>1, <3>2
  <2> QED
    BY <2>2, <2>3, <2>4
<1>2. /\ UNCHANGED <<retenus, pieces, version>>
      /\ pc[p] = "attente" /\ pc'[p] = e /\ op'[p] = o /\ cible'[p] = i
      /\ \A r \in Requetes \ {p} :
            /\ pc'[r] = pc[r] /\ op'[r] = op[r] /\ cible'[r] = cible[r]
            /\ saisie'[r] = saisie[r] /\ lue'[r] = lue[r]
  BY <1>1 DEF Recevoir, TypeOK, tables
<1>3. \A r \in Requetes \ {p} : Tient(r)' = Tient(r) /\ Enregistre(r)' = Enregistre(r)
  BY <1>2 DEF Tient, Enregistre
<1>4. pc'[p] \notin PasResolu /\ pc'[p] \notin PasEngage /\ pc'[p] \notin SousVerrou
  BY <1>2 DEF PasResolu, PasEngage, SousVerrou
<1>5. Vierges'
  BY <1>2 DEF Coherence, Vierges
<1>6. Fraicheur'
  <2>1. Enregistre(p)' =>
           /\ o \in Enregistrements /\ i \in Pieces /\ Fraiche(i)
    BY <1>1, <1>2, <1>4 DEF Enregistre
  <2>2. \A r \in Requetes \ {p} : Enregistre(p)' /\ Enregistre(r)' => cible'[r] # cible'[p]
    <3> SUFFICES ASSUME NEW r \in Requetes \ {p}, Enregistre(p)', Enregistre(r)'
                 PROVE  cible'[r] # cible'[p]
      OBVIOUS
    <3>1. Enregistre(r)
      BY <1>3
    <3>2. pc[r] # "attente"
      BY <3>1 DEF Enregistre, PasResolu, SousVerrou
    <3>3. op[r] \in Enregistrements
      BY <3>1 DEF Coherence, Fraicheur
    <3>4. cible[r] # i
      BY <2>1, <3>2, <3>3 DEF Fraiche
    <3> QED
      BY <1>2, <3>4
  <2>3. Enregistre(p)' => pieces'[i].nature = "absente"
    BY <1>2, <2>1 DEF Fraiche
  <2> QED
    BY <1>2, <1>3, <2>1, <2>2, <2>3 DEF Coherence, Fraicheur
<1>7. Resolution'
  BY <1>2, <1>4 DEF Coherence, Resolution, PasResolu
<1>8. Exclusion'
  BY <1>2, <1>3, <1>4 DEF Coherence, Exclusion, SousVerrou
<1>9. Garde'
  BY <1>1, <1>2 DEF Coherence, Garde
<1> QED
  BY <1>5, <1>6, <1>7, <1>8, <1>9 DEF Coherence

(* updateFacture reads the row. *)
LEMMA CoherenceLire ==
    ASSUME TypeOK, Coherence, NEW p \in Requetes, Lire(p)
    PROVE  Coherence'
<1>1. UNCHANGED <<retenus, pieces, version, op, cible, saisie>>
  BY DEF Lire, tables
<1>2. \A r \in Requetes \ {p} : pc'[r] = pc[r] /\ lue'[r] = lue[r]
  BY DEF Lire, Aller, Repondre, TypeOK
<1>3. pc'[p] \in {"attente", "ecrire"}
  BY DEF Lire, Aller, Repondre, TypeOK
<1>4. \A r \in Requetes : Enregistre(r)' => Enregistre(r)
  BY <1>2, <1>3 DEF Enregistre, PasResolu, SousVerrou
<1>5. \A r \in Requetes : Tient(r)' = Tient(r)
  BY <1>1 DEF Tient
<1>6. Vierges' /\ Fraicheur'
  BY <1>1, <1>4 DEF Coherence, Vierges, Fraicheur
<1>7. Resolution'
  BY <1>1, <1>2, <1>3 DEF Coherence, Resolution, PasResolu, PasEngage, SousVerrou
<1>8. Exclusion'
  BY <1>1, <1>2, <1>3, <1>5 DEF Coherence, Exclusion, SousVerrou
<1>9. Garde'
  <2>1. op[p] \in Transitions /\ cible[p] \in Pieces
    BY DEF Lire, Coherence, Garde
  <2>2. pc'[p] = "ecrire" =>
          /\ lue'[p].ligne = pieces[cible[p]] /\ lue'[p].version = version[cible[p]]
          /\ Permet(op[p], pieces[cible[p]], saisie[p].montant)
          /\ Connue(p)
    BY DEF Lire, Aller, Repondre, TypeOK
  <2>3. version[cible[p]] \in Nat
    BY <2>1 DEF TypeOK
  <2> QED
    BY <1>1, <1>2, <1>3, <2>1, <2>2, <2>3 DEF Coherence, Garde, Connue
<1> QED
  BY <1>6, <1>7, <1>8, <1>9 DEF Coherence

-----------------------------------------------------------------------------
(* The steps that write.                                                   *)

(* What an insertion does to the tables. *)
LEMMA Insertion ==
    ASSUME TypeOK, Coherence, NEW p \in Requetes, InsererSeul(p) \/ Valider(p)
    PROVE  /\ Enregistre(p)
           /\ op[p] \in Enregistrements
           /\ cible[p] \in Pieces
           /\ pieces[cible[p]].nature = "absente"
           /\ saisie[p].devis \in retenus \cup {HorsDevis}
           /\ saisie[p].devis \in Perimetres
           /\ saisie[p].montant \in Nat /\ saisie[p].montant > 0
           /\ pieces' = [pieces EXCEPT ![cible[p]] =
                            Naissante(op[p], saisie[p].devis, saisie[p].montant)]
           /\ version' = [version EXCEPT ![cible[p]] = @ + 1]
           /\ UNCHANGED <<retenus, op, cible, saisie, lue>>
           /\ pc' = [pc EXCEPT ![p] = "attente"]
           /\ \A d \in Devis : Cumul(pieces', d) =
                 IF op[p] = "acompte" /\ saisie[p].devis = d
                 THEN Cumul(pieces, d) + saisie[p].montant ELSE Cumul(pieces, d)
           /\ InsererSeul(p) => \A d \in Devis : Cumul(pieces', d) = Cumul(pieces, d)
<1>1. pc[p] \in PasResolu /\ Enregistre(p)
  BY DEF InsererSeul, Valider, PasResolu, SousVerrou, Enregistre
<1>2. op[p] \in Enregistrements /\ cible[p] \in Pieces /\ pieces[cible[p]].nature = "absente"
  BY <1>1 DEF Coherence, Fraicheur
<1>3. /\ saisie[p].devis \in retenus \cup {HorsDevis} /\ saisie[p].montant > 0
      /\ saisie[p].devis \in Perimetres /\ saisie[p].montant \in Nat
  BY <1>1, LocalesType DEF Coherence, Resolution
<1>4. Poser(p, cible[p], LigneSaisie(p)) /\ UNCHANGED locales
  BY DEF InsererSeul, Valider
<1>5. /\ pieces' = [pieces EXCEPT ![cible[p]] =
                       Naissante(op[p], saisie[p].devis, saisie[p].montant)]
      /\ version' = [version EXCEPT ![cible[p]] = @ + 1]
      /\ UNCHANGED <<retenus, op, cible, saisie, lue>>
      /\ pc' = [pc EXCEPT ![p] = "attente"]
  BY <1>4 DEF Poser, Repondre, LigneSaisie, locales
<1>6. ASSUME NEW d \in Devis
      PROVE  Cumul(pieces', d) = IF op[p] = "acompte" /\ saisie[p].devis = d
                                 THEN Cumul(pieces, d) + saisie[p].montant
                                 ELSE Cumul(pieces, d)
  <2>1. pieces \in [Pieces -> Lignes]
    BY DEF TypeOK
  <2> DEFINE i == cible[p]
  <2>2. /\ pieces'[i].nature = op[p]
        /\ pieces'[i].devis = saisie[p].devis
        /\ pieces'[i].montant = saisie[p].montant
        /\ \A j \in Pieces \ {i} : pieces'[j] = pieces[j]
    BY <1>2, <1>5, <2>1 DEF Naissante
  <2>3. i \in Pieces /\ pieces[i].nature = "absente" /\ pieces'[i].montant \in Nat
    BY <1>2, <1>3, <2>2
  <2> HIDE DEF i
  <2>4. Cumul(pieces', d) = IF pieces'[i].nature = "acompte" /\ pieces'[i].devis = d
                            THEN Cumul(pieces, d) + pieces'[i].montant ELSE Cumul(pieces, d)
    BY ONLY <2>1, <2>2, <2>3, CumulInsertion
  <2> QED
    BY <2>2, <2>4
<1>7. ASSUME NEW d \in Devis, InsererSeul(p) PROVE ~(op[p] = "acompte" /\ saisie[p].devis = d)
  BY <1>7, MontantsEngages DEF InsererSeul, Coherence, Resolution, Enregistrements
<1> QED
  BY <1>1, <1>2, <1>3, <1>5, <1>6, <1>7

LEMMA CoherenceInsertion ==
    ASSUME TypeOK, Coherence, NEW p \in Requetes, InsererSeul(p) \/ Valider(p)
    PROVE  Coherence'
<1> DEFINE c == cible[p]
<1>1. /\ Enregistre(p) /\ op[p] \in Enregistrements
      /\ c \in Pieces /\ pieces[c].nature = "absente"
      /\ UNCHANGED <<retenus, op, cible, saisie, lue>>
  BY Insertion
<1>2. /\ pieces'[c] = Naissante(op[p], saisie[p].devis, saisie[p].montant)
      /\ \A i \in Pieces \ {c} : pieces'[i] = pieces[i]
      /\ version'[c] = version[c] + 1
      /\ \A i \in Pieces \ {c} : version'[i] = version[i]
      /\ \A i \in Pieces : version[i] \in Nat
  BY <1>1, Insertion DEF TypeOK
<1>3. pc'[p] = "attente" /\ \A r \in Requetes \ {p} : pc'[r] = pc[r]
  BY Insertion DEF TypeOK
<1>4. pieces'[c].nature \in Enregistrements /\ "absente" \notin Enregistrements
  BY <1>1, <1>2 DEF Naissante, Enregistrements
<1>5. ~Enregistre(p)' /\ \A r \in Requetes \ {p} : Enregistre(r)' = Enregistre(r)
  BY <1>3 DEF Enregistre, PasResolu, SousVerrou
<1>6. Vierges'
  BY <1>2, <1>4 DEF Coherence, Vierges
<1>7. Fraicheur'
  <2>1. \A r \in Requetes \ {p} : Enregistre(r) => cible[r] \in Pieces \ {c}
    BY <1>1 DEF Coherence, Fraicheur
  <2> QED
    BY <1>1, <1>2, <1>5, <2>1 DEF Coherence, Fraicheur
<1>8. Resolution'
  BY <1>1, <1>3 DEF Coherence, Resolution, PasResolu, PasEngage, SousVerrou
<1>9. Exclusion'
  <2>1. ASSUME NEW r \in Requetes \ {p}, pc[r] \in {"inserer", "valider"} PROVE Tient(r)'
    <3>1. pc[r] \in SousVerrou /\ pc[r] \in PasEngage /\ Tient(r)
      BY <2>1 DEF SousVerrou, PasEngage, Coherence, Exclusion
    <3>2. saisie[r].devis \in Devis
      BY <3>1 DEF Coherence, Resolution
    <3>3. saisie[r].devis # saisie[p].devis \/ InsererSeul(p)
      BY <3>1 DEF Valider, SousVerrou, Coherence, Exclusion
    <3>4. Cumul(pieces', saisie[r].devis) = Cumul(pieces, saisie[r].devis)
      BY <3>2, <3>3, Insertion
    <3> QED
      BY <1>1, <3>1, <3>4 DEF Tient
  <2> QED
    BY <1>1, <1>3, <2>1 DEF Coherence, Exclusion, SousVerrou
<1>10. Garde'
  <2>1. ASSUME NEW r \in Requetes \ {p}, pc[r] = "ecrire"
        PROVE  /\ version'[cible[r]] >= lue[r].version
               /\ version'[cible[r]] = lue[r].version => pieces'[cible[r]] = lue[r].ligne
    <3>1. /\ cible[r] \in Pieces
          /\ version[cible[r]] >= lue[r].version
          /\ version[cible[r]] = lue[r].version => pieces[cible[r]] = lue[r].ligne
          /\ lue[r].ligne.nature # "absente"
      BY <2>1 DEF Coherence, Garde
    <3>2. lue[r].version \in Nat
      BY LocalesType
    <3> QED
      BY <1>1, <1>2, <3>1, <3>2
  <2>2. ASSUME NEW r \in Requetes \ {p}, pc[r] = "expliquer"
        PROVE  version'[cible[r]] > lue[r].version
    <3>1. cible[r] \in Pieces /\ version[cible[r]] > lue[r].version
      BY <2>2 DEF Coherence, Garde
    <3>2. lue[r].version \in Nat
      BY LocalesType
    <3> QED
      BY <1>2, <3>1, <3>2
  <2> QED
    BY <1>1, <1>3, <2>1, <2>2 DEF Coherence, Garde
<1> QED
  BY <1>6, <1>7, <1>8, <1>9, <1>10 DEF Coherence

(* What a transition writes: the row is the one that was read, so it moves *)
(* by that transition only. *)
LEMMA Transition ==
    ASSUME TypeOK, Coherence, NEW p \in Requetes, Ecrire(p),
           version[cible[p]] = lue[p].version
    PROVE  /\ cible[p] \in Pieces
           /\ op[p] \in Transitions
           /\ Permet(op[p], pieces[cible[p]], saisie[p].montant)
           /\ \/ pieces[cible[p]].nature = "facture"
              \/ pieces[cible[p]].nature = "acompte" /\ op[p] # "payer"
           /\ pieces' = [pieces EXCEPT ![cible[p]] =
                            Apres(op[p], pieces[cible[p]], saisie[p].montant)]
           /\ version' = [version EXCEPT ![cible[p]] = @ + 1]
           /\ UNCHANGED <<retenus, op, cible, saisie, lue>>
           /\ pc' = [pc EXCEPT ![p] = "attente"]
           /\ \A i \in Pieces : /\ pieces'[i].nature = pieces[i].nature
                                 /\ pieces'[i].devis = pieces[i].devis
                                 /\ pieces'[i].montant = pieces[i].montant
<1>1. /\ cible[p] \in Pieces /\ op[p] \in Transitions
      /\ Permet(op[p], lue[p].ligne, saisie[p].montant)
      /\ \/ lue[p].ligne.nature = "facture"
         \/ lue[p].ligne.nature = "acompte" /\ op[p] # "payer"
      /\ pieces[cible[p]] = lue[p].ligne
  BY DEF Ecrire, Coherence, Garde
<1>2. Poser(p, cible[p], Apres(op[p], lue[p].ligne, saisie[p].montant)) /\ UNCHANGED locales
  BY DEF Ecrire
<1>3. /\ pieces' = [pieces EXCEPT ![cible[p]] =
                       Apres(op[p], pieces[cible[p]], saisie[p].montant)]
      /\ version' = [version EXCEPT ![cible[p]] = @ + 1]
      /\ UNCHANGED <<retenus, op, cible, saisie, lue>>
      /\ pc' = [pc EXCEPT ![p] = "attente"]
  BY <1>1, <1>2 DEF Poser, Repondre, locales
<1>4. pieces[cible[p]] \in Lignes /\ saisie[p].montant \in Nat
  BY <1>1, LocalesType DEF TypeOK
<1>5. /\ Apres(op[p], pieces[cible[p]], saisie[p].montant).nature = pieces[cible[p]].nature
      /\ Apres(op[p], pieces[cible[p]], saisie[p].montant).devis = pieces[cible[p]].devis
      /\ Apres(op[p], pieces[cible[p]], saisie[p].montant).montant = pieces[cible[p]].montant
  BY <1>1, <1>4, LigneSuivante
<1>6. \A i \in Pieces : /\ pieces'[i].nature = pieces[i].nature
                        /\ pieces'[i].devis = pieces[i].devis
                        /\ pieces'[i].montant = pieces[i].montant
  BY <1>1, <1>3, <1>5 DEF TypeOK
<1> QED
  BY <1>1, <1>3, <1>6

LEMMA CoherenceEcrire ==
    ASSUME TypeOK, Coherence, NEW p \in Requetes, Ecrire(p)
    PROVE  Coherence'
<1> DEFINE c == cible[p]
<1>1. pc[p] = "ecrire" /\ c \in Pieces /\ op[p] \in Transitions
      /\ version[c] >= lue[p].version /\ version[c] \in Nat /\ lue[p].version \in Nat
  BY LocalesType DEF Ecrire, Coherence, Garde, TypeOK
<1>2. CASE version[c] # lue[p].version
  <2>1. UNCHANGED <<tables, locales>> /\ pc' = [pc EXCEPT ![p] = "expliquer"]
    BY <1>2 DEF Ecrire, Aller
  <2>2. pc'[p] = "expliquer" /\ \A r \in Requetes \ {p} : pc'[r] = pc[r]
    BY <2>1 DEF TypeOK
  <2>3. \A r \in Requetes : (Enregistre(r)' => Enregistre(r)) /\ Tient(r)' = Tient(r)
    BY <2>1, <2>2 DEF Enregistre, PasResolu, SousVerrou, Tient, tables, locales
  <2>4. Vierges' /\ Fraicheur'
    BY <2>1, <2>3 DEF Coherence, Vierges, Fraicheur, tables, locales
  <2>5. Resolution'
    BY <2>1, <2>2 DEF Coherence, Resolution, PasResolu, PasEngage, SousVerrou, tables, locales
  <2>6. Exclusion'
    BY <2>1, <2>2, <2>3 DEF Coherence, Exclusion, SousVerrou, tables, locales
  <2>7. Garde'
    BY <1>1, <1>2, <2>1, <2>2 DEF Coherence, Garde, tables, locales
  <2> QED
    BY <2>4, <2>5, <2>6, <2>7 DEF Coherence
<1>3. CASE version[c] = lue[p].version
  <2>1. /\ UNCHANGED <<retenus, op, cible, saisie, lue>>
        /\ \A i \in Pieces : pieces'[i].nature = pieces[i].nature
        /\ \A i \in Pieces \ {c} : pieces'[i] = pieces[i] /\ version'[i] = version[i]
        /\ version'[c] = version[c] + 1
        /\ pieces[c].nature # "absente"
    <3>1. pieces \in [Pieces -> Lignes] /\ version \in [Pieces -> Nat]
      BY DEF TypeOK
    <3>2. /\ pieces' = [pieces EXCEPT ![c] = Apres(op[p], pieces[c], saisie[p].montant)]
          /\ version' = [version EXCEPT ![c] = @ + 1]
          /\ UNCHANGED <<retenus, op, cible, saisie, lue>>
          /\ \A i \in Pieces : pieces'[i].nature = pieces[i].nature
          /\ pieces[c].nature \in {"facture", "acompte"}
      BY <1>3, Transition
    <3> QED
      BY <1>1, <3>1, <3>2
  <2>2. pc'[p] = "attente" /\ \A r \in Requetes \ {p} : pc'[r] = pc[r]
    BY <1>3, Transition DEF TypeOK
  <2>3. \A d : Cumul(pieces', d) = Cumul(pieces, d)
    BY <1>3, Transition, CumulStable
  <2>4. \A r \in Requetes : (Enregistre(r)' => Enregistre(r)) /\ Tient(r)' = Tient(r)
    BY <2>1, <2>2, <2>3 DEF Enregistre, PasResolu, SousVerrou, Tient
  <2>5. Vierges'
    BY <2>1 DEF Coherence, Vierges
  <2>6. Fraicheur'
    BY <2>1, <2>4 DEF Coherence, Fraicheur
  <2>7. Resolution'
    BY <2>1, <2>2 DEF Coherence, Resolution, PasResolu, PasEngage, SousVerrou
  <2>8. Exclusion'
    BY <2>1, <2>2, <2>4 DEF Coherence, Exclusion, SousVerrou
  <2>9. Garde'
    <3>1. \A i \in Pieces : version[i] \in Nat
      BY DEF TypeOK
    <3>2. \A r \in Requetes : lue[r].version \in Nat
      BY LocalesType
    <3> QED
      BY <2>1, <2>2, <3>1, <3>2 DEF Coherence, Garde
  <2> QED
    BY <2>5, <2>6, <2>7, <2>8, <2>9 DEF Coherence
<1> QED
  BY <1>2, <1>3

LEMMA CoherenceInitiale == Init => Coherence
BY DEF Init, Coherence, Vierges, Fraicheur, Resolution, Exclusion, Garde,
       Enregistre, PasResolu, PasEngage, SousVerrou

LEMMA CoherenceSuivante == TypeOK /\ Coherence /\ [Next]_vars => Coherence'
<1> SUFFICES ASSUME TypeOK, Coherence, [Next]_vars PROVE Coherence'
  OBVIOUS
<1>1. CASE UNCHANGED vars
  BY <1>1 DEF vars, tables, locales, Coherence, Vierges, Fraicheur, Resolution, Exclusion,
              Garde, Enregistre, Tient
<1>2. ASSUME NEW d \in Devis, Retenir(d) PROVE Coherence'
  BY <1>2, CoherenceRetenir
<1>3. ASSUME NEW p \in Requetes,
             RecevoirPiece(p) \/ RecevoirTransition(p) \/ RecevoirSynthese(p)
      PROVE  Coherence'
  BY <1>3, CoherenceRecevoir
<1>4. ASSUME NEW p \in Requetes, Etape(p) \/ Abandonner(p) PROVE Coherence'
  BY <1>4, CoherenceSaut, CoherenceInsertion, CoherenceLire, CoherenceEcrire,
     CoherenceSynthese DEF Etape
<1> QED
  BY <1>1, <1>2, <1>3, <1>4 DEF Next, Repos

-----------------------------------------------------------------------------
(* What a step of the component does to the tables: nothing but retain a   *)
(* proposal, insert a piece or move one on.                                *)
LEMMA PasSurLesTables ==
    ASSUME TypeOK, Coherence, [Next]_vars
    PROVE  \/ UNCHANGED <<retenus, pieces>>
           \/ \E d \in Devis : Retenir(d)
           \/ \E p \in Requetes : InsererSeul(p) \/ Valider(p)
           \/ \E p \in Requetes : Ecrire(p) /\ version[cible[p]] = lue[p].version
<1>1. CASE UNCHANGED vars
  BY <1>1 DEF vars, tables
<1>2. ASSUME NEW p \in Requetes,
             RecevoirPiece(p) \/ RecevoirTransition(p) \/ RecevoirSynthese(p) \/ Abandonner(p)
      PROVE  UNCHANGED <<retenus, pieces>>
  BY <1>2 DEF RecevoirPiece, RecevoirTransition, RecevoirSynthese, Recevoir, Abandonner, tables
<1>3. ASSUME NEW p \in Requetes, Etape(p)
      PROVE  \/ UNCHANGED <<retenus, pieces>>
             \/ InsererSeul(p) \/ Valider(p)
             \/ Ecrire(p) /\ version[cible[p]] = lue[p].version
  BY <1>3 DEF Etape, Resoudre, Cumuler, Verrouiller, Relire, Inserer, Lire, Ecrire, Expliquer,
              LireRetenus, LireFactures, LireAcomptes, tables
<1> QED
  BY <1>1, <1>2, <1>3 DEF Next, Repos

LEMMA CumulInitial == Init => CumulSousEngagement
<1> SUFFICES ASSUME Init, NEW d \in Devis PROVE Cumul(pieces, d) <= Engage[d]
  BY DEF CumulSousEngagement
<1>1. Rattachees(pieces, "acompte", d) = {}
  BY DEF Init, Rattachees, Absente
<1>2. Unites(Montant(pieces), {}) = {}
  BY DEF Unites
<1>3. Cumul(pieces, d) = 0
  BY <1>1, <1>2, FS_EmptySet DEF Cumul, Somme
<1> QED
  BY <1>3, MontantsEngages

(* The lock of a proposal: from the second sum to the commit, nobody else  *)
(* pays down on it.                                                        *)
LEMMA CumulSuivant ==
    TypeOK /\ Coherence /\ CumulSousEngagement /\ [Next]_vars => CumulSousEngagement'
<1> SUFFICES ASSUME TypeOK, Coherence, CumulSousEngagement, [Next]_vars, NEW d \in Devis
             PROVE  Cumul(pieces', d) <= Engage[d]
  BY DEF CumulSousEngagement
<1>1. Cumul(pieces, d) <= Engage[d]
  BY DEF CumulSousEngagement
<1>2. CASE UNCHANGED pieces
  BY <1>1, <1>2
<1>3. ASSUME NEW p \in Requetes, InsererSeul(p) \/ Valider(p) PROVE Cumul(pieces', d) <= Engage[d]
  <2>1. CASE d # saisie[p].devis \/ InsererSeul(p)
    BY <1>1, <1>3, <2>1, Insertion
  <2>2. CASE d = saisie[p].devis /\ Valider(p)
    <3>1. Tient(p) /\ op[p] = "acompte"
      BY <2>2 DEF Valider, Coherence, Exclusion, Resolution, PasEngage, SousVerrou
    <3>2. Cumul(pieces', d) = Cumul(pieces, d) + saisie[p].montant
      BY <1>3, <2>2, <3>1, Insertion
    <3> QED
      BY <2>2, <3>1, <3>2 DEF Tient
  <2> QED
    BY <1>3, <2>1, <2>2
<1>4. ASSUME NEW p \in Requetes, Ecrire(p), version[cible[p]] = lue[p].version
      PROVE  Cumul(pieces', d) <= Engage[d]
  BY <1>1, <1>4, Transition, CumulStable
<1>5. CASE \E e \in Devis : Retenir(e)
  BY <1>2, <1>5 DEF Retenir
<1> QED
  BY <1>2, <1>3, <1>4, <1>5, PasSurLesTables

-----------------------------------------------------------------------------
(* TypeOK: every row, every request and every total the code handles keeps *)
(* its shape, for any number of requests, pieces and proposals.            *)
THEOREM TypeCorrect == Spec => []TypeOK
<1>1. Init => TypeOK /\ Coherence
  BY TypeInitial, CoherenceInitiale
<1>2. TypeOK /\ Coherence /\ [Next]_vars => (TypeOK /\ Coherence)'
  BY TypeSuivant, CoherenceSuivante
<1> QED
  BY <1>1, <1>2, PTL DEF Spec

(* Coherence: what a request has read and checked, and relies upon after   *)
(* others have written, still holds when it writes (the advisory lock of   *)
(* CreateAcompte, the guard on modifie_le of the updates).                 *)
THEOREM Coherente == Spec => []Coherence
<1>1. Init => TypeOK /\ Coherence
  BY TypeInitial, CoherenceInitiale
<1>2. TypeOK /\ Coherence /\ [Next]_vars => (TypeOK /\ Coherence)'
  BY TypeSuivant, CoherenceSuivante
<1> QED
  BY <1>1, <1>2, PTL DEF Spec

(* CumulSousEngagement: the down payments of a proposal never exceed what  *)
(* it commits, however many requests record one at the same time.          *)
THEOREM Plafond == Spec => []CumulSousEngagement
<1>1. Init => CumulSousEngagement
  BY CumulInitial
<1>2. TypeOK /\ Coherence /\ CumulSousEngagement /\ [Next]_vars => CumulSousEngagement'
  BY CumulSuivant
<1> QED
  BY <1>1, <1>2, TypeCorrect, Coherente, PTL DEF Spec

-----------------------------------------------------------------------------
(* The abstract specification speaks of the same rows and the same sums. *)
LEMMA MemesPieces ==
    /\ \A t, d : Promesse!Cumul(t, d) = Cumul(t, d)
    /\ \A n, d, m : Promesse!Naissante(n, d, m) = Naissante(n, d, m)
    /\ \A o, l, m : Promesse!Permet(o, l, m) <=> Permet(o, l, m)
    /\ \A o, l, m : Promesse!Apres(o, l, m) = Apres(o, l, m)
    /\ Promesse!Perimetres = Perimetres
    /\ Promesse!Transitions = Transitions
    /\ Promesse!Absente = Absente
<1>1. \A t, d : Promesse!Cumul(t, d) = Cumul(t, d)
  BY DEF Promesse!Cumul, Promesse!Somme, Promesse!Unites, Promesse!Montant,
         Promesse!Rattachees, Promesse!Cardinality, Cumul, Somme, Unites, Montant, Rattachees,
         Cardinality
<1>2. \A n, d, m : Promesse!Naissante(n, d, m) = Naissante(n, d, m)
  BY DEF Promesse!Naissante, Naissante
<1>3. \A o, l, m : Promesse!Permet(o, l, m) <=> Permet(o, l, m)
  BY DEF Promesse!Permet, Permet
<1>4. \A o, l, m : Promesse!Apres(o, l, m) = Apres(o, l, m)
  BY DEF Promesse!Apres, Apres
<1> QED
  BY <1>1, <1>2, <1>3, <1>4 DEF Promesse!Perimetres, Perimetres, Promesse!Transitions,
     Transitions, Promesse!Absente, Absente

LEMMA PasPromesse ==
    TypeOK /\ Coherence /\ [Next]_vars => [Promesse!Next]_(Promesse!vars)
<1> SUFFICES ASSUME TypeOK, Coherence, [Next]_vars
             PROVE  Promesse!Next \/ UNCHANGED Promesse!vars
  OBVIOUS
<1>1. CASE UNCHANGED <<retenus, pieces>>
  BY <1>1 DEF Promesse!vars
<1>2. ASSUME NEW d \in Devis, Retenir(d) PROVE Promesse!Next
  BY <1>2 DEF Retenir, Promesse!Retenir, Promesse!Next
<1>3. ASSUME NEW p \in Requetes, InsererSeul(p) \/ Valider(p) PROVE Promesse!Next
  <2> DEFINE c == cible[p]  n == op[p]  d == saisie[p].devis  m == saisie[p].montant
  <2>1. /\ c \in Pieces /\ n \in {"facture", "acompte"} /\ d \in Perimetres
        /\ pieces[c].nature = "absente" /\ d \in retenus \cup {HorsDevis} /\ m > 0
        /\ pieces' = [pieces EXCEPT ![c] = Naissante(n, d, m)]
        /\ UNCHANGED retenus
    BY <1>3, Insertion DEF Enregistrements
  <2>2. m \in Montants \cup {0}
    BY DEF TypeOK
  <2>3. n = "acompte" /\ d # HorsDevis => Cumul(pieces, d) + m <= Engage[d]
    BY <1>3 DEF InsererSeul, Valider, Tient, Coherence, Resolution, Exclusion
  <2>4. Promesse!Enregistrer(c, n, d, m)
    BY <2>1, <2>3, MemesPieces DEF Promesse!Enregistrer
  <2> QED
    BY <2>1, <2>2, <2>4, MemesPieces DEF Promesse!Next
<1>4. ASSUME NEW p \in Requetes, Ecrire(p), version[cible[p]] = lue[p].version
      PROVE  Promesse!Next
  <2> DEFINE c == cible[p]  o == op[p]  m == saisie[p].montant
  <2>1. /\ c \in Pieces /\ o \in Transitions /\ Permet(o, pieces[c], m)
        /\ pieces[c].nature = "facture" \/ (pieces[c].nature = "acompte" /\ o # "payer")
        /\ pieces' = [pieces EXCEPT ![c] = Apres(o, pieces[c], m)]
        /\ UNCHANGED retenus
    BY <1>4, Transition
  <2>2. m \in Montants \cup {0}
    BY DEF TypeOK
  <2>3. Promesse!Avancer(c, o, m)
    BY <2>1, MemesPieces DEF Promesse!Avancer
  <2> QED
    BY <2>1, <2>2, <2>3, MemesPieces DEF Promesse!Next
<1> QED
  BY <1>1, <1>2, <1>3, <1>4, PasSurLesTables

(* PromesseTenue: the service, the repository and the constraints of       *)
(* migration 00009 together implement Tresorerie, for any number of        *)
(* requests, pieces and proposals, whatever keys the proposals hash to.    *)
THEOREM Implemente == Spec => PromesseTenue
<1>1. Init => Promesse!Init
  BY MemesPieces DEF Init, Promesse!Init
<1>2. TypeOK /\ Coherence /\ [Next]_vars => [Promesse!Next]_(Promesse!vars)
  BY PasPromesse
<1> QED
  BY <1>1, <1>2, TypeCorrect, Coherente, PTL DEF Spec, PromesseTenue, Promesse!Spec

-----------------------------------------------------------------------------
(* Who is told "ok" has just written, or had been told before. *)
LEMMA DitOk ==
    ASSUME TypeOK, Coherence, [Next]_vars, NEW p \in Requetes, reponse'[p] = "ok"
    PROVE  /\ op'[p] = op[p] /\ cible'[p] = cible[p] /\ saisie'[p] = saisie[p]
           /\ \/ reponse[p] = "ok"
              \/ InsererSeul(p) \/ Valider(p)
              \/ Ecrire(p) /\ version[cible[p]] = lue[p].version
<1>1. CASE UNCHANGED vars
  BY <1>1 DEF vars, locales
<1>2. ASSUME NEW r \in Requetes,
             RecevoirPiece(r) \/ RecevoirTransition(r) \/ RecevoirSynthese(r)
      PROVE  /\ r # p /\ reponse'[p] = reponse[p]
             /\ op'[p] = op[p] /\ cible'[p] = cible[p] /\ saisie'[p] = saisie[p]
  BY <1>2 DEF RecevoirPiece, RecevoirTransition, RecevoirSynthese, Recevoir, TypeOK
<1>3. ASSUME NEW d \in Devis, Retenir(d) PROVE UNCHANGED <<op, cible, saisie, reponse>>
  BY <1>3 DEF Retenir, locales
<1>4. ASSUME NEW r \in Requetes, Etape(r) \/ Abandonner(r)
      PROVE  UNCHANGED <<op, cible, saisie>>
  BY <1>4 DEF Etape, Resoudre, InsererSeul, Cumuler, Verrouiller, Relire, Inserer, Valider,
              Lire, Ecrire, Expliquer, LireRetenus, LireFactures, LireAcomptes, Abandonner,
              locales
<1>5. ASSUME NEW r \in Requetes, Etape(r) \/ Abandonner(r), reponse[p] # "ok"
      PROVE  \/ InsererSeul(p) \/ Valider(p)
             \/ Ecrire(p) /\ version[cible[p]] = lue[p].version
  <2>1. CASE InsererSeul(r) \/ Valider(r) \/ (Ecrire(r) /\ version[cible[r]] = lue[r].version)
    <3>1. r # p => reponse'[p] = reponse[p]
      BY <2>1 DEF InsererSeul, Valider, Ecrire, Poser, Repondre, TypeOK
    <3> QED
      BY <1>5, <2>1, <3>1
  <2>2. CASE ~(InsererSeul(r) \/ Valider(r) \/ (Ecrire(r) /\ version[cible[r]] = lue[r].version))
    <3>1. \E e \in Pas, a \in Reponses \ {"ok"} : Aller(r, e) \/ Repondre(r, a)
      <4>1. CASE Resoudre(r) \/ Cumuler(r) \/ Verrouiller(r) \/ Relire(r) \/ Inserer(r)
        BY <4>1 DEF Resoudre, Cumuler, Verrouiller, Relire, Inserer, Pas, SousVerrou, Reponses
      <4>2. CASE Lire(r) \/ Expliquer(r) \/ Abandonner(r)
        BY <4>2 DEF Lire, Expliquer, Abandonner, Pas, Reponses
      <4>3. CASE LireRetenus(r) \/ LireFactures(r) \/ LireAcomptes(r)
        BY <4>3 DEF LireRetenus, LireFactures, LireAcomptes, Pas, Reponses
      <4>4. CASE Ecrire(r)
        <5>1. version[cible[r]] # lue[r].version
          BY <2>2, <4>4
        <5>2. Aller(r, "expliquer")
          BY <4>4, <5>1 DEF Ecrire
        <5> QED
          BY <5>2 DEF Pas, Reponses
      <4> QED
        BY <1>5, <2>2, <4>1, <4>2, <4>3, <4>4 DEF Etape
    <3>2. reponse'[p] = reponse[p] \/ reponse'[p] # "ok"
      BY <3>1 DEF Aller, Repondre, TypeOK
    <3> QED
      BY <1>5, <3>2
  <2> QED
    BY <2>1, <2>2
<1> QED
  BY <1>1, <1>2, <1>3, <1>4, <1>5 DEF Next, Repos

(* What one person was told stays true when another one writes. *)
LEMMA TenuDure ==
    ASSUME TypeOK, Coherence, [Next]_vars, NEW p \in Requetes, Tenu(p),
           op[p] # "synthese" => cible[p] \in Pieces,
           op'[p] = op[p], cible'[p] = cible[p], saisie'[p] = saisie[p]
    PROVE  Tenu(p)'
<1>1. CASE UNCHANGED pieces
  BY <1>1 DEF Tenu
<1>2. ASSUME NEW r \in Requetes, InsererSeul(r) \/ Valider(r) PROVE Tenu(p)'
  <2>1. CASE op[p] \in Operations \ {"synthese"}
    <3> USE <2>1
    <3>1. pieces[cible[p]].nature # "absente"
      <4>1. pieces[cible[p]] # Absente
        BY <2>1 DEF Tenu, Absente, Operations, Transitions, Enregistrements
      <4> QED
        BY <2>1, <4>1 DEF Coherence, Vierges
    <3>2. /\ cible[r] \in Pieces /\ pieces[cible[r]].nature = "absente"
          /\ pieces' = [pieces EXCEPT ![cible[r]] =
                           Naissante(op[r], saisie[r].devis, saisie[r].montant)]
      BY <1>2, Insertion
    <3>3. pieces'[cible[p]] = pieces[cible[p]]
      BY <2>1, <3>1, <3>2 DEF TypeOK
    <3> QED
      BY <3>3 DEF Tenu
  <2>2. CASE op[p] = "synthese"
    BY <2>2 DEF Tenu, Enregistrements
  <2> QED
    BY <2>1, <2>2 DEF TypeOK
<1>3. ASSUME NEW r \in Requetes, Ecrire(r), version[cible[r]] = lue[r].version
      PROVE  Tenu(p)'
  <2> DEFINE c == cible[r]  m == saisie[r].montant
  <2>1. /\ c \in Pieces /\ op[r] \in Transitions /\ Permet(op[r], pieces[c], m)
        /\ pieces' = [pieces EXCEPT ![c] = Apres(op[r], pieces[c], m)]
    BY <1>3, Transition
  <2>2. pieces \in [Pieces -> Lignes]
    BY DEF TypeOK
  <2>3. CASE cible[p] = c
    <3>1. pieces'[c] = Apres(op[r], pieces[c], m) /\ pieces[c] \in Lignes
      BY <2>1, <2>2
    <3>2. CASE op[r] = "payer"
      <4>1. pieces'[c] = [pieces[c] EXCEPT !.paiement = "payee"]
        BY <3>1, <3>2 DEF Apres
      <4> QED
        BY <2>3, <3>1, <4>1 DEF Tenu, Lignes
    <3>3. CASE op[r] = "envoyer"
      <4>1. /\ pieces'[c] = [pieces[c] EXCEPT !.assurance = "envoyee"]
            /\ pieces[c].assurance = "non_envoyee"
        BY <2>1, <3>1, <3>3 DEF Apres, Permet
      <4> QED
        BY <2>3, <3>1, <4>1 DEF Tenu, Lignes
    <3>4. CASE op[r] = "rembourser"
      <4>1. /\ pieces'[c] = [pieces[c] EXCEPT !.assurance = "remboursee", !.rembourse = m]
            /\ pieces[c].assurance = "envoyee"
        BY <2>1, <3>1, <3>4 DEF Apres, Permet
      <4> QED
        BY <2>3, <3>1, <4>1 DEF Tenu, Lignes
    <3> QED
      BY <2>1, <3>2, <3>3, <3>4 DEF Transitions
  <2>4. CASE cible[p] \in Pieces \ {c}
    <3>1. pieces'[cible[p]] = pieces[cible[p]]
      BY <2>1, <2>2, <2>4
    <3> QED
      BY <3>1 DEF Tenu
  <2>5. CASE op[p] = "synthese"
    BY <2>5 DEF Tenu, Enregistrements
  <2> QED
    BY <2>3, <2>4, <2>5
<1>4. ASSUME NEW d \in Devis, Retenir(d) PROVE Tenu(p)'
  BY <1>1, <1>4 DEF Retenir
<1> QED
  BY <1>1, <1>2, <1>3, <1>4, PasSurLesTables

(* All but the summaries are about a piece. *)
Cibles == \A p \in Requetes : op[p] # "synthese" => cible[p] \in Pieces

LEMMA CiblesSuivantes == TypeOK /\ Cibles /\ [Next]_vars => Cibles'
<1> SUFFICES ASSUME TypeOK, Cibles, [Next]_vars PROVE Cibles'
  OBVIOUS
<1>1. CASE UNCHANGED <<op, cible>>
  BY <1>1 DEF Cibles
<1>2. ASSUME NEW r \in Requetes, RecevoirPiece(r) \/ RecevoirTransition(r) PROVE Cibles'
  <2>1. PICK o \in Operations, i \in Pieces, d \in Perimetres, m \in Montants \cup {0},
              e \in {"resoudre", "lire"} : Recevoir(r, o, i, d, m, e)
    BY <1>2 DEF RecevoirPiece, RecevoirTransition, Operations, Perimetres
  <2>2. cible'[r] \in Pieces
    BY <2>1 DEF Recevoir, TypeOK
  <2>3. \A q \in Requetes \ {r} : op'[q] = op[q] /\ cible'[q] = cible[q]
    BY <2>1 DEF Recevoir, TypeOK
  <2> QED
    BY <2>2, <2>3 DEF Cibles
<1>3. ASSUME NEW r \in Requetes, RecevoirSynthese(r) PROVE Cibles'
  BY <1>3 DEF RecevoirSynthese, Recevoir, Cibles, TypeOK
<1>4. ASSUME NEW r \in Requetes, Etape(r) \/ Abandonner(r) PROVE UNCHANGED <<op, cible>>
  BY <1>4 DEF Etape, Resoudre, InsererSeul, Cumuler, Verrouiller, Relire, Inserer, Valider,
              Lire, Ecrire, Expliquer, LireRetenus, LireFactures, LireAcomptes, Abandonner,
              locales
<1> QED
  BY <1>1, <1>2, <1>3, <1>4 DEF Next, Repos, Retenir, vars, locales

LEMMA RienPerduSuivant ==
    TypeOK /\ Coherence /\ Cibles /\ RienPerdu /\ [Next]_vars => RienPerdu'
<1> SUFFICES ASSUME TypeOK, Coherence, Cibles, RienPerdu, [Next]_vars,
                    NEW p \in Requetes, reponse'[p] = "ok"
             PROVE  Tenu(p)'
  BY DEF RienPerdu
<1>1. op'[p] = op[p] /\ cible'[p] = cible[p] /\ saisie'[p] = saisie[p]
  BY DitOk
<1>2. CASE reponse[p] = "ok"
  BY <1>1, <1>2, TenuDure DEF RienPerdu, Cibles
<1>3. CASE InsererSeul(p) \/ Valider(p)
  <2>1. /\ op[p] \in Enregistrements
        /\ pieces'[cible[p]] = Naissante(op[p], saisie[p].devis, saisie[p].montant)
    BY <1>3, Insertion DEF TypeOK
  <2> QED
    BY <1>1, <2>1 DEF Tenu, Naissante, Enregistrements
<1>4. CASE Ecrire(p) /\ version[cible[p]] = lue[p].version
  <2>1. /\ op[p] \in Transitions /\ pieces[cible[p]] \in Lignes
        /\ pieces'[cible[p]] = Apres(op[p], pieces[cible[p]], saisie[p].montant)
    BY <1>4, Transition DEF TypeOK
  <2>2. /\ op[p] = "payer" => pieces'[cible[p]].paiement = "payee"
        /\ op[p] = "envoyer" => pieces'[cible[p]].assurance = "envoyee"
        /\ op[p] = "rembourser" => /\ pieces'[cible[p]].assurance = "remboursee"
                                   /\ pieces'[cible[p]].rembourse = saisie[p].montant
    BY <2>1 DEF Apres, Lignes
  <2> QED
    BY <1>1, <2>1, <2>2 DEF Tenu, Transitions, Enregistrements
<1> QED
  BY <1>2, <1>3, <1>4, DitOk

(* RienPerdu: what a caller was told "ok" of was written and is still      *)
(* there, however many requests work on the same piece.                    *)
THEOREM SansPerte == Spec => []RienPerdu
<1>1. Init => RienPerdu /\ Cibles
  BY DEF Init, RienPerdu, Cibles
<1>2. TypeOK /\ Coherence /\ Cibles /\ RienPerdu /\ [Next]_vars => (RienPerdu /\ Cibles)'
  BY RienPerduSuivant, CiblesSuivantes
<1> QED
  BY <1>1, <1>2, TypeCorrect, Coherente, PTL DEF Spec

-----------------------------------------------------------------------------
(* Sums only grow: what the summary and the refusals rest upon.            *)

(* More pieces, or larger amounts, make a larger sum. *)
LEMMA SommeCroit ==
    ASSUME NEW T, IsFiniteSet(T), NEW S, S \subseteq T,
           NEW f, NEW g, \A i \in T : g[i] \in Nat,
           \A i \in S : f[i] \in Nat /\ f[i] <= g[i]
    PROVE  Somme(f, S) <= Somme(g, T)
<1>1. IsFiniteSet(Unites(g, T))
  BY UnitesFinies
<1>2. \A i \in S : 1 .. f[i] \subseteq 1 .. g[i]
  <2> SUFFICES ASSUME NEW i \in S PROVE 1 .. f[i] \subseteq 1 .. g[i]
    OBVIOUS
  <2>1. f[i] \in Nat /\ g[i] \in Nat /\ f[i] <= g[i]
    OBVIOUS
  <2> QED
    BY <2>1
<1>3. Unites(f, S) \subseteq Unites(g, T)
  BY <1>2 DEF Unites
<1> QED
  BY <1>1, <1>3, FS_Subset DEF Somme

(* What others may have made of a table of pieces: they have added some,   *)
(* paid some, been refunded of some. *)
Prolonge(t, u) ==
    \A i \in Pieces : t[i].nature # "absente" =>
        /\ u[i].nature = t[i].nature /\ u[i].devis = t[i].devis /\ u[i].montant = t[i].montant
        /\ t[i].paiement = "payee" => u[i].paiement = "payee"
        /\ t[i].rembourse <= u[i].rembourse

LEMMA TotalCroit ==
    ASSUME NEW t \in [Pieces -> Lignes], NEW u \in [Pieces -> Lignes], Prolonge(t, u),
           NEW n \in Enregistrements, NEW d
    PROVE  AuPlus(Total(t, n, d), Total(u, n, d))
<1> DEFINE S(v) == Rattachees(v, n, d)
           P(v) == {i \in S(v) : v[i].paiement = "payee"}
<1>1. S(u) \subseteq Pieces /\ P(u) \subseteq Pieces
  BY DEF Rattachees
<1>2. IsFiniteSet(S(u)) /\ IsFiniteSet(P(u))
  BY <1>1, MontantsEngages, FS_Subset
<1>3. \A i \in S(t) : i \in Pieces /\ t[i].nature # "absente"
  BY DEF Rattachees, Enregistrements
<1>4. S(t) \subseteq S(u) /\ P(t) \subseteq P(u)
  BY <1>3 DEF Rattachees, Prolonge
<1>5. \A i \in Pieces : /\ Montant(t)[i] \in Nat /\ Montant(u)[i] \in Nat
                        /\ Indemnite(t)[i] \in Nat /\ Indemnite(u)[i] \in Nat
  BY DEF Montant, Indemnite, Lignes
<1>6. \A i \in S(t) : /\ Montant(t)[i] = Montant(u)[i]
                      /\ Indemnite(t)[i] <= Indemnite(u)[i]
  BY <1>3 DEF Prolonge, Montant, Indemnite
<1>7. P(t) \subseteq S(t)
  OBVIOUS
<1> HIDE DEF S, P
<1>8. \A i \in S(t) : Montant(t)[i] \in Nat /\ Montant(t)[i] <= Montant(u)[i]
  BY <1>3, <1>5, <1>6
<1>9. Somme(Montant(t), S(t)) <= Somme(Montant(u), S(u))
  BY <1>1, <1>2, <1>4, <1>5, <1>8, SommeCroit
<1>10. Somme(Montant(t), P(t)) <= Somme(Montant(u), P(u))
  BY <1>1, <1>2, <1>4, <1>5, <1>7, <1>8, SommeCroit
<1>11. Somme(Indemnite(t), S(t)) <= Somme(Indemnite(u), S(u))
  BY <1>1, <1>2, <1>3, <1>4, <1>5, <1>6, SommeCroit
<1> QED
  BY <1>9, <1>10, <1>11 DEF AuPlus, Total, S, P

LEMMA CumulCroit ==
    ASSUME NEW t \in [Pieces -> Lignes], NEW u \in [Pieces -> Lignes], Prolonge(t, u), NEW d
    PROVE  Cumul(t, d) <= Cumul(u, d)
<1> DEFINE S(v) == Rattachees(v, "acompte", d)
<1>1. S(u) \subseteq Pieces /\ S(t) \subseteq S(u)
  BY DEF Rattachees, Prolonge
<1>2. IsFiniteSet(S(u))
  BY <1>1, MontantsEngages, FS_Subset
<1>3. \A i \in S(u) : Montant(u)[i] \in Nat
  BY <1>1 DEF Montant, Lignes
<1>4. \A i \in S(t) : Montant(t)[i] \in Nat /\ Montant(t)[i] <= Montant(u)[i]
  BY DEF Rattachees, Prolonge, Montant, Lignes
<1> HIDE DEF S
<1>5. Somme(Montant(t), S(t)) <= Somme(Montant(u), S(u))
  BY <1>1, <1>2, <1>3, <1>4, SommeCroit
<1> QED
  BY <1>5 DEF Cumul, S

(* Totals are ordered, and adding keeps their order. *)
LEMMA AuPlusReflexif ==
    ASSUME NEW a \in Bilans
    PROVE  AuPlus(a, a)
BY DEF AuPlus, Bilans

LEMMA AuPlusTransitif ==
    ASSUME NEW a \in Bilans, NEW b \in Bilans, NEW c \in Bilans, AuPlus(a, b), AuPlus(b, c)
    PROVE  AuPlus(a, c)
BY DEF AuPlus, Bilans

LEMMA PlusCroit ==
    ASSUME NEW a \in Bilans, NEW b \in Bilans, NEW c \in Bilans, NEW e \in Bilans,
           AuPlus(a, c), AuPlus(b, e)
    PROVE  AuPlus(Plus(a, b), Plus(c, e))
BY DEF AuPlus, Plus, Bilans

LEMMA TotauxCroissent ==
    ASSUME NEW t \in [Pieces -> Lignes], NEW u \in [Pieces -> Lignes], Prolonge(t, u),
           NEW d \in Perimetres
    PROVE  AuPlus(Totaux(t)[d], Totaux(u)[d])
<1>1. \A n : Total(t, n, d) \in Bilans /\ Total(u, n, d) \in Bilans
  BY TotalNaturel
<1>2. \A n \in Enregistrements : AuPlus(Total(t, n, d), Total(u, n, d))
  BY TotalCroit
<1>3. "facture" \in Enregistrements /\ "acompte" \in Enregistrements
  BY DEF Enregistrements
<1>4. AuPlus(Plus(Total(t, "facture", d), Total(t, "acompte", d)),
             Plus(Total(u, "facture", d), Total(u, "acompte", d)))
  BY <1>1, <1>2, <1>3, PlusCroit
<1> QED
  BY <1>4 DEF Totaux

-----------------------------------------------------------------------------
(* Steps, seen from the totals.                                            *)

LEMMA IndemnitesSuivantes ==
    ASSUME TypeOK, Coherence, Indemnites, [Next]_vars
    PROVE  Indemnites'
<1>1. CASE UNCHANGED pieces
  BY <1>1 DEF Indemnites
<1>2. ASSUME NEW p \in Requetes, InsererSeul(p) \/ Valider(p) PROVE Indemnites'
  <2>1. /\ cible[p] \in Pieces /\ pieces \in [Pieces -> Lignes]
        /\ pieces' = [pieces EXCEPT ![cible[p]] =
                         Naissante(op[p], saisie[p].devis, saisie[p].montant)]
    BY <1>2, Insertion DEF TypeOK
  <2>2. pieces'[cible[p]].rembourse = 0
    BY <2>1 DEF Naissante
  <2> QED
    BY <2>1, <2>2 DEF Indemnites
<1>3. ASSUME NEW p \in Requetes, Ecrire(p), version[cible[p]] = lue[p].version
      PROVE  Indemnites'
  <2> DEFINE c == cible[p]
  <2>1. /\ c \in Pieces /\ op[p] \in Transitions /\ pieces \in [Pieces -> Lignes]
        /\ pieces' = [pieces EXCEPT ![c] = Apres(op[p], pieces[c], saisie[p].montant)]
    BY <1>3, Transition DEF TypeOK
  <2>2. pieces'[c] = Apres(op[p], pieces[c], saisie[p].montant) /\ pieces[c] \in Lignes
    BY <2>1
  <2>3. pieces'[c].assurance # "remboursee" => pieces'[c].rembourse = 0
    <3>1. CASE op[p] = "payer"
      BY <2>1, <2>2, <3>1 DEF Apres, Lignes, Indemnites
    <3>2. CASE op[p] = "envoyer"
      <4>1. pieces[c].assurance = "non_envoyee"
        BY <1>3, <3>2, Transition DEF Permet
      <4> QED
        BY <2>1, <2>2, <3>2, <4>1 DEF Apres, Lignes, Indemnites
    <3>3. CASE op[p] = "rembourser"
      BY <2>2, <3>3 DEF Apres, Lignes
    <3> QED
      BY <2>1, <3>1, <3>2, <3>3 DEF Transitions
  <2> QED
    BY <2>1, <2>3 DEF Indemnites
<1> QED
  BY <1>1, <1>2, <1>3, PasSurLesTables DEF Retenir

(* No step takes anything away from a total. *)
LEMMA PasProlonge ==
    ASSUME TypeOK, Coherence, Indemnites, [Next]_vars
    PROVE  Prolonge(pieces, pieces')
<1>0. pieces \in [Pieces -> Lignes] /\ pieces' \in [Pieces -> Lignes]
  BY TypeSuivant DEF TypeOK
<1>1. CASE UNCHANGED pieces
  <2>1. \A i \in Pieces : pieces[i].rembourse \in Nat
    BY <1>0 DEF Lignes
  <2> QED
    BY <1>1, <2>1 DEF Prolonge
<1>2. ASSUME NEW p \in Requetes, InsererSeul(p) \/ Valider(p) PROVE Prolonge(pieces, pieces')
  <2>1. /\ pieces[cible[p]].nature = "absente"
        /\ \A i \in Pieces \ {cible[p]} : pieces'[i] = pieces[i]
    BY <1>0, <1>2, Insertion
  <2>2. \A i \in Pieces : pieces[i].rembourse \in Nat
    BY <1>0 DEF Lignes
  <2> QED
    BY <2>1, <2>2 DEF Prolonge
<1>3. ASSUME NEW p \in Requetes, Ecrire(p), version[cible[p]] = lue[p].version
      PROVE  Prolonge(pieces, pieces')
  <2> DEFINE c == cible[p]  m == saisie[p].montant
  <2>1. /\ c \in Pieces /\ op[p] \in Transitions /\ Permet(op[p], pieces[c], m)
        /\ pieces' = [pieces EXCEPT ![c] = Apres(op[p], pieces[c], m)]
        /\ \A i \in Pieces : /\ pieces'[i].nature = pieces[i].nature
                             /\ pieces'[i].devis = pieces[i].devis
                             /\ pieces'[i].montant = pieces[i].montant
    BY <1>3, Transition
  <2>2. pieces'[c] = Apres(op[p], pieces[c], m) /\ pieces[c] \in Lignes /\ pieces[c].rembourse \in Nat
    BY <1>0, <2>1 DEF Lignes
  <2>3. /\ pieces[c].paiement = "payee" => pieces'[c].paiement = "payee"
        /\ pieces[c].rembourse <= pieces'[c].rembourse
    <3>1. CASE op[p] = "payer"
      <4>1. pieces'[c] = [pieces[c] EXCEPT !.paiement = "payee"]
        BY <2>2, <3>1 DEF Apres
      <4> QED
        BY <2>2, <4>1 DEF Lignes
    <3>2. CASE op[p] = "envoyer"
      <4>1. pieces'[c] = [pieces[c] EXCEPT !.assurance = "envoyee"]
        BY <2>2, <3>2 DEF Apres
      <4> QED
        BY <2>2, <4>1 DEF Lignes
    <3>3. CASE op[p] = "rembourser"
      <4>1. pieces[c].rembourse = 0
        BY <2>1, <3>3 DEF Permet, Indemnites
      <4>2. m \in Nat
        BY LocalesType
      <4>3. pieces'[c] = [pieces[c] EXCEPT !.assurance = "remboursee", !.rembourse = m]
        BY <2>2, <3>3 DEF Apres
      <4>4. pieces'[c].paiement = pieces[c].paiement /\ pieces'[c].rembourse = m
        BY <2>2, <4>3 DEF Lignes
      <4> QED
        BY <4>1, <4>2, <4>4
    <3> QED
      BY <2>1, <3>1, <3>2, <3>3 DEF Transitions
  <2>4. \A i \in Pieces \ {c} : pieces'[i] = pieces[i] /\ pieces[i].rembourse \in Nat
    BY <1>0, <2>1 DEF Lignes
  <2> QED
    BY <2>1, <2>3, <2>4 DEF Prolonge
<1> QED
  BY <1>1, <1>2, <1>3, PasSurLesTables DEF Retenir

(* What a request holds is about totals. *)
LEMMA LocalesBilans ==
    ASSUME TypeOK, NEW p \in Requetes, NEW d \in Perimetres
    PROVE  /\ debut[p][d] \in Bilans /\ vu[p].totaux[d] \in Bilans
           /\ Totaux(pieces)[d] \in Bilans
           /\ \A n : Total(pieces, n, d) \in Bilans
<1>1. debut \in [Requetes -> [Perimetres -> Bilans]]
  BY DEF TypeOK, Bilans
<1>2. vu \in [Requetes -> [retenus : SUBSET Devis, totaux : [Perimetres -> Bilans]]]
  BY DEF TypeOK, Bilans
<1>3. pieces \in [Pieces -> Lignes]
  BY DEF TypeOK
<1> QED
  BY <1>1, <1>2, <1>3, TotauxNaturels, TotalNaturel

(* A summary that does not move, while others write. *)
LEMMA LectureDure ==
    ASSUME TypeOK, Coherence, Synthese, [Next]_vars, NEW p \in Requetes,
           pc'[p] = pc[p], reponse'[p] = reponse[p], vu'[p] = vu[p], debut'[p] = debut[p]
    PROVE  LectureOk(p)'
<1>1. TypeOK'
  BY TypeSuivant
<1>2. Prolonge(pieces, pieces')
  BY PasProlonge DEF Synthese
<1>3. pieces \in [Pieces -> Lignes] /\ pieces' \in [Pieces -> Lignes]
  BY <1>1 DEF TypeOK
<1>4. LectureOk(p)
  BY DEF Synthese
<1>5. ASSUME NEW d \in Perimetres
      PROVE  /\ debut[p][d] \in Bilans /\ vu[p].totaux[d] \in Bilans
             /\ Totaux(pieces)[d] \in Bilans /\ Totaux(pieces')[d] \in Bilans
             /\ AuPlus(Totaux(pieces)[d], Totaux(pieces')[d])
             /\ \A n \in Enregistrements :
                   /\ Total(pieces, n, d) \in Bilans /\ Total(pieces', n, d) \in Bilans
                   /\ AuPlus(Total(pieces, n, d), Total(pieces', n, d))
  <2>1. /\ debut[p][d] \in Bilans /\ vu[p].totaux[d] \in Bilans
        /\ Totaux(pieces)[d] \in Bilans
    BY LocalesBilans
  <2>2. Totaux(pieces')[d] \in Bilans
    BY <1>3, TotauxNaturels
  <2> QED
    BY <1>2, <1>3, <2>1, <2>2, TotauxCroissent, TotalCroit, TotalNaturel
<1>6. pc'[p] # "attente" => reponse'[p] = "aucune"
  BY <1>4 DEF LectureOk
<1>7. ASSUME pc'[p] \in {"lire_retenus", "lire_factures"}, NEW d \in Perimetres
      PROVE  AuPlus(debut'[p][d], Totaux(pieces')[d])
  <2>1. AuPlus(debut[p][d], Totaux(pieces)[d])
    BY <1>4, <1>7 DEF LectureOk
  <2>2. AuPlus(debut[p][d], Totaux(pieces')[d])
    BY <1>5, <2>1, AuPlusTransitif
  <2> QED
    BY <2>2
<1>8. ASSUME pc'[p] = "lire_acomptes", NEW d \in Perimetres
      PROVE  /\ AuPlus(debut'[p][d], Plus(vu'[p].totaux[d], Total(pieces', "acompte", d)))
             /\ AuPlus(vu'[p].totaux[d], Total(pieces', "facture", d))
  <2> DEFINE v == vu[p].totaux[d]
             a == Total(pieces, "acompte", d)   b == Total(pieces', "acompte", d)
             f == Total(pieces, "facture", d)   g == Total(pieces', "facture", d)
  <2>1. AuPlus(debut[p][d], Plus(v, a)) /\ AuPlus(v, f)
    BY <1>4, <1>8 DEF LectureOk
  <2>2. /\ debut[p][d] \in Bilans /\ v \in Bilans /\ a \in Bilans /\ b \in Bilans
        /\ f \in Bilans /\ g \in Bilans /\ AuPlus(a, b) /\ AuPlus(f, g)
    BY <1>5 DEF Enregistrements
  <2> HIDE DEF v, a, b, f, g
  <2>3. AuPlus(v, v) /\ Plus(v, a) \in Bilans /\ Plus(v, b) \in Bilans
    BY <2>2, AuPlusReflexif, PlusNaturel
  <2>4. AuPlus(Plus(v, a), Plus(v, b))
    BY <2>2, <2>3, PlusCroit
  <2>5. AuPlus(debut[p][d], Plus(v, b)) /\ AuPlus(v, g)
    BY <2>1, <2>2, <2>3, <2>4, AuPlusTransitif
  <2> QED
    BY <2>5 DEF v, b, g
<1>9. ASSUME reponse'[p] = "page", NEW d \in Perimetres
      PROVE  /\ AuPlus(debut'[p][d], vu'[p].totaux[d])
             /\ AuPlus(vu'[p].totaux[d], Totaux(pieces')[d])
  <2>1. AuPlus(debut[p][d], vu[p].totaux[d]) /\ AuPlus(vu[p].totaux[d], Totaux(pieces)[d])
    BY <1>4, <1>9 DEF LectureOk, Encadree
  <2>2. AuPlus(vu[p].totaux[d], Totaux(pieces')[d])
    BY <1>5, <2>1, AuPlusTransitif
  <2> QED
    BY <2>1, <2>2
<1> QED
  BY <1>6, <1>7, <1>8, <1>9 DEF LectureOk, Encadree

(* The steps of a summary itself. *)
LEMMA LectureAvance ==
    ASSUME TypeOK, Coherence, Synthese, [Next]_vars, NEW p \in Requetes,
           \/ RecevoirSynthese(p)
           \/ LireRetenus(p) \/ LireFactures(p) \/ LireAcomptes(p)
    PROVE  LectureOk(p)'
<1>1. UNCHANGED pieces
  BY DEF RecevoirSynthese, Recevoir, LireRetenus, LireFactures, LireAcomptes, tables
<1>2. LectureOk(p)
  BY DEF Synthese
<1>3. \A d \in Perimetres :
        /\ debut[p][d] \in Bilans /\ vu[p].totaux[d] \in Bilans /\ Totaux(pieces)[d] \in Bilans
        /\ Total(pieces, "facture", d) \in Bilans /\ Total(pieces, "acompte", d) \in Bilans
        /\ Totaux(pieces)[d] = Plus(Total(pieces, "facture", d), Total(pieces, "acompte", d))
  BY LocalesBilans DEF Totaux
<1>4. CASE RecevoirSynthese(p)
  <2>1. /\ pc'[p] = "lire_retenus" /\ reponse'[p] = "aucune"
        /\ debut'[p] = Totaux(pieces)
    BY <1>4 DEF RecevoirSynthese, Recevoir, TypeOK
  <2>2. \A d \in Perimetres : AuPlus(debut'[p][d], Totaux(pieces')[d])
    BY <1>1, <1>3, <2>1, AuPlusReflexif
  <2> QED
    BY <2>1, <2>2 DEF LectureOk, Encadree
<1>5. CASE LireRetenus(p)
  <2>1. /\ pc[p] = "lire_retenus" /\ pc'[p] = "lire_factures"
        /\ reponse'[p] = reponse[p] /\ debut'[p] = debut[p]
    BY <1>5 DEF LireRetenus, Aller, TypeOK
  <2> QED
    BY <1>1, <1>2, <2>1 DEF LectureOk, Encadree
<1>6. CASE LireFactures(p)
  <2>1. /\ pc[p] = "lire_factures" /\ pc'[p] = "lire_acomptes"
        /\ reponse'[p] = reponse[p] /\ debut'[p] = debut[p]
        /\ \A d \in Perimetres : vu'[p].totaux[d] = Total(pieces, "facture", d)
    BY <1>6 DEF LireFactures, Aller, TypeOK
  <2>2. \A d \in Perimetres : AuPlus(debut[p][d], Totaux(pieces)[d])
    BY <1>2, <2>1 DEF LectureOk
  <2>3. ASSUME NEW d \in Perimetres
        PROVE  /\ AuPlus(debut'[p][d], Plus(vu'[p].totaux[d], Total(pieces', "acompte", d)))
               /\ AuPlus(vu'[p].totaux[d], Total(pieces', "facture", d))
    BY <1>1, <1>3, <2>1, <2>2, AuPlusReflexif
  <2>4. reponse'[p] = "aucune"
    BY <1>2, <2>1 DEF LectureOk
  <2> QED
    BY <2>1, <2>3, <2>4 DEF LectureOk, Encadree
<1>7. CASE LireAcomptes(p)
  <2>1. /\ pc[p] = "lire_acomptes" /\ pc'[p] = "attente" /\ debut'[p] = debut[p]
        /\ \A d \in Perimetres :
              vu'[p].totaux[d] = Plus(vu[p].totaux[d], Total(pieces, "acompte", d))
    BY <1>7 DEF LireAcomptes, Repondre, TypeOK
  <2>2. ASSUME NEW d \in Perimetres
        PROVE  /\ AuPlus(debut'[p][d], vu'[p].totaux[d])
               /\ AuPlus(vu'[p].totaux[d], Totaux(pieces')[d])
    <3>1. /\ AuPlus(debut[p][d], Plus(vu[p].totaux[d], Total(pieces, "acompte", d)))
          /\ AuPlus(vu[p].totaux[d], Total(pieces, "facture", d))
      BY <1>2, <2>1 DEF LectureOk
    <3>2. AuPlus(Total(pieces, "acompte", d), Total(pieces, "acompte", d))
      BY <1>3, AuPlusReflexif
    <3>3. AuPlus(Plus(vu[p].totaux[d], Total(pieces, "acompte", d)), Totaux(pieces)[d])
      BY <1>3, <3>1, <3>2, PlusCroit
    <3> QED
      BY <1>1, <2>1, <3>1, <3>3
  <2> QED
    BY <2>1, <2>2 DEF LectureOk, Encadree
<1> QED
  BY <1>4, <1>5, <1>6, <1>7

(* What any other step does to the locals of a request. *)
LEMMA LectureAilleurs ==
    ASSUME TypeOK, Coherence, Synthese, [Next]_vars, NEW p \in Requetes,
           ~RecevoirSynthese(p), ~LireRetenus(p), ~LireFactures(p), ~LireAcomptes(p)
    PROVE  \/ /\ pc'[p] = pc[p] /\ reponse'[p] = reponse[p]
              /\ vu'[p] = vu[p] /\ debut'[p] = debut[p]
           \/ /\ pc'[p] \notin {"lire_retenus", "lire_factures", "lire_acomptes"}
              /\ pc'[p] # "attente" => reponse'[p] = "aucune"
              /\ reponse'[p] # "page"
<1>1. LectureOk(p)
  BY DEF Synthese
<1>2. CASE UNCHANGED vars \/ \E d \in Devis : Retenir(d)
  BY <1>2 DEF vars, locales, Retenir
<1>3. ASSUME NEW r \in Requetes \ {p},
             \/ RecevoirPiece(r) \/ RecevoirTransition(r) \/ RecevoirSynthese(r)
             \/ Etape(r) \/ Abandonner(r)
      PROVE  /\ pc'[p] = pc[p] /\ reponse'[p] = reponse[p]
             /\ vu'[p] = vu[p] /\ debut'[p] = debut[p]
  <2>1. CASE RecevoirPiece(r) \/ RecevoirTransition(r) \/ RecevoirSynthese(r)
    BY <2>1 DEF RecevoirPiece, RecevoirTransition, RecevoirSynthese, Recevoir, TypeOK
  <2>2. CASE \/ Resoudre(r) \/ Cumuler(r) \/ Verrouiller(r) \/ Relire(r)
             \/ Inserer(r) \/ Expliquer(r) \/ Abandonner(r)
    BY <2>2 DEF Resoudre, Cumuler, Verrouiller, Relire, Inserer, Expliquer, Abandonner,
                Aller, Repondre, locales, TypeOK
  <2>3. CASE InsererSeul(r) \/ Valider(r) \/ Lire(r) \/ Ecrire(r)
    BY <2>3 DEF InsererSeul, Valider, Lire, Ecrire, Poser, Aller, Repondre, locales, TypeOK
  <2>4. CASE LireRetenus(r) \/ LireFactures(r) \/ LireAcomptes(r)
    BY <2>4 DEF LireRetenus, LireFactures, LireAcomptes, Aller, Repondre, TypeOK
  <2> QED
    BY <1>3, <2>1, <2>2, <2>3, <2>4 DEF Etape
<1>4. CASE RecevoirPiece(p) \/ RecevoirTransition(p)
  BY <1>4 DEF RecevoirPiece, RecevoirTransition, Recevoir, TypeOK
<1>5. CASE Etape(p) \/ Abandonner(p)
  <2>1. pc[p] # "attente"
    BY <1>5 DEF Etape, Abandonner, Resoudre, InsererSeul, Cumuler, Verrouiller, Relire, Inserer,
                Valider, Lire, Ecrire, Expliquer, LireRetenus, LireFactures, LireAcomptes
  <2>2. reponse[p] = "aucune"
    BY <1>1, <2>1 DEF LectureOk
  <2>3. CASE \/ Resoudre(p) \/ Cumuler(p) \/ Verrouiller(p) \/ Relire(p)
             \/ Inserer(p) \/ Expliquer(p) \/ Abandonner(p)
    BY <2>2, <2>3 DEF Resoudre, Cumuler, Verrouiller, Relire, Inserer, Expliquer, Abandonner,
                Aller, Repondre, TypeOK
  <2>4. CASE InsererSeul(p) \/ Valider(p) \/ Lire(p) \/ Ecrire(p)
    BY <2>2, <2>4 DEF InsererSeul, Valider, Lire, Ecrire, Poser, Aller, Repondre, TypeOK
  <2> QED
    BY <1>5, <2>3, <2>4 DEF Etape
<1> QED
  BY <1>2, <1>3, <1>4, <1>5 DEF Next, Repos

LEMMA SyntheseSuivante == TypeOK /\ Coherence /\ Synthese /\ [Next]_vars => Synthese'
<1> SUFFICES ASSUME TypeOK, Coherence, Synthese, [Next]_vars PROVE Synthese'
  OBVIOUS
<1>1. Indemnites'
  BY IndemnitesSuivantes DEF Synthese
<1>2. ASSUME NEW p \in Requetes PROVE LectureOk(p)'
  <2>1. CASE RecevoirSynthese(p) \/ LireRetenus(p) \/ LireFactures(p) \/ LireAcomptes(p)
    BY <2>1, LectureAvance
  <2>2. CASE ~(RecevoirSynthese(p) \/ LireRetenus(p) \/ LireFactures(p) \/ LireAcomptes(p))
    <3>1. CASE /\ pc'[p] = pc[p] /\ reponse'[p] = reponse[p]
               /\ vu'[p] = vu[p] /\ debut'[p] = debut[p]
      BY <3>1, LectureDure
    <3>2. CASE /\ pc'[p] \notin {"lire_retenus", "lire_factures", "lire_acomptes"}
               /\ pc'[p] # "attente" => reponse'[p] = "aucune"
               /\ reponse'[p] # "page"
      BY <3>2 DEF LectureOk, Encadree
    <3> QED
      BY <2>2, <3>1, <3>2, LectureAilleurs
  <2> QED
    BY <2>1, <2>2
<1> QED
  BY <1>1, <1>2 DEF Synthese

(* SyntheseEncadree: the page of the finances adds up three reads between  *)
(* which any number of requests record, pay and refund; each total that it *)
(* shows is at least what it was when the request came in, and at most     *)
(* what it is now.                                                         *)
THEOREM Encadrement == Spec => []SyntheseEncadree
<1>1. Init => Synthese
  <2> SUFFICES ASSUME Init PROVE Synthese
    OBVIOUS
  <2>1. Indemnites
    BY DEF Init, Indemnites, Absente
  <2>2. \A p \in Requetes : pc[p] = "attente" /\ reponse[p] = "aucune"
    BY DEF Init
  <2> QED
    BY <2>1, <2>2 DEF Synthese, LectureOk, Encadree
<1>2. TypeOK /\ Coherence /\ Synthese /\ [Next]_vars => Synthese'
  BY SyntheseSuivante
<1>3. Synthese => SyntheseEncadree
  BY DEF Synthese, LectureOk, SyntheseEncadree
<1> QED
  BY <1>1, <1>2, <1>3, TypeCorrect, Coherente, PTL DEF Spec

-----------------------------------------------------------------------------
(* Refusals.                                                               *)

(* A request that is refused has just summed, or had been refused before. *)
LEMMA DitDepassement ==
    ASSUME TypeOK, Coherence, [Next]_vars, NEW p \in Requetes, reponse'[p] = "depassement"
    PROVE  /\ saisie'[p] = saisie[p]
           /\ \/ reponse[p] = "depassement"
              \/ (Cumuler(p) \/ Relire(p)) /\ ~Tient(p) /\ UNCHANGED pieces
<1>1. CASE UNCHANGED vars \/ \E d \in Devis : Retenir(d)
  BY <1>1 DEF vars, locales, Retenir
<1>2. ASSUME NEW r \in Requetes,
             RecevoirPiece(r) \/ RecevoirTransition(r) \/ RecevoirSynthese(r)
      PROVE  reponse'[p] = reponse[p] /\ saisie'[p] = saisie[p]
  BY <1>2 DEF RecevoirPiece, RecevoirTransition, RecevoirSynthese, Recevoir, TypeOK
<1>3. ASSUME NEW r \in Requetes, Etape(r) \/ Abandonner(r)
      PROVE  UNCHANGED saisie
  BY <1>3 DEF Etape, Resoudre, InsererSeul, Cumuler, Verrouiller, Relire, Inserer, Valider,
              Lire, Ecrire, Expliquer, LireRetenus, LireFactures, LireAcomptes, Abandonner,
              locales
<1>4. ASSUME NEW r \in Requetes, Cumuler(r) \/ Relire(r), reponse[p] # "depassement"
      PROVE  (Cumuler(p) \/ Relire(p)) /\ ~Tient(p) /\ UNCHANGED pieces
  BY <1>4 DEF Cumuler, Relire, Aller, Repondre, TypeOK, tables
<1>5. ASSUME NEW r \in Requetes, Etape(r) \/ Abandonner(r), ~(Cumuler(r) \/ Relire(r))
      PROVE  reponse[p] = "depassement"
  <2>1. CASE Resoudre(r) \/ Verrouiller(r) \/ Inserer(r) \/ Expliquer(r) \/ Abandonner(r)
    BY <2>1 DEF Resoudre, Verrouiller, Inserer, Expliquer, Abandonner, Aller, Repondre, TypeOK
  <2>2. CASE InsererSeul(r) \/ Valider(r) \/ Lire(r) \/ Ecrire(r)
    BY <2>2 DEF InsererSeul, Valider, Lire, Ecrire, Poser, Aller, Repondre, TypeOK
  <2>3. CASE LireRetenus(r) \/ LireFactures(r) \/ LireAcomptes(r)
    BY <2>3 DEF LireRetenus, LireFactures, LireAcomptes, Aller, Repondre, TypeOK
  <2> QED
    BY <1>5, <2>1, <2>2, <2>3 DEF Etape
<1> QED
  BY <1>1, <1>2, <1>3, <1>4, <1>5 DEF Next, Repos

LEMMA RefusSuivant ==
    TypeOK /\ Coherence /\ Indemnites /\ Refus /\ [Next]_vars => Refus'
<1> SUFFICES ASSUME TypeOK, Coherence, Indemnites, Refus, [Next]_vars,
                    NEW p \in Requetes, reponse'[p] = "depassement"
             PROVE  saisie'[p].devis \in Devis /\ ~Tient(p)'
  BY DEF Refus
<1> DEFINE d == saisie[p].devis  m == saisie[p].montant
<1>1. saisie'[p] = saisie[p]
  BY DitDepassement
<1>2. d \in Devis /\ ~(Cumul(pieces, d) + m <= Engage[d])
  <2>1. CASE reponse[p] = "depassement"
    BY <2>1 DEF Refus, Tient
  <2>2. CASE (Cumuler(p) \/ Relire(p)) /\ ~Tient(p)
    <3>1. pc[p] \in PasEngage
      BY <2>2 DEF Cumuler, Relire, PasEngage, SousVerrou
    <3> QED
      BY <2>2, <3>1 DEF Tient, Coherence, Resolution
  <2> QED
    BY <2>1, <2>2, DitDepassement
<1>3. TypeOK'
  BY TypeSuivant
<1>4. pieces \in [Pieces -> Lignes] /\ pieces' \in [Pieces -> Lignes]
  BY <1>3 DEF TypeOK
<1>5. Cumul(pieces, d) <= Cumul(pieces', d)
  BY <1>4, PasProlonge, CumulCroit
<1>6. Cumul(pieces, d) \in Nat /\ Cumul(pieces', d) \in Nat /\ m \in Nat /\ Engage[d] \in Nat
  BY <1>2, <1>4, CumulNaturel, LocalesType, MontantsEngages
<1>7. ~(Cumul(pieces', d) + m <= Engage[d])
  BY <1>2, <1>5, <1>6
<1> QED
  BY <1>1, <1>2, <1>7 DEF Tient

(* DepassementFonde: whoever is refused for an amount that does not fit is *)
(* refused rightly, now and for ever, although the first of the two sums   *)
(* is read without a lock while others record down payments.               *)
THEOREM Fonde == Spec => []DepassementFonde
<1>1. Init => Refus /\ Indemnites
  BY DEF Init, Refus, Indemnites, Absente
<1>2. TypeOK /\ Coherence /\ Indemnites /\ Refus /\ [Next]_vars => (Refus /\ Indemnites)'
  BY RefusSuivant, IndemnitesSuivantes
<1>3. Refus => DepassementFonde
  BY DEF Refus, DepassementFonde
<1> QED
  BY <1>1, <1>2, <1>3, TypeCorrect, Coherente, PTL DEF Spec
=============================================================================

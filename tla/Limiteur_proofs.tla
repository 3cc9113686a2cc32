--------------------------- MODULE Limiteur_proofs ---------------------------
(* What TLAPS proves of Limiteur for any keys, requests, threshold, window *)
(* and capacity.                                                           *)
EXTENDS Limiteur, FiniteSetTheorems, TLAPS

(* The type without its bound, which only EssaisBornes can give. *)
Types ==
    /\ echecs \in [Cles -> Nat]
    /\ age \in [Cles -> 0..Fenetre]
    /\ rates \in [Cles -> 0..Seuil]
    /\ cle \in [Requetes -> Cles \cup {AucuneCle}]
    /\ pc \in [Requetes -> Pas]
    /\ \A p \in Requetes : pc[p] # "attente" <=> cle[p] \in Cles

-----------------------------------------------------------------------------
LEMMA InitTypes == Init => Types
BY LimiteurAssumption DEF Init, Types, Pas

LEMMA EvincerSuivies == ASSUME Types, NEW s \in Evincer PROVE s \subseteq Suivies
BY DEF Evincer, Perimees

(* What a failure makes of the counters. *)
LEMMA RaterCompte ==
    ASSUME Types, NEW p \in Requetes, Rater(p)
    PROVE  /\ cle[p] \in Cles
           /\ echecs' \in [Cles -> Nat]
           /\ echecs'[cle[p]] = Compter(cle[p])
           /\ \A x \in Cles \ {cle[p]} : echecs'[x] \in {0, echecs[x]}
<1>1. cle[p] \in Cles
  BY DEF Types, Rater
<1>2. Compter(cle[p]) \in Nat
  BY <1>1 DEF Types, Compter
<1> QED
  BY <1>1, <1>2 DEF Types, Rater

LEMMA TypesStables == Types /\ [Next]_vars => Types'
<1> SUFFICES ASSUME Types, [Next]_vars PROVE Types'
  OBVIOUS
<1> USE LimiteurAssumption
<1>1. ASSUME NEW p \in Requetes, Recevoir(p) PROVE Types'
  BY <1>1 DEF Types, Recevoir, carte, Pas
<1>2. ASSUME NEW p \in Requetes, Consulter(p) PROVE Types'
  <2>1. cle[p] \in Cles /\ pc[p] # "attente"
    BY <1>2 DEF Types, Consulter
  <2> QED
    BY <1>2, <2>1 DEF Types, Consulter, Aller, Repondre, Pas
<1>3. ASSUME NEW p \in Requetes, Verifier(p) PROVE Types'
  BY <1>3 DEF Types, Verifier, Aller, Repondre, carte, Pas
<1>4. ASSUME NEW p \in Requetes, Rater(p) PROVE Types'
  <2>1. cle[p] \in Cles /\ echecs' \in [Cles -> Nat]
    BY <1>4, RaterCompte
  <2>2. age' \in [Cles -> 0..Fenetre] /\ rates' \in [Cles -> 0..Seuil]
    BY <1>4, <2>1 DEF Types, Rater
  <2> QED
    BY <1>4, <2>1, <2>2 DEF Types, Rater, Repondre, Pas
<1>5. ASSUME NEW p \in Requetes, Reussir(p) PROVE Types'
  BY <1>5 DEF Types, Reussir, Repondre, Pas
<1>6. CASE Tic
  BY <1>6 DEF Types, Tic
<1>7. CASE UNCHANGED vars
  BY <1>7 DEF Types, vars, carte
<1> QED
  BY <1>1, <1>2, <1>3, <1>4, <1>5, <1>6, <1>7 DEF Next, Etape

-----------------------------------------------------------------------------
LEMMA FondeStable == Types /\ BlocageFonde /\ [Next]_vars => BlocageFonde'
<1> SUFFICES ASSUME Types, BlocageFonde, [Next]_vars, NEW k \in Cles
             PROVE  (age[k] < Fenetre => echecs[k] <= rates[k] \/ rates[k] = Seuil)'
  BY DEF BlocageFonde
<1> USE LimiteurAssumption
<1>1. CASE UNCHANGED carte
  BY <1>1 DEF BlocageFonde, carte
<1>2. ASSUME NEW p \in Requetes, Consulter(p)
      PROVE (age[k] < Fenetre => echecs[k] <= rates[k] \/ rates[k] = Seuil)'
  <2>1. echecs'[k] \in {0, echecs[k]} /\ age' = age /\ rates' = rates
    BY <1>2 DEF Types, Consulter
  <2> QED
    BY <2>1 DEF Types, BlocageFonde
<1>3. ASSUME NEW p \in Requetes, Rater(p)
      PROVE (age[k] < Fenetre => echecs[k] <= rates[k] \/ rates[k] = Seuil)'
  <2>1. CASE k = cle[p]
    <3>1. echecs'[k] = Compter(k)
      BY <1>3, <2>1, RaterCompte
    <3>2. rates'[k] = IF age[k] = Fenetre THEN 1
                      ELSE IF rates[k] < Seuil THEN rates[k] + 1 ELSE rates[k]
      BY <1>3, <2>1 DEF Rater, Types
    <3> QED
      BY <3>1, <3>2 DEF Types, BlocageFonde, Compter
  <2>2. CASE k # cle[p]
    <3>1. echecs'[k] \in {0, echecs[k]}
      BY <1>3, <2>2, RaterCompte
    <3>2. age'[k] = age[k] /\ rates'[k] = rates[k]
      BY <1>3, <2>2 DEF Rater, Types
    <3> QED
      BY <3>1, <3>2 DEF Types, BlocageFonde
  <2> QED
    BY <2>1, <2>2
<1>4. ASSUME NEW p \in Requetes, Reussir(p)
      PROVE (age[k] < Fenetre => echecs[k] <= rates[k] \/ rates[k] = Seuil)'
  BY <1>4 DEF Types, BlocageFonde, Reussir
<1>5. CASE Tic
  BY <1>5 DEF Types, BlocageFonde, Tic
<1> QED
  BY <1>1, <1>2, <1>3, <1>4, <1>5 DEF Next, Etape, Recevoir, Verifier, vars, carte

-----------------------------------------------------------------------------
(* The tracked keys. *)

LEMMA SuiviesFinies ==
    /\ IsFiniteSet(Suivies)
    /\ \A S : S \subseteq Suivies => IsFiniteSet(S) /\ Cardinality(S) \in Nat
                                     /\ Cardinality(S) <= Cardinality(Suivies)
<1>1. IsFiniteSet(Suivies)
  BY LimiteurAssumption, FS_Subset DEF Suivies
<1> QED
  BY <1>1, FS_Subset, FS_CardinalityType

(* A failure leaves room in the map for its key. *)
LEMMA PlaceFaite ==
    ASSUME Types, CarteBornee, NEW s \in Evincer
    PROVE  Cardinality(Suivies \ s) < Plafond
<1> USE LimiteurAssumption
<1> DEFINE restent == Suivies \ Perimees
<1>1. CASE Cardinality(Suivies) < Plafond
  <2>1. s = {}
    BY <1>1 DEF Evincer
  <2> QED
    BY <1>1, <2>1
<1>2. CASE Cardinality(Suivies) >= Plafond /\ Cardinality(restent) < Plafond
  <2>1. s = Perimees
    BY <1>2, SuiviesFinies DEF Evincer
  <2> QED
    BY <1>2, <2>1
<1>3. CASE Cardinality(Suivies) >= Plafond /\ Cardinality(restent) >= Plafond
  <2>1. PICK k \in restent : s = Perimees \cup {k}
    BY <1>3, SuiviesFinies DEF Evincer
  <2>2. Suivies \ s = restent \ {k}
    BY <2>1
  <2>3. IsFiniteSet(restent) /\ Cardinality(restent) \in Nat
        /\ Cardinality(restent) <= Plafond
    BY SuiviesFinies, FS_CardinalityType DEF CarteBornee
  <2>4. Cardinality(restent \ {k}) = Cardinality(restent) - 1
    BY <2>1, <2>3, FS_RemoveElement
  <2> QED
    BY <2>2, <2>3, <2>4
<1> QED
  BY <1>1, <1>2, <1>3, SuiviesFinies

(* Fewer tracked keys fit as well. *)
LEMMA MoinsDeSuivies ==
    ASSUME CarteBornee, Suivies' \subseteq Suivies PROVE CarteBornee'
BY SuiviesFinies, LimiteurAssumption, FS_CardinalityType DEF CarteBornee

LEMMA CarteStable == Types /\ CarteBornee /\ [Next]_vars => CarteBornee'
<1> SUFFICES ASSUME Types, CarteBornee, [Next]_vars PROVE CarteBornee'
  OBVIOUS
<1> USE LimiteurAssumption
<1>1. CASE UNCHANGED echecs
  BY <1>1, MoinsDeSuivies DEF Suivies
<1>2. ASSUME NEW p \in Requetes, Consulter(p) PROVE CarteBornee'
  <2>1. \A k \in Cles : echecs'[k] \in {0, echecs[k]}
    BY <1>2 DEF Types, Consulter
  <2> QED
    BY <2>1, MoinsDeSuivies DEF Suivies, Types
<1>3. ASSUME NEW p \in Requetes, Rater(p) PROVE CarteBornee'
  <2> DEFINE k == cle[p]
  <2>1. k \in Cles
    BY <1>3, RaterCompte
  <2>2. PICK s \in IF k \in Suivies THEN {{}} ELSE Evincer :
            echecs' = [x \in Cles |-> IF x = k THEN Compter(k)
                                      ELSE IF x \in s THEN 0 ELSE echecs[x]]
    BY <1>3 DEF Rater
  <2>3. CASE k \in Suivies
    <3>1. Suivies' \subseteq Suivies
      BY <2>2, <2>3 DEF Suivies
    <3> QED
      BY <3>1, MoinsDeSuivies
  <2>4. CASE k \notin Suivies
    <3>1. Cardinality(Suivies \ s) < Plafond
      BY <2>2, <2>4, PlaceFaite
    <3>2. IsFiniteSet(Suivies \ s) /\ Cardinality(Suivies \ s) \in Nat
      BY SuiviesFinies
    <3>3. Suivies' \subseteq (Suivies \ s) \cup {k}
      BY <2>2 DEF Suivies
    <3>4. /\ IsFiniteSet((Suivies \ s) \cup {k})
          /\ Cardinality((Suivies \ s) \cup {k}) = Cardinality(Suivies \ s) + 1
      BY <3>2, <2>4, FS_AddElement
    <3>5. Cardinality(Suivies') <= Cardinality((Suivies \ s) \cup {k})
          /\ Cardinality(Suivies') \in Nat
      BY <3>3, <3>4, FS_Subset, FS_CardinalityType
    <3> QED
      BY <3>1, <3>2, <3>4, <3>5 DEF CarteBornee
  <2> QED
    BY <2>3, <2>4
<1>4. ASSUME NEW p \in Requetes, Reussir(p) PROVE CarteBornee'
  <2>1. \A k \in Cles : echecs'[k] \in {0, echecs[k]}
    BY <1>4 DEF Types, Reussir
  <2> QED
    BY <2>1, MoinsDeSuivies DEF Suivies, Types
<1> QED
  BY <1>1, <1>2, <1>3, <1>4 DEF Next, Etape, Recevoir, Verifier, Tic, vars, carte

-----------------------------------------------------------------------------
(* Attempts in flight. *)

LEMMA EssaisFinis ==
    ASSUME NEW k
    PROVE  /\ IsFiniteSet(Essais(k)) /\ Cardinality(Essais(k)) \in Nat
           /\ Cardinality(Requetes) \in Nat
           /\ Cardinality(Essais(k)) <= Cardinality(Requetes)
BY LimiteurAssumption, FS_Subset, FS_CardinalityType DEF Essais

(* Fewer attempts, and not more failures. *)
LEMMA MoinsDEssais ==
    ASSUME Types, Types', EssaisBornes, NEW k \in Cles,
           Essais(k)' \subseteq Essais(k), echecs'[k] <= echecs[k]
    PROVE  (echecs[k] >= Seuil =>
              echecs[k] + Cardinality(Essais(k)) < Seuil + Cardinality(Requetes))'
<1>1. /\ Cardinality(Essais(k)') <= Cardinality(Essais(k))
      /\ Cardinality(Essais(k)') \in Nat /\ Cardinality(Essais(k)) \in Nat
      /\ Cardinality(Requetes) \in Nat
  BY EssaisFinis, FS_Subset, FS_CardinalityType
<1> QED
  BY <1>1, LimiteurAssumption DEF EssaisBornes, Types

LEMMA EssaisStables == Types /\ Types' /\ EssaisBornes /\ [Next]_vars => EssaisBornes'
<1> SUFFICES ASSUME Types, Types', EssaisBornes, [Next]_vars, NEW k \in Cles
             PROVE (echecs[k] >= Seuil =>
                      echecs[k] + Cardinality(Essais(k)) < Seuil + Cardinality(Requetes))'
  BY DEF EssaisBornes
<1> DEFINE But == (echecs[k] >= Seuil =>
                     echecs[k] + Cardinality(Essais(k)) < Seuil + Cardinality(Requetes))'
<1> USE LimiteurAssumption
<1>1. CASE /\ Essais(k)' \subseteq Essais(k)
           /\ echecs'[k] \in {0, echecs[k]}
  BY <1>1, MoinsDEssais DEF Types
<1>2. ASSUME NEW p \in Requetes, Recevoir(p) PROVE But
  <2>1. Essais(k)' \subseteq Essais(k)
    BY <1>2 DEF Recevoir, Essais, Types
  <2> QED
    BY <1>1, <1>2, <2>1 DEF Recevoir, carte
<1>3. ASSUME NEW p \in Requetes, Consulter(p) PROVE But
  <2>1. CASE k = cle[p] /\ ~Bloquee(k)
    <3>1. echecs'[k] < Seuil
      BY <1>3, <2>1 DEF Consulter, Types
    <3> QED
      BY <3>1 DEF Types
  <2>2. CASE ~(k = cle[p] /\ ~Bloquee(k))
    <3>1. Essais(k)' \subseteq Essais(k)
      BY <1>3, <2>2 DEF Consulter, Aller, Repondre, Essais, Types
    <3>2. echecs'[k] = echecs[k]
      BY <1>3, <2>2 DEF Consulter, Types
    <3> QED
      BY <1>1, <3>1, <3>2
  <2> QED
    BY <2>1, <2>2
<1>4. ASSUME NEW p \in Requetes, Verifier(p) PROVE But
  <2>1. Essais(k)' \subseteq Essais(k)
    BY <1>4 DEF Verifier, Aller, Repondre, Essais, Types
  <2> QED
    BY <1>1, <1>4, <2>1 DEF Verifier, carte
<1>5. ASSUME NEW p \in Requetes, Rater(p) PROVE But
  <2>1. Essais(k)' = Essais(k) \ {p}
    BY <1>5 DEF Rater, Repondre, Essais, Types
  <2>2. CASE k # cle[p]
    <3>1. echecs'[k] \in {0, echecs[k]}
      BY <1>5, <2>2, RaterCompte
    <3> QED
      BY <1>1, <2>1, <3>1
  <2>3. CASE k = cle[p]
    <3>1. p \in Essais(k)
      BY <1>5, <2>3 DEF Rater, Essais
    <3>2. Cardinality(Essais(k)') = Cardinality(Essais(k)) - 1
      BY <2>1, <3>1, EssaisFinis, FS_RemoveElement
    <3>3. /\ Cardinality(Essais(k)) \in Nat /\ Cardinality(Requetes) \in Nat
          /\ Cardinality(Essais(k)) <= Cardinality(Requetes)
      BY EssaisFinis
    <3>4. echecs'[k] = Compter(k)
      BY <1>5, <2>3, RaterCompte
    <3> QED
      BY <3>2, <3>3, <3>4 DEF EssaisBornes, Compter, Types
  <2> QED
    BY <2>2, <2>3
<1>6. ASSUME NEW p \in Requetes, Reussir(p) PROVE But
  <2>1. Essais(k)' \subseteq Essais(k)
    BY <1>6 DEF Reussir, Repondre, Essais, Types
  <2>2. echecs'[k] \in {0, echecs[k]}
    BY <1>6 DEF Reussir, Types
  <2> QED
    BY <1>1, <2>1, <2>2
<1>7. CASE Tic \/ UNCHANGED vars
  BY <1>1, <1>7 DEF Tic, vars, carte, Essais
<1> QED
  BY <1>2, <1>3, <1>4, <1>5, <1>6, <1>7 DEF Next, Etape

-----------------------------------------------------------------------------
Inv == Types /\ BlocageFonde /\ CarteBornee /\ EssaisBornes

LEMMA Inductif == Spec => []Inv
<1>1. Init => Inv
  <2> SUFFICES ASSUME Init PROVE Inv
    OBVIOUS
  <2>1. Types
    BY InitTypes
  <2>2. Suivies = {}
    BY DEF Init, Suivies
  <2> QED
    BY <2>1, <2>2, LimiteurAssumption, FS_EmptySet
    DEF Inv, Init, BlocageFonde, CarteBornee, EssaisBornes
<1>2. Inv /\ [Next]_vars => Inv'
  BY TypesStables, FondeStable, CarteStable, EssaisStables DEF Inv
<1> QED
  BY <1>1, <1>2, PTL DEF Spec

(* The counters keep their shape and their bound, which depends on how     *)
(* many requests run together.                                             *)
THEOREM TypeCorrect == Spec => []TypeOK
<1>1. Inv => TypeOK
  <2> SUFFICES ASSUME Inv PROVE TypeOK
    OBVIOUS
  <2>1. ASSUME NEW k \in Cles PROVE echecs[k] \in 0..EchecsMax
    <3>1. Cardinality(Essais(k)) \in Nat /\ Cardinality(Requetes) \in Nat
      BY EssaisFinis
    <3>2. echecs[k] \in Nat /\ Seuil \in Nat \ {0}
      BY LimiteurAssumption DEF Inv, Types
    <3>3. echecs[k] >= Seuil =>
            echecs[k] + Cardinality(Essais(k)) < Seuil + Cardinality(Requetes)
      BY DEF Inv, EssaisBornes
    <3> QED
      BY <3>1, <3>2, <3>3 DEF EchecsMax
  <2>2. echecs \in [Cles -> 0..EchecsMax]
    BY <2>1 DEF Inv, Types
  <2> QED
    BY <2>2 DEF Inv, Types, TypeOK
<1> QED
  BY <1>1, Inductif, PTL

(* A key only waits after Seuil failures without a success nor a window of *)
(* silence.                                                                *)
THEOREM Fonde == Spec => []BlocageFonde
BY Inductif, PTL DEF Inv

(* The map never holds more than Plafond keys.                             *)
THEOREM Bornee == Spec => []CarteBornee
BY Inductif, PTL DEF Inv

(* Failures, and attempts that may still fail, are bounded for a key that  *)
(* is blocked.                                                             *)
THEOREM Essayes == Spec => []EssaisBornes
BY Inductif, PTL DEF Inv

(* Counters are only lost for a reason.                                    *)
THEOREM Justifie == Spec => OubliJustifie
<1> DEFINE Motif(k) ==
      \/ age[k] = Fenetre
      \/ \E p \in Requetes : cle[p] = k /\ Reussir(p)
      \/ /\ Cardinality(Suivies \ Perimees) >= Plafond
         /\ \A y \in Suivies \ Perimees : age[y] <= age[k]
<1>1. ASSUME Inv, [Next]_vars, NEW k \in Suivies, echecs'[k] < echecs[k]
      PROVE Motif(k)
  <2> USE LimiteurAssumption
  <2>0. k \in Cles /\ echecs[k] \in Nat /\ Types
    BY <1>1 DEF Suivies, Inv, Types
  <2>1. ASSUME NEW p \in Requetes, Consulter(p) PROVE Motif(k)
    BY <1>1, <2>0, <2>1 DEF Consulter, Bloquee, Types
  <2>2. ASSUME NEW p \in Requetes, Rater(p) PROVE Motif(k)
    <3>1. PICK s \in IF cle[p] \in Suivies THEN {{}} ELSE Evincer :
            echecs' = [x \in Cles |-> IF x = cle[p] THEN Compter(cle[p])
                                      ELSE IF x \in s THEN 0 ELSE echecs[x]]
      BY <2>2 DEF Rater
    <3>2. CASE k = cle[p]
      BY <1>1, <2>0, <3>1, <3>2 DEF Compter
    <3>3. CASE k # cle[p]
      <4>1. k \in s
        BY <1>1, <2>0, <3>1, <3>3
      <4>2. s \in Evincer
        BY <3>1, <4>1
      <4>3. CASE k \in Perimees
        BY <4>3 DEF Perimees
      <4>4. CASE k \notin Perimees
        <5>1. ~(Cardinality(Suivies \ Perimees) < Plafond)
          BY <4>1, <4>2, <4>4 DEF Evincer
        <5>2. k \in {x \in Suivies \ Perimees : \A y \in Suivies \ Perimees : age[y] <= age[x]}
          BY <4>1, <4>2, <4>4, <5>1 DEF Evincer
        <5> QED
          BY <5>1, <5>2, SuiviesFinies
      <4> QED
        BY <4>3, <4>4
    <3> QED
      BY <3>2, <3>3
  <2>3. ASSUME NEW p \in Requetes, Reussir(p) PROVE Motif(k)
    <3>1. CASE cle[p] = k
      BY <2>3, <3>1
    <3>2. CASE cle[p] # k
      <4>1. echecs'[k] = echecs[k]
        BY <2>0, <2>3, <3>2 DEF Reussir, Types
      <4> QED
        BY <1>1, <2>0, <4>1
    <3> QED
      BY <3>1, <3>2
  <2>4. CASE UNCHANGED echecs
    BY <1>1, <2>0, <2>4
  <2> QED
    BY <1>1, <2>1, <2>2, <2>3, <2>4
    DEF Next, Etape, Recevoir, Verifier, Tic, vars, carte
<1>2. Inv /\ [Next]_vars => [\A k \in Suivies : echecs'[k] < echecs[k] => Motif(k)]_vars
  BY <1>1
<1> QED
  BY <1>2, Inductif, PTL DEF Spec, OubliJustifie

(* A blocked key opens a window after the last attempt that had been let   *)
(* through, however many are made meanwhile (blocked, failure).            *)
THEOREM Borne == Spec => SansRallonge
<1> DEFINE Arrets(k) ==
      /\ Essais(k)' \subseteq Essais(k)
      /\ age'[k] < age[k] => \E p \in Essais(k) \ Essais(k)' : Rater(p)
<1>1. ASSUME Types, [Next]_vars, NEW k \in Cles, Bloquee(k) PROVE Arrets(k)
  <2> USE LimiteurAssumption
  <2>0. age[k] \in 0..Fenetre /\ k # AucuneCle
    BY <1>1 DEF Types
  <2>1. ASSUME NEW p \in Requetes, Recevoir(p) PROVE Arrets(k)
    BY <1>1, <2>0, <2>1 DEF Recevoir, Essais, Types, carte
  <2>2. ASSUME NEW p \in Requetes, Consulter(p) PROVE Arrets(k)
    <3>1. cle[p] = k => Repondre(p)
      BY <1>1, <2>2 DEF Consulter
    <3>2. Essais(k)' \subseteq Essais(k)
      BY <1>1, <2>0, <2>2, <3>1 DEF Consulter, Repondre, Aller, Essais, Types
    <3> QED
      BY <2>0, <2>2, <3>2 DEF Consulter
  <2>3. ASSUME NEW p \in Requetes, Verifier(p) PROVE Arrets(k)
    BY <1>1, <2>0, <2>3 DEF Verifier, Repondre, Aller, Essais, Types, carte
  <2>4. ASSUME NEW p \in Requetes, Rater(p) PROVE Arrets(k)
    <3>1. Essais(k)' \subseteq Essais(k) /\ p \notin Essais(k)'
      BY <1>1, <2>0, <2>4 DEF Rater, Repondre, Essais, Types
    <3>2. cle[p] = k => p \in Essais(k)
      BY <2>4 DEF Rater, Essais
    <3>3. cle[p] # k => age'[k] = age[k]
      BY <1>1, <2>4 DEF Rater, Types
    <3> QED
      BY <2>0, <2>4, <3>1, <3>2, <3>3
  <2>5. ASSUME NEW p \in Requetes, Reussir(p) PROVE Arrets(k)
    BY <1>1, <2>0, <2>5 DEF Reussir, Repondre, Essais, Types
  <2>6. CASE Tic
    BY <1>1, <2>0, <2>6 DEF Tic, Essais, Types
  <2>7. CASE UNCHANGED vars
    BY <2>0, <2>7 DEF vars, carte, Essais
  <2> QED
    BY <1>1, <2>1, <2>2, <2>3, <2>4, <2>5, <2>6, <2>7 DEF Next, Etape
<1>2. Inv /\ [Next]_vars =>
        [\A k \in Cles : Bloquee(k) =>
           /\ Essais(k)' \subseteq Essais(k)
           /\ age'[k] < age[k] => \E p \in Essais(k) \ Essais(k)' : Rater(p)]_vars
  BY <1>1 DEF Inv
<1> QED
  BY <1>2, Inductif, PTL DEF Spec, SansRallonge
=============================================================================

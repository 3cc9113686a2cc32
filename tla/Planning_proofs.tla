-------------------------- MODULE Planning_proofs --------------------------
(* What TLAPS proves of Planning for any requests and steps of the works.  *)
EXTENDS Planning, TLAPS

-----------------------------------------------------------------------------
(* The state between round trips is always of the declared shape. *)
THEOREM TypeCorrect == Spec => []TypeOK
<1> USE DEF TypeOK, Operations, Statuts, Reponses, Pas, EtapesVerrou
<1>1. Init => TypeOK
  BY DEF Init, Saisies, Normalisees, IdentifiantsTires, Premiere
<1>2. TypeOK /\ [Next]_vars => TypeOK'
  <2> SUFFICES ASSUME TypeOK, [Next]_vars PROVE TypeOK'
    OBVIOUS
  <2> USE DEF Aller, Repondre, tables, locales
  <2>1. ASSUME NEW p \in Requetes, Charger(p) PROVE TypeOK'
    <3>1. version[cible[p]] \in Nat
      OBVIOUS
    <3>2. attendue' \in [Requetes -> Nat]
      BY <2>1, <3>1 DEF Charger
    <3>3. pc' \in [Requetes -> Pas] /\ reponse' \in [Requetes -> Reponses]
      BY <2>1 DEF Charger
    <3> QED
      BY <2>1, <3>2, <3>3 DEF Charger
  <2>11. ASSUME NEW p \in Requetes, ChargerPrerequis(p) PROVE TypeOK'
    BY <2>11 DEF ChargerPrerequis
  <2>2. ASSUME NEW p \in Requetes, Lire(p) PROVE TypeOK'
    <3>1. [avance |-> avance[cible[p]], prerequis |-> {}] \in
             [avance : Statuts, prerequis : SUBSET Etapes]
      OBVIOUS
    <3>2. lue' \in [Requetes -> [avance : Statuts, prerequis : SUBSET Etapes]]
      BY <2>2, <3>1 DEF Lire
    <3>3. UNCHANGED <<tables, op, cible, soumis, attendue, vus, connues>>
      BY <2>2 DEF Lire
    <3>4. pc' \in [Requetes -> Pas] /\ reponse' \in [Requetes -> Reponses]
      BY <2>2 DEF Lire
    <3> QED
      BY <3>2, <3>3, <3>4
  <2>3. ASSUME NEW p \in Requetes, LirePrerequis(p) PROVE TypeOK'
    BY <2>3 DEF LirePrerequis
  <2>4. ASSUME NEW p \in Requetes, LirePrealables(p) PROVE TypeOK'
    BY <2>4 DEF LirePrealables
  <2>5. ASSUME NEW p \in Requetes, Lister(p) PROVE TypeOK'
    BY <2>5 DEF Lister, Existantes
  <2>6. ASSUME NEW p \in Requetes, ListerPrerequis(p) \/ Verifier(p) PROVE TypeOK'
    BY <2>6 DEF ListerPrerequis, Verifier, Juger
  <2>7. ASSUME NEW p \in Requetes, Verrouiller(p) PROVE TypeOK'
    BY <2>7 DEF Verrouiller
  <2>8. ASSUME NEW p \in Requetes, RelirePrealables(p) \/ Ecrire(p) \/ Abandonner(p)
        PROVE TypeOK'
    <3>1. UNCHANGED <<tables, locales>>
      BY <2>8 DEF RelirePrealables, Ecrire, Abandonner
    <3>2. CASE RelirePrealables(p)
      BY <3>1, <3>2 DEF RelirePrealables
    <3>3. CASE Ecrire(p)
      <4>1. pc' \in [Requetes -> Pas] /\ reponse' \in [Requetes -> Reponses]
        BY <3>3 DEF Ecrire
      <4> QED
        BY <3>1, <4>1
    <3>4. CASE Abandonner(p)
      <4>1. pc' \in [Requetes -> Pas] /\ reponse' \in [Requetes -> Reponses]
        BY <3>4 DEF Abandonner
      <4> QED
        BY <3>1, <4>1
    <3> QED
      BY <2>8, <3>2, <3>3, <3>4
  <2>9. ASSUME NEW p \in Requetes, Valider(p) PROVE TypeOK'
    <3>1. StatutEcrit(p) \in Statuts
      BY DEF StatutEcrit
    <3>2. PrerequisEcrits(p) \in SUBSET Etapes
      BY DEF PrerequisEcrits
    <3> QED
      BY <2>9, <3>1, <3>2 DEF Valider
  <2>10. CASE UNCHANGED vars
    BY <2>10 DEF vars
  <2> QED
    BY <2>1, <2>2, <2>3, <2>4, <2>5, <2>6, <2>7, <2>8, <2>9, <2>10,
       <2>11 DEF Next, Etape, Repos
<1> QED
  BY <1>1, <1>2, PTL DEF Spec

-----------------------------------------------------------------------------
(* The inductive invariant: SansCycle and DemarrageLegitime alone are not  *)
(* inductive, a transaction that commits must know that what it checked    *)
(* under the lock still holds, which is what Coherence says.               *)
Inv == TypeOK /\ Coherence /\ SansCycle /\ DemarrageLegitime

(* The life of a step of the works, one commit at a time. *)
Avance(e) ==
    /\ <<avance[e], avance'[e]>> \in
          {<<"absente", "prevue">>, <<"prevue", "prevue">>, <<"prevue", "en_cours">>,
           <<"en_cours", "en_cours">>, <<"en_cours", "terminee">>, <<"terminee", "terminee">>}
    /\ avance[e] \in {"en_cours", "terminee"} => prerequis'[e] = prerequis[e]
    /\ avance'[e] = "en_cours" => \A f \in prerequis[e] : avance[f] = "terminee"

LEMMA InvInit == Init => Inv
<1> SUFFICES ASSUME Init PROVE Inv
  OBVIOUS
<1>1. TypeOK
  BY DEF Init, Saisies, Normalisees, IdentifiantsTires, TypeOK, Premiere, Operations, Statuts, Reponses, Pas, EtapesVerrou
<1>2. \A p \in Requetes : pc[p] \in {"charger", "lister", "verrouiller"}
  BY DEF Init, Saisies, Normalisees, IdentifiantsTires, Premiere
<1>3. SansCycle /\ DemarrageLegitime /\ ReferencesOk
  BY DEF Init, SansCycle, DemarrageLegitime, ReferencesOk
<1>4. VerrouExclusif
  BY <1>2 DEF VerrouExclusif, EtapesVerrou
<1>5. ASSUME NEW p \in Requetes
      PROVE  ParcoursOk(p) /\ IdentifiantNeuf(p) /\ LectureOk(p) /\ DecisionOk(p)
  BY DEF Init, Saisies, Normalisees, IdentifiantsTires, Premiere, Operations, ParcoursOk, IdentifiantNeuf, LectureOk, DecisionOk,
         EtapesPage, EtapesDecidees, EtapesVerrou
<1>6. ASSUME NEW p \in Requetes PROVE TransactionOk(p)
  BY <1>2 DEF TransactionOk
<1> QED
  BY <1>1, <1>3, <1>4, <1>5, <1>6 DEF Inv, Coherence

(* Steps that write no table: what each request has read and checked       *)
(* stays what it was, for itself and for the others.                       *)
LEMMA InvSansEcriture ==
  ASSUME Inv, NEW p \in Requetes,
         \/ Charger(p) \/ ChargerPrerequis(p) \/ Lire(p) \/ LirePrerequis(p)
         \/ LirePrealables(p) \/ Lister(p) \/ ListerPrerequis(p) \/ Verrouiller(p)
         \/ RelirePrealables(p) \/ Ecrire(p) \/ Verifier(p) \/ Abandonner(p)
  PROVE  Coherence' /\ SansCycle' /\ DemarrageLegitime'
<1> DEFINE Sobre ==
      \/ Charger(p) \/ ChargerPrerequis(p) \/ Lire(p) \/ LirePrerequis(p)
      \/ LirePrealables(p) \/ Lister(p) \/ ListerPrerequis(p) \/ Verrouiller(p)
      \/ RelirePrealables(p) \/ Ecrire(p) \/ Verifier(p) \/ Abandonner(p)
<1> USE DEF Inv, TypeOK, Coherence
<1>1. UNCHANGED <<avance, prerequis, version, op, cible, soumis>>
  BY DEF Charger, ChargerPrerequis, Lire, LirePrerequis, LirePrealables, Lister,
         ListerPrerequis, Verrouiller, RelirePrealables, Ecrire, Verifier, Abandonner,
         tables, locales
<1>2. Existantes' = Existantes
  BY <1>1 DEF Existantes
<1>3. SansCycle' /\ DemarrageLegitime' /\ ReferencesOk'
  BY <1>1, <1>2 DEF SansCycle, DemarrageLegitime, ReferencesOk, Acyclique
<1>4. /\ pc' \in [Requetes -> Pas]
      /\ \A r \in Requetes \ {p} :
            /\ pc'[r] = pc[r]
            /\ reponse'[r] = reponse[r]
            /\ attendue'[r] = attendue[r]
            /\ vus'[r] = vus[r]
            /\ lue'[r] = lue[r]
  BY DEF Charger, ChargerPrerequis, Lire, LirePrerequis, LirePrealables, Lister,
         ListerPrerequis, Verrouiller, RelirePrealables, Ecrire, Verifier, Abandonner,
         tables, locales, Aller, Repondre, Juger, Pas, EtapesVerrou
<1>5. VerrouExclusif'
  <2>1. pc'[p] \in EtapesVerrou => pc[p] \in EtapesVerrou \/ VerrouLibre
    BY DEF Charger, ChargerPrerequis, Lire, LirePrerequis, LirePrealables, Lister,
         ListerPrerequis, Verrouiller, RelirePrealables, Ecrire, Verifier, Abandonner,
         Aller, Repondre, Juger, EtapesVerrou
  <2> QED
    BY <1>4, <2>1 DEF VerrouExclusif, VerrouLibre
<1>6. ASSUME NEW r \in Requetes \ {p}
      PROVE  (ParcoursOk(r) /\ IdentifiantNeuf(r) /\ LectureOk(r) /\ DecisionOk(r))'
  BY <1>1, <1>4 DEF ParcoursOk, IdentifiantNeuf, LectureOk, DecisionOk, Devance
<1>7. ASSUME NEW r \in Requetes \ {p} PROVE TransactionOk(r)'
  <2>1. PrerequisEcrits(r)' = PrerequisEcrits(r)
    BY <1>1, <1>4 DEF PrerequisEcrits
  <2>2. Sain(r, Existantes, PrerequisEcrits(r))' = Sain(r, Existantes, PrerequisEcrits(r))
    BY <1>1, <1>2, <2>1 DEF Sain, Acyclique, Graphe
  <2> QED
    BY <1>1, <1>2, <1>4, <2>1, <2>2 DEF TransactionOk
<1>8. ParcoursOk(p)'
  BY <1>1 DEF Charger, ChargerPrerequis, Lire, LirePrerequis, LirePrealables, Lister,
         ListerPrerequis, Verrouiller, RelirePrealables, Ecrire, Verifier, Abandonner,
         tables, locales, Aller, Repondre, Juger, ParcoursOk, EtapesPage, EtapesVerrou, Pas, Operations
<1>9. IdentifiantNeuf(p)'
  BY <1>1 DEF Charger, ChargerPrerequis, Lire, LirePrerequis, LirePrealables, Lister,
         ListerPrerequis, Verrouiller, RelirePrealables, Ecrire, Verifier, Abandonner,
         Aller, Repondre, Juger, IdentifiantNeuf, ParcoursOk, EtapesPage
<1>10. LectureOk(p)'
  <2>1. CASE Charger(p)
    BY <1>1, <2>1 DEF Charger, Aller, Repondre, LectureOk
  <2>2. CASE ChargerPrerequis(p)
    BY <1>1, <2>2 DEF ChargerPrerequis, Aller, LectureOk
  <2>3. CASE Lire(p)
    BY <1>1, <2>3 DEF Lire, Aller, Repondre, LectureOk, Devance, Statuts
  <2>4. CASE LirePrerequis(p)
    BY <1>1, <2>4 DEF LirePrerequis, Aller, Repondre, LectureOk, Devance
  <2>5. CASE LirePrealables(p) \/ Lister(p) \/ ListerPrerequis(p) \/ Verrouiller(p)
             \/ RelirePrealables(p) \/ Ecrire(p) \/ Verifier(p) \/ Abandonner(p)
    BY <1>1, <2>5, SMTT(60) DEF LirePrealables, Lister, ListerPrerequis, Verrouiller, RelirePrealables,
       Ecrire, Verifier, Abandonner, locales, Aller, Repondre, Juger, LectureOk,
       ParcoursOk, EtapesPage
  <2> QED
    BY <2>1, <2>2, <2>3, <2>4, <2>5
<1>11. DecisionOk(p)'
  <2>1. CASE LirePrerequis(p)
    BY <1>1, <2>1 DEF LirePrerequis, Aller, Repondre, DecisionOk, EtapesDecidees, EtapesVerrou
  <2>2. CASE LirePrealables(p)
    BY <1>1, <2>2 DEF LirePrealables, Aller, Repondre, locales, DecisionOk, EtapesDecidees,
       EtapesVerrou, ParcoursOk
  <2>3. CASE Charger(p) \/ ChargerPrerequis(p) \/ Lire(p)
    BY <1>1, <2>3 DEF Charger, ChargerPrerequis, Lire, Aller, Repondre, DecisionOk,
       EtapesDecidees, EtapesVerrou
  <2>4. CASE Lister(p) \/ ListerPrerequis(p) \/ Verrouiller(p)
             \/ RelirePrealables(p) \/ Ecrire(p) \/ Verifier(p) \/ Abandonner(p)
    BY <1>1, <2>4, SMTT(60) DEF Lister, ListerPrerequis, Verrouiller, RelirePrealables, Ecrire, Verifier,
       Abandonner, locales, Aller, Repondre, Juger, DecisionOk, EtapesDecidees, EtapesVerrou
  <2> QED
    BY <2>1, <2>2, <2>3, <2>4
<1>12. TransactionOk(p)'
  <2>1. CASE Charger(p) \/ ChargerPrerequis(p) \/ Lire(p) \/ LirePrerequis(p)
             \/ LirePrealables(p) \/ Lister(p) \/ ListerPrerequis(p) \/ Abandonner(p)
    BY <2>1 DEF Charger, ChargerPrerequis, Lire, LirePrerequis, LirePrealables, Lister,
       ListerPrerequis, Abandonner, Aller, Repondre, Juger, TransactionOk
  <2>2. CASE Verrouiller(p)
    BY <1>1, <2>2 DEF Verrouiller, Aller, TransactionOk
  <2>3. CASE RelirePrealables(p)
    BY <1>1, <2>3 DEF RelirePrealables, Aller, Repondre, locales, TransactionOk
  <2>4. CASE Ecrire(p)
    BY <1>1, <2>4 DEF Ecrire, Aller, Repondre, locales, TransactionOk
  <2>5. CASE Verifier(p)
    <3>1. PrerequisEcrits(p)' = PrerequisEcrits(p)
      BY <1>1, <2>5 DEF PrerequisEcrits, Verifier, locales
    <3>2. Sain(p, Existantes, PrerequisEcrits(p))' = Sain(p, Existantes, PrerequisEcrits(p))
      BY <1>1, <1>2, <3>1 DEF Sain, Acyclique, Graphe
    <3> QED
      BY <1>1, <1>2, <2>5, <3>1, <3>2
         DEF Verifier, Juger, Aller, Repondre, locales, TransactionOk, ParcoursOk
  <2> QED
    BY <2>1, <2>2, <2>3, <2>4, <2>5
<1> QED
  BY <1>3, <1>5, <1>6, <1>7, <1>8, <1>9, <1>10, <1>11, <1>12

(* The commit: under the lock, what the transaction has checked is still   *)
(* what it writes over.                                                    *)
LEMMA InvValider ==
  ASSUME Inv, NEW p \in Requetes, Valider(p)
  PROVE  /\ Coherence' /\ SansCycle' /\ DemarrageLegitime'
         /\ Avance(cible[p])
<1> DEFINE c == cible[p]
           deps == PrerequisEcrits(p)
<1> USE DEF Inv, TypeOK, Coherence
<1>1. /\ pc[p] = "valider"
      /\ avance' = [avance EXCEPT ![c] = StatutEcrit(p)]
      /\ prerequis' = [prerequis EXCEPT ![c] = deps]
      /\ version' = [version EXCEPT ![c] = version[c] + 1]
      /\ pc' = [pc EXCEPT ![p] = "fini"]
      /\ UNCHANGED <<op, cible, soumis, attendue, vus, lue, connues>>
      /\ reponse'[p] # "aucune"
      /\ \A r \in Requetes \ {p} : reponse'[r] = reponse[r]
  BY DEF Valider, Repondre, locales
<1>2. c \in Etapes /\ StatutEcrit(p) \in {"prevue", "en_cours", "terminee"} /\ deps \subseteq Etapes
  <2>1. op[p] = "modifier" => lue[p].avance \in {"prevue", "en_cours", "terminee"}
    BY <1>1 DEF LectureOk, Devance, Statuts
  <2>2. StatutEcrit(p) \in {"prevue", "en_cours", "terminee"}
    BY <2>1 DEF StatutEcrit, Operations
  <2>3. deps \subseteq Etapes
    BY DEF PrerequisEcrits, Operations
  <2> QED
    BY <2>2, <2>3
<1>3. Avance(c)
  <2>1. avance'[c] = StatutEcrit(p) /\ prerequis'[c] = deps
    BY <1>1, <1>2
  <2>2. CASE op[p] = "creer"
    BY <1>1, <1>2, <2>1, <2>2 DEF Avance, StatutEcrit, IdentifiantNeuf
  <2>3. ASSUME op[p] # "creer"
        PROVE  lue[p].avance = avance[c] /\ lue[p].prerequis = prerequis[c]
    BY <1>1, <2>3 DEF LectureOk, TransactionOk
  <2>4. CASE op[p] = "modifier"
    <3>1. avance'[c] = avance[c] /\ deps = soumis[p] /\ avance[c] \in Statuts
      BY <1>2, <2>1, <2>3, <2>4 DEF StatutEcrit, PrerequisEcrits
    <3>2. avance[c] # "absente"
      BY <1>1, <2>4 DEF LectureOk
    <3>3. avance[c] = "prevue" \/ deps = prerequis[c]
      BY <1>1, <2>3, <2>4, <3>1 DEF DecisionOk, EtapesDecidees, EtapesVerrou
    <3> QED
      BY <1>2, <2>1, <3>1, <3>2, <3>3 DEF Avance, DemarrageLegitime, Statuts
  <2>5. CASE op[p] = "demarrer"
    <3>1. avance[c] = "prevue" /\ avance'[c] = "en_cours" /\ deps = prerequis[c]
      BY <1>1, <2>1, <2>3, <2>5 DEF StatutEcrit, PrerequisEcrits, DecisionOk,
         EtapesDecidees, EtapesVerrou
    <3> QED
      BY <1>1, <2>1, <2>5, <3>1 DEF Avance, TransactionOk
  <2>6. CASE op[p] = "terminer"
    <3>1. avance[c] = "en_cours" /\ avance'[c] = "terminee" /\ deps = prerequis[c]
      BY <1>1, <2>1, <2>3, <2>6 DEF StatutEcrit, PrerequisEcrits, DecisionOk,
         EtapesDecidees, EtapesVerrou
    <3> QED
      BY <2>1, <3>1 DEF Avance
  <2> QED
    BY <2>2, <2>4, <2>5, <2>6 DEF Operations
<1>4. Existantes' = Existantes \cup {c}
  BY <1>1, <1>2 DEF Existantes
<1>5. deps \subseteq Existantes \ {c}
  BY <1>1 DEF TransactionOk, PrerequisEcrits, ReferencesOk
<1>6. ReferencesOk'
  BY <1>1, <1>2, <1>4, <1>5 DEF ReferencesOk
<1>7. SansCycle'
  <2>1. CASE op[p] = "demarrer"
    <3>1. prerequis' = prerequis
      BY <1>1, <2>1 DEF PrerequisEcrits
    <3>2. Existantes' = Existantes
      BY <1>1, <1>4, <2>1 DEF LectureOk, Existantes
    <3> QED
      BY <3>1, <3>2 DEF SansCycle, Acyclique
  <2>2. CASE op[p] # "demarrer"
    <3>1. Sain(p, Existantes, deps)
      BY <1>1, <2>2 DEF TransactionOk
    <3>2. \A e \in Etapes : Graphe(p, Existantes, deps)[e] = prerequis'[e] \cap (Existantes \cup {c})
      BY <1>1, <1>2 DEF Graphe
    <3>3. ASSUME NEW C \in SUBSET (Existantes \cup {c}), C # {}
          PROVE  \E e \in C : prerequis'[e] \cap C = {}
      <4>1. PICK e \in C : Graphe(p, Existantes, deps)[e] \cap C = {}
        BY <3>1, <3>3 DEF Sain, Acyclique
      <4>2. e \in Etapes
        BY <1>2 DEF Existantes
      <4> QED
        BY <3>2, <4>1, <4>2
    <3> QED
      BY <1>4, <3>3 DEF SansCycle, Acyclique
  <2> QED
    BY <2>1, <2>2
<1>8. DemarrageLegitime'
  <2> SUFFICES ASSUME NEW e \in Etapes, avance'[e] \in {"en_cours", "terminee"},
                      NEW f \in prerequis'[e]
               PROVE  avance'[f] = "terminee"
    BY DEF DemarrageLegitime
  <2>1. avance[e] \in {"en_cours", "terminee"} \/ avance'[e] = "en_cours"
    BY <1>1, <1>2, <1>3 DEF Avance
  <2>2. avance[f] = "terminee" /\ f \in Etapes
    <3>1. prerequis[e] \subseteq Etapes
      OBVIOUS
    <3>2. CASE e = c
      <4>1. (avance[e] \in {"en_cours", "terminee"} /\ prerequis'[e] = prerequis[e])
            \/ (avance[e] = "prevue" /\ avance'[e] = "en_cours")
        BY <1>3, <2>1, <3>2 DEF Avance
      <4>2. avance'[e] = "en_cours" => prerequis'[e] = prerequis[e]
        BY <1>1, <1>2, <3>2, <4>1 DEF StatutEcrit, PrerequisEcrits, LectureOk, TransactionOk,
           Operations
      <4> QED
        BY <1>3, <3>1, <3>2, <4>1, <4>2 DEF Avance, DemarrageLegitime
    <3>3. CASE e # c
      BY <1>1, <2>1, <3>1, <3>3 DEF DemarrageLegitime
    <3> QED
      BY <3>2, <3>3
  <2> QED
    BY <1>1, <1>2, <1>3, <2>2 DEF Avance
<1>9. VerrouExclusif'
  BY <1>1 DEF VerrouExclusif, EtapesVerrou
<1>10. ASSUME NEW r \in Requetes \ {p}
       PROVE  ParcoursOk(r)' /\ DecisionOk(r)' /\ TransactionOk(r)'
  <2>1. pc[r] \notin EtapesVerrou
    BY <1>1, <1>10 DEF VerrouExclusif, EtapesVerrou
  <2> QED
    BY <1>1, <2>1 DEF ParcoursOk, DecisionOk, TransactionOk, EtapesVerrou
<1>11. ASSUME NEW r \in Requetes \ {p} PROVE IdentifiantNeuf(r)'
  <2>1. op[r] = "creer" /\ pc[r] # "fini" => cible[r] # c
    BY <1>1 DEF IdentifiantNeuf, LectureOk
  <2> QED
    BY <1>1, <1>2, <2>1 DEF IdentifiantNeuf
<1>12. ASSUME NEW r \in Requetes \ {p} PROVE LectureOk(r)'
  <2>1. CASE cible[r] # c
    BY <1>1, <1>2, <2>1 DEF LectureOk
  <2>2. CASE cible[r] = c
    <3>1. version'[c] = version[c] + 1 /\ avance'[c] = StatutEcrit(p)
      BY <1>1, <1>2
    <3>2. attendue[r] <= version[c] /\ version[c] \in Nat /\ attendue[r] \in Nat
      BY <1>2, <2>2 DEF LectureOk
    <3>3. attendue'[r] <= version'[c] /\ version'[c] # attendue'[r]
      BY <1>1, <3>1, <3>2
    <3>4. ASSUME Devance(lue[r].avance, avance[c]) PROVE Devance(lue[r].avance, avance'[c])
      BY <1>3, <3>1, <3>4 DEF Devance, Avance
    <3> QED
      BY <1>1, <1>2, <2>2, <3>1, <3>3, <3>4 DEF LectureOk
  <2> QED
    BY <2>1, <2>2
<1>13. /\ ParcoursOk(p)' /\ DecisionOk(p)' /\ TransactionOk(p)'
       /\ IdentifiantNeuf(p)' /\ LectureOk(p)'
  BY <1>1, <1>2 DEF ParcoursOk, DecisionOk, TransactionOk, IdentifiantNeuf, LectureOk,
     EtapesPage, EtapesDecidees, EtapesVerrou
<1> QED
  BY <1>3, <1>6, <1>7, <1>8, <1>9, <1>10, <1>11, <1>12, <1>13

LEMMA InvNext == Inv /\ [Next]_vars => Coherence' /\ SansCycle' /\ DemarrageLegitime'
<1> SUFFICES ASSUME Inv, [Next]_vars PROVE Coherence' /\ SansCycle' /\ DemarrageLegitime'
  OBVIOUS
<1>1. CASE \E p \in Requetes : Etape(p) \/ Abandonner(p)
  <2>1. PICK p \in Requetes : Etape(p) \/ Abandonner(p)
    BY <1>1
  <2>2. CASE Valider(p)
    BY <2>2, InvValider
  <2>3. CASE ~Valider(p)
    BY <2>1, <2>3, InvSansEcriture DEF Etape
  <2> QED
    BY <2>2, <2>3
<1>2. CASE UNCHANGED vars
  <2> USE DEF Inv, Coherence
  <2>1. /\ UNCHANGED <<avance, prerequis, version, op, cible, soumis, attendue, vus, lue, pc>>
        /\ UNCHANGED reponse
    BY <1>2 DEF vars, tables, locales
  <2>2. UNCHANGED Existantes
    BY <2>1 DEF Existantes
  <2>3. SansCycle' /\ DemarrageLegitime' /\ ReferencesOk' /\ VerrouExclusif'
    BY <2>1, <2>2 DEF SansCycle, Acyclique, DemarrageLegitime, ReferencesOk, VerrouExclusif
  <2>4. ASSUME NEW p \in Requetes
        PROVE  (ParcoursOk(p) /\ IdentifiantNeuf(p) /\ LectureOk(p) /\ DecisionOk(p))'
    BY <2>1 DEF ParcoursOk, IdentifiantNeuf, LectureOk, DecisionOk
  <2>5. ASSUME NEW p \in Requetes PROVE TransactionOk(p)'
    <3>1. UNCHANGED PrerequisEcrits(p)
      BY <2>1 DEF PrerequisEcrits
    <3>2. UNCHANGED Sain(p, Existantes, PrerequisEcrits(p))
      BY <2>1, <2>2, <3>1 DEF Sain, Acyclique, Graphe
    <3> QED
      BY <2>1, <2>2, <3>1, <3>2 DEF TransactionOk
  <2> QED
    BY <2>3, <2>4, <2>5
<1> QED
  BY <1>1, <1>2 DEF Next, Repos

(* Only a commit writes the tables. *)
LEMMA PasValider ==
  ASSUME [Next]_vars, tables' # tables
  PROVE  \E p \in Requetes : Valider(p)
BY DEF Next, Etape, Repos, vars, Charger, ChargerPrerequis, Lire, LirePrerequis,
   LirePrealables, Lister, ListerPrerequis, Verrouiller, RelirePrealables, Ecrire,
   Verifier, Abandonner

(* Whatever a request relies on between two round trips stays true. *)
THEOREM Coherente == Spec => []Coherence
<1>1. Init => Inv
  BY InvInit
<1>2. Inv /\ [Next]_vars /\ TypeOK' => Inv'
  BY InvNext DEF Inv
<1>3. Inv => Coherence
  BY DEF Inv
<1> QED
  BY <1>1, <1>2, <1>3, TypeCorrect, PTL DEF Spec

(* No interleaving of edits, starts and ends closes a cycle. *)
THEOREM Acyclicite == Spec => []SansCycle
<1>1. Inv /\ [Next]_vars /\ TypeOK' => Inv'
  BY InvNext DEF Inv
<1>2. Inv => SansCycle
  BY DEF Inv
<1> QED
  BY <1>1, <1>2, InvInit, TypeCorrect, PTL DEF Spec

(* What has started had all its prerequisites finished, and still has. *)
THEOREM Legitime == Spec => []DemarrageLegitime
<1>1. Inv /\ [Next]_vars /\ TypeOK' => Inv'
  BY InvNext DEF Inv
<1>2. Inv => DemarrageLegitime
  BY DEF Inv
<1> QED
  BY <1>1, <1>2, InvInit, TypeCorrect, PTL DEF Spec

(* The works never block: among the steps not finished, one depends on     *)
(* none of the others, so it is under way or can be started.               *)
THEOREM Vivace == Spec => []JamaisBloque
<1>1. TypeOK /\ Coherence /\ SansCycle => JamaisBloque
  <2> SUFFICES ASSUME TypeOK, ReferencesOk, SansCycle,
                      NEW e0 \in Existantes, avance[e0] # "terminee"
               PROVE  \E e \in Existantes :
                         \/ avance[e] = "en_cours"
                         \/ avance[e] = "prevue" /\ \A f \in prerequis[e] : avance[f] = "terminee"
    BY DEF JamaisBloque, Coherence
  <2> DEFINE C == {e \in Existantes : avance[e] # "terminee"}
  <2>1. PICK e \in C : prerequis[e] \cap C = {}
    BY DEF SansCycle, Acyclique
  <2>2. \A f \in prerequis[e] : avance[f] = "terminee"
    BY <2>1 DEF ReferencesOk, Existantes
  <2>3. avance[e] \in {"prevue", "en_cours"}
    BY DEF TypeOK, Statuts, Existantes
  <2> QED
    BY <2>2, <2>3
<1> QED
  BY <1>1, TypeCorrect, Coherente, Acyclicite, PTL

(* No lost update: at its commit, a request writes over what its page      *)
(* showed and its service read.                                            *)
THEOREM SansPerte == Spec => []RienEcraseSansLeVoir
<1>1. Coherence => RienEcraseSansLeVoir
  BY DEF Coherence, RienEcraseSansLeVoir, LectureOk, TransactionOk
<1> QED
  BY <1>1, Coherente, PTL

(* The works only go forward. *)
THEOREM EnAvant == Spec => Avancement
<1>1. Inv /\ [Next]_vars =>
        [\A e \in Etapes :
          /\ <<avance[e], avance'[e]>> \in {<<s, s>> : s \in Statuts} \cup
                {<<"absente", "prevue">>, <<"prevue", "en_cours">>, <<"en_cours", "terminee">>}
          /\ avance[e] \in {"en_cours", "terminee"} => prerequis'[e] = prerequis[e]
          /\ version'[e] = version[e] =>
                avance'[e] = avance[e] /\ prerequis'[e] = prerequis[e]]_tables
  <2> SUFFICES ASSUME Inv, [Next]_vars, tables' # tables, NEW e \in Etapes
               PROVE  /\ <<avance[e], avance'[e]>> \in {<<s, s>> : s \in Statuts} \cup
                            {<<"absente", "prevue">>, <<"prevue", "en_cours">>, <<"en_cours", "terminee">>}
                      /\ avance[e] \in {"en_cours", "terminee"} => prerequis'[e] = prerequis[e]
                      /\ version'[e] = version[e] =>
                            avance'[e] = avance[e] /\ prerequis'[e] = prerequis[e]
    BY DEF tables
  <2>1. PICK p \in Requetes : Valider(p)
    BY PasValider
  <2>2. CASE e = cible[p]
    <3>1. Avance(e)
      BY <2>1, <2>2, InvValider
    <3>2. version[e] \in Nat /\ version'[e] = version[e] + 1
      BY <2>1, <2>2 DEF Inv, TypeOK, Valider
    <3> QED
      BY <3>1, <3>2 DEF Avance, Statuts
  <2>3. CASE e # cible[p]
    BY <2>1, <2>3 DEF Inv, TypeOK, Valider
  <2> QED
    BY <2>2, <2>3
<1>2. Spec => []Inv
  <2>1. Inv /\ [Next]_vars /\ TypeOK' => Inv'
    BY InvNext DEF Inv
  <2> QED
    BY <2>1, InvInit, TypeCorrect, PTL DEF Spec
<1> QED
  BY <1>1, <1>2, PTL DEF Spec, Avancement

(* What callers are told is true when told, and stays true. *)
THEOREM Vraie == Spec => []ReponseVraie
<1>1. Init => ReponseVraie
  BY DEF Init, Saisies, Normalisees, IdentifiantsTires, ReponseVraie
<1>2. Inv /\ ReponseVraie /\ [Next]_vars => ReponseVraie'
  <2> SUFFICES ASSUME Inv, ReponseVraie, [Next]_vars PROVE ReponseVraie'
    OBVIOUS
  <2> USE DEF Inv, TypeOK, Coherence
  <2>1. ASSUME NEW p \in Requetes, Etape(p) \/ Abandonner(p), ~Valider(p)
        PROVE  ReponseVraie'
    <3> DEFINE c == cible[p]
    <3>1. UNCHANGED <<avance, prerequis, version, op, cible>>
      BY <2>1 DEF Etape, Charger, ChargerPrerequis, Lire, LirePrerequis, LirePrealables, Lister,
         ListerPrerequis, Verrouiller, RelirePrealables, Ecrire, Verifier, Abandonner,
         tables, locales
    <3>2. /\ pc[p] # "fini" /\ reponse[p] = "aucune"
          /\ \A r \in Requetes \ {p} : attendue'[r] = attendue[r] /\ reponse'[r] = reponse[r]
          /\ reponse'[p] # "aucune" => attendue'[p] = attendue[p]
      BY <2>1 DEF Etape, Charger, ChargerPrerequis, Lire, LirePrerequis, LirePrealables, Lister,
         ListerPrerequis, Verrouiller, RelirePrealables, Ecrire, Verifier, Abandonner,
         tables, locales, Aller, Repondre, Juger, ParcoursOk
    <3>3. attendue[p] <= version[c] /\ attendue[p] \in Nat /\ version[c] \in Nat
      BY DEF LectureOk
    <3>4. pc[p] \in {"lire_prerequis", "lire_prealables"} =>
             Devance(lue[p].avance, avance[c])
      BY DEF LectureOk, ParcoursOk, EtapesPage
    <3>5. avance[c] \in Statuts /\ lue[p].avance \in Statuts
      OBVIOUS
    <3>6. /\ reponse'[p] # "ok"
          /\ reponse'[p] = "conflit" => version[c] # attendue[p]
          /\ reponse'[p] \in {"prerequis_figes", "deja_demarree"} =>
                avance[c] \in {"en_cours", "terminee"}
          /\ reponse'[p] = "deja_terminee" => avance[c] = "terminee"
      BY <2>1, <3>2, <3>4, <3>5 DEF Etape, Charger, ChargerPrerequis, Lire, LirePrerequis,
         LirePrealables, Lister, ListerPrerequis, Verrouiller, RelirePrealables, Ecrire,
         Verifier, Abandonner, Aller, Repondre, Juger, Devance, Statuts
    <3> HIDE DEF Inv, TypeOK, Coherence
    <3>7. ASSUME NEW r \in Requetes \ {p}
          PROVE  UNCHANGED <<cible[r], op[r], attendue[r], reponse[r],
                             avance[cible[r]], version[cible[r]]>>
      BY <3>1, <3>2
    <3>8. /\ UNCHANGED <<cible[p], op[p], avance[c], version[c]>>
          /\ reponse'[p] # "aucune" => attendue'[p] = attendue[p]
      BY <3>1, <3>2
    <3>9. reponse'[p] = "conflit" => version[c] > attendue[p]
      <4>1. version[c] # attendue[p] => version[c] > attendue[p]
        BY <3>3
      <4> QED
        BY <3>6, <4>1
    <3> QED
      BY <3>6, <3>7, <3>8, <3>9 DEF ReponseVraie
  <2>2. ASSUME NEW p \in Requetes, Valider(p) PROVE ReponseVraie'
    <3> DEFINE c == cible[p]
    <3>1. /\ pc[p] = "valider" /\ c \in Etapes
          /\ avance' = [avance EXCEPT ![c] = StatutEcrit(p)]
          /\ version' = [version EXCEPT ![c] = version[c] + 1]
          /\ UNCHANGED <<op, cible, attendue>>
          /\ reponse'[p] \in {"ok", "abandon"}
          /\ \A r \in Requetes \ {p} : reponse'[r] = reponse[r]
      BY <2>2 DEF Valider, Repondre, locales
    <3>2. Avance(c) /\ version[c] \in Nat /\ attendue[p] \in Nat /\ attendue[p] <= version[c]
      BY <2>2, InvValider DEF LectureOk
    <3>3. version'[c] > attendue[p]
      BY <3>1, <3>2
    <3>4. /\ op[p] = "demarrer" => avance'[c] = "en_cours"
          /\ op[p] = "terminer" => avance'[c] = "terminee"
      BY <3>1 DEF StatutEcrit
    <3>5. ASSUME NEW e \in Etapes, NEW v \in Nat
          PROVE  /\ version[e] > v => version'[e] > v
                 /\ avance[e] \in {"en_cours", "terminee"} => avance'[e] \in {"en_cours", "terminee"}
                 /\ avance[e] = "terminee" => avance'[e] = "terminee"
      BY <3>1, <3>2 DEF Avance
    <3>6. ASSUME NEW r \in Requetes \ {p}
          PROVE  /\ cible[r] \in Etapes /\ attendue[r] \in Nat
                 /\ reponse'[r] = reponse[r]
      BY <3>1
    <3> QED
      BY <3>1, <3>3, <3>4, <3>5, <3>6 DEF ReponseVraie
  <2>3. CASE UNCHANGED vars
    BY <2>3 DEF ReponseVraie, vars, tables, locales
  <2> QED
    BY <2>1, <2>2, <2>3 DEF Next, Repos
<1>3. Spec => []Inv
  <2>1. Inv /\ [Next]_vars /\ TypeOK' => Inv'
    BY InvNext DEF Inv
  <2> QED
    BY <2>1, InvInit, TypeCorrect, PTL DEF Spec
<1> QED
  BY <1>1, <1>2, <1>3, PTL DEF Spec

(* Seen from the tables alone, every commit is one whole use case of the   *)
(* specification Chantier, or changes nothing.                             *)
THEOREM Implemente == Spec => PromesseTenue
<1>1. Init => Promesse!Init
  BY DEF Init, Saisies, Normalisees, IdentifiantsTires, Promesse!Init, Statuts, Existantes, Promesse!Existantes, Acyclique,
     Promesse!Acyclique
<1>2. Inv /\ [Next]_vars /\ SansCycle' => [Promesse!Next]_(Promesse!vars)
  <2> SUFFICES ASSUME Inv, [Next]_vars, SansCycle', tables' # tables
               PROVE  Promesse!Next \/ UNCHANGED Promesse!vars
    BY DEF Promesse!vars, tables
  <2>1. PICK p \in Requetes : Valider(p)
    BY PasValider
  <2> DEFINE c == cible[p]
             deps == PrerequisEcrits(p)
  <2> USE DEF Inv, TypeOK, Coherence
  <2>2. /\ pc[p] = "valider" /\ c \in Etapes
        /\ avance' = [avance EXCEPT ![c] = StatutEcrit(p)]
        /\ prerequis' = [prerequis EXCEPT ![c] = deps]
    BY <2>1 DEF Valider
  <2>3. op[p] # "creer" =>
           /\ lue[p].avance = avance[c] /\ lue[p].prerequis = prerequis[c]
           /\ avance[c] # "absente"
    BY <2>2 DEF LectureOk, TransactionOk
  <2>4. Existantes = Promesse!Existantes
    BY DEF Existantes, Promesse!Existantes
  <2>5. CASE op[p] = "creer"
    <3>1. avance[c] = "absente" /\ deps \subseteq Existantes /\ StatutEcrit(p) = "prevue"
      BY <2>2, <2>5 DEF IdentifiantNeuf, TransactionOk, StatutEcrit
    <3>2. deps \in SUBSET Etapes
      BY <3>1 DEF Existantes
    <3>3. Promesse!Creer(c, deps)
      BY <2>2, <2>4, <3>1 DEF Promesse!Creer
    <3> QED
      BY <2>2, <3>2, <3>3 DEF Promesse!Next
  <2>6. CASE op[p] = "modifier"
    <3>1. /\ StatutEcrit(p) = avance[c]
          /\ deps \subseteq Existantes \ {c}
          /\ avance[c] = "prevue" \/ deps = prerequis[c]
      BY <2>2, <2>3, <2>6 DEF StatutEcrit, PrerequisEcrits, TransactionOk, DecisionOk,
         EtapesDecidees, EtapesVerrou
    <3>2. avance' = avance /\ Existantes' = Existantes
      BY <2>2, <3>1 DEF Existantes
    <3>3. CASE avance[c] = "prevue"
      <4>1. Acyclique(prerequis', Existantes)
        BY <3>2 DEF SansCycle, Acyclique
      <4>2. Promesse!Modifier(c, deps)
        BY <2>2, <2>4, <3>1, <3>2, <3>3, <4>1 DEF Promesse!Modifier, Acyclique, Promesse!Acyclique
      <4>3. deps \in SUBSET Etapes
        BY <3>1 DEF Existantes
      <4> QED
        BY <2>2, <4>2, <4>3 DEF Promesse!Next
    <3>4. CASE deps = prerequis[c]
      BY <2>2, <3>2, <3>4 DEF Promesse!vars
    <3> QED
      BY <3>1, <3>3, <3>4
  <2>7. CASE op[p] = "demarrer"
    <3>1. /\ avance[c] = "prevue" /\ StatutEcrit(p) = "en_cours" /\ deps = prerequis[c]
          /\ \A f \in prerequis[c] : avance[f] = "terminee"
      BY <2>2, <2>3, <2>7 DEF StatutEcrit, PrerequisEcrits, TransactionOk, DecisionOk,
         EtapesDecidees, EtapesVerrou
    <3>2. Promesse!Demarrer(c)
      BY <2>2, <3>1 DEF Promesse!Demarrer
    <3> QED
      BY <2>2, <3>2 DEF Promesse!Next
  <2>8. CASE op[p] = "terminer"
    <3>1. avance[c] = "en_cours" /\ StatutEcrit(p) = "terminee" /\ deps = prerequis[c]
      BY <2>2, <2>3, <2>8 DEF StatutEcrit, PrerequisEcrits, DecisionOk, EtapesDecidees,
         EtapesVerrou
    <3>2. Promesse!Terminer(c)
      BY <2>2, <3>1 DEF Promesse!Terminer
    <3> QED
      BY <2>2, <3>2 DEF Promesse!Next
  <2> QED
    BY <2>5, <2>6, <2>7, <2>8 DEF Operations
<1>3. Inv => SansCycle
  BY DEF Inv
<1>4. Spec => []Inv
  <2>1. Inv /\ [Next]_vars /\ TypeOK' => Inv'
    BY InvNext DEF Inv
  <2> QED
    BY <2>1, InvInit, TypeCorrect, PTL DEF Spec
<1> QED
  BY <1>1, <1>2, <1>3, <1>4, PTL DEF Spec, PromesseTenue, Promesse!Spec
=============================================================================

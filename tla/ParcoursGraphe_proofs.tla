----------------------- MODULE ParcoursGraphe_proofs ------------------------
(* What TLAPS proves of CheckAcyclic for any graph of any size.            *)
EXTENDS ParcoursGraphe, SequenceTheorems, TLAPS

-----------------------------------------------------------------------------
(* The shape of the state is kept; the part of the trail that cycleLabel   *)
(* names exists because a grey step is on the trail.                       *)
LEMMA TypeNext == TypeOK /\ ParcoursOk /\ [Next]_vars => TypeOK'
<1> SUFFICES ASSUME TypeOK, ParcoursOk, [Next]_vars PROVE TypeOK'
  OBVIOUS
<1> USE DEF TypeOK
<1>1. ASSUME NEW e \in etapes, NEW autres \in [etapes -> SUBSET Noms], Visiter(e, autres),
             UNCHANGED <<donnees, verdict, boucle>>
      PROVE  TypeOK'
  BY <1>1 DEF Visiter, donnees
<1>2. CASE Commencer
  BY <1>1, <1>2 DEF Commencer
<1>3. CASE Avancer
  <2>1. PICK dep \in reste[Sommet] : Suivre(dep)
    BY <1>3 DEF Avancer
  <2> DEFINE autres == [reste EXCEPT ![Sommet] = @ \ {dep}]
  <2>2. chemin # <<>> /\ Sommet \in etapes /\ UNCHANGED donnees
    BY <1>3 DEF Avancer, Sommet
  <2>3. autres \in [etapes -> SUBSET Noms]
    BY <2>2
  <2>4. CASE reste' = autres /\ UNCHANGED <<couleurs, chemin, verdict, boucle>>
    BY <2>2, <2>3, <2>4 DEF donnees
  <2>5. CASE dep \in etapes /\ Visiter(dep, autres) /\ UNCHANGED <<verdict, boucle>>
    BY <1>1, <2>2, <2>3, <2>5
  <2>6. CASE /\ dep \in etapes /\ couleurs[dep] = "gris" /\ verdict' = "cycle"
             /\ boucle' = Nommer(dep) /\ UNCHANGED <<couleurs, chemin, reste>>
    <3>1. Nommer(dep) \in Seq(etapes)
      <4>1. PICK i \in 1..Len(chemin) : Nommer(dep) = SubSeq(chemin, i, Len(chemin))
        BY <2>6 DEF Nommer, ParcoursOk
      <4> QED
        BY <4>1
    <3> QED
      BY <2>2, <2>6, <3>1 DEF donnees
  <2> QED
    BY <2>1, <2>4, <2>5, <2>6 DEF Suivre
<1>4. CASE Revenir
  <2>1. Sommet \in etapes /\ SubSeq(chemin, 1, Len(chemin) - 1) \in Seq(etapes)
    BY <1>4 DEF Revenir, Sommet
  <2> QED
    BY <1>4, <2>1 DEF Revenir, donnees
<1>5. CASE Conclure
  BY <1>5 DEF Conclure, donnees
<1>6. CASE UNCHANGED vars
  BY <1>6 DEF vars, donnees
<1> QED
  BY <1>2, <1>3, <1>4, <1>5, <1>6 DEF Next, Fini
-----------------------------------------------------------------------------
(* A step turns grey: the trail grows by a prerequisite of its last step. *)
LEMMA ParcoursVisiter ==
  ASSUME TypeOK, ParcoursOk, UNCHANGED donnees,
         NEW e \in etapes, couleurs[e] = "blanc",
         chemin # <<>> => e \in prerequis[Sommet],
         NEW autres \in [etapes -> SUBSET Noms],
         \A i \in 1..Len(chemin) :
            /\ autres[chemin[i]] \subseteq reste[chemin[i]]
            /\ reste[chemin[i]] \ autres[chemin[i]] \subseteq
                  (IF i = Len(chemin) THEN {e} ELSE {}),
         Visiter(e, autres)
  PROVE  ParcoursOk'
<1> USE DEF TypeOK
<1> DEFINE n == Len(chemin)
<1>1. /\ n \in Nat /\ Len(chemin') = n + 1
      /\ \A i \in 1..n : chemin'[i] = chemin[i] /\ chemin[i] \in etapes
      /\ chemin'[n + 1] = e
  BY DEF Visiter
<1>2. /\ couleurs' = [couleurs EXCEPT ![e] = "gris"]
      /\ reste' = [autres EXCEPT ![e] = prerequis[e]]
      /\ UNCHANGED <<etapes, prerequis>>
  BY DEF Visiter, donnees
<1>3. \A i \in 1..n : chemin[i] # e /\ couleurs[chemin[i]] = "gris"
  BY <1>1 DEF ParcoursOk
<1>4. \A i, j \in 1..Len(chemin') : chemin'[i] = chemin'[j] => i = j
  BY <1>1, <1>3 DEF ParcoursOk
<1>5. \A f \in etapes' : couleurs'[f] = "gris" <=> \E i \in 1..Len(chemin') : chemin'[i] = f
  <2>1. ASSUME NEW f \in etapes, f # e
        PROVE  couleurs'[f] = "gris" <=> \E i \in 1..Len(chemin') : chemin'[i] = f
    <3>1. couleurs'[f] = "gris" <=> \E i \in 1..n : chemin[i] = f
      BY <1>2, <2>1 DEF ParcoursOk
    <3>2. ASSUME NEW i \in 1..n, chemin[i] = f PROVE i \in 1..Len(chemin') /\ chemin'[i] = f
      BY <1>1, <3>2
    <3>3. ASSUME NEW i \in 1..Len(chemin'), chemin'[i] = f PROVE i \in 1..n /\ chemin[i] = f
      BY <1>1, <2>1, <3>3
    <3> QED
      BY <3>1, <3>2, <3>3
  <2>2. couleurs'[e] = "gris" /\ \E i \in 1..Len(chemin') : chemin'[i] = e
    <3>1. n + 1 \in 1..Len(chemin')
      BY <1>1
    <3> QED
      BY <1>1, <1>2, <3>1
  <2>3. etapes' = etapes
    BY <1>2
  <2> QED
    BY <2>1, <2>2, <2>3
<1>6. \A i \in 1..(Len(chemin') - 1) : chemin'[i + 1] \in prerequis'[chemin'[i]]
  <2> SUFFICES ASSUME NEW i \in 1..n PROVE chemin'[i + 1] \in prerequis[chemin[i]]
    BY <1>1, <1>2
  <2>1. CASE i = n
    BY <1>1, <2>1 DEF Sommet
  <2>2. CASE i < n
    BY <1>1, <2>2 DEF ParcoursOk
  <2> QED
    BY <1>1, <2>1, <2>2
<1>7. ASSUME NEW i \in 1..Len(chemin')
      PROVE  /\ reste'[chemin'[i]] \subseteq prerequis'[chemin'[i]]
             /\ \A dep \in (prerequis'[chemin'[i]] \cap etapes') \ reste'[chemin'[i]] :
                   couleurs'[dep] = "noir" \/ (i < Len(chemin') /\ dep = chemin'[i + 1])
  <2>1. CASE i = n + 1
    BY <1>1, <1>2, <2>1
  <2>2. CASE i \in 1..n
    <3>1. /\ chemin'[i] = chemin[i] /\ chemin[i] # e /\ chemin[i] \in etapes
          /\ reste'[chemin[i]] = autres[chemin[i]]
      BY <1>1, <1>2, <1>3, <2>2
    <3>2. reste'[chemin'[i]] \subseteq prerequis'[chemin'[i]]
      BY <1>2, <2>2, <3>1 DEF ParcoursOk
    <3>3. ASSUME NEW dep \in (prerequis[chemin[i]] \cap etapes) \ autres[chemin[i]]
          PROVE  couleurs'[dep] = "noir" \/ (i < n + 1 /\ dep = chemin'[i + 1])
      <4>1. CASE dep \in reste[chemin[i]]
        <5>1. i = n /\ dep = e
          BY <2>2, <4>1
        <5> QED
          BY <1>1, <5>1
      <4>2. CASE dep \notin reste[chemin[i]]
        <5>1. couleurs[dep] = "noir" \/ (i < n /\ dep = chemin[i + 1])
          BY <2>2, <4>2 DEF ParcoursOk
        <5>2. CASE couleurs[dep] = "noir"
          BY <1>2, <5>2
        <5>3. CASE i < n /\ dep = chemin[i + 1]
          BY <1>1, <2>2, <5>3
        <5> QED
          BY <5>1, <5>2, <5>3
      <4> QED
        BY <4>1, <4>2
    <3> QED
      BY <1>1, <1>2, <3>1, <3>2, <3>3
  <2> QED
    BY <1>1, <2>1, <2>2
<1>8. {f \in etapes' : couleurs'[f] = "noir"} = {f \in etapes : couleurs[f] = "noir"}
  BY <1>2
<1>9. \A f \in etapes' : couleurs'[f] = "noir" =>
          \A dep \in prerequis'[f] \cap etapes' : couleurs'[dep] = "noir"
  BY <1>2 DEF ParcoursOk
<1>10. Acyclique(prerequis', {f \in etapes' : couleurs'[f] = "noir"})
  BY <1>2, <1>8 DEF ParcoursOk, Acyclique
<1> QED
  BY <1>4, <1>5, <1>6, <1>7, <1>9, <1>10 DEF ParcoursOk

(* The last step of the trail turns black: it depends only on black ones. *)
LEMMA ParcoursRevenir == TypeOK /\ ParcoursOk /\ Revenir => ParcoursOk'
<1> SUFFICES ASSUME TypeOK, ParcoursOk, Revenir PROVE ParcoursOk'
  OBVIOUS
<1> USE DEF TypeOK
<1> DEFINE n == Len(chemin)
           e == Sommet
           Noires == {f \in etapes : couleurs[f] = "noir"}
<1>1. /\ n \in Nat \ {0} /\ e \in etapes /\ chemin[n] = e
      /\ \A i \in 1..n : chemin[i] \in etapes
  BY DEF Revenir, Sommet
<1>2. /\ Len(chemin') = n - 1
      /\ \A i \in 1..(n - 1) : chemin'[i] = chemin[i]
  <2>1. chemin' = SubSeq(chemin, 1, n - 1) /\ chemin \in Seq(etapes)
    BY DEF Revenir
  <2> DEFINE m == n - 1
  <2>2. m \in Nat /\ 1 \in Int /\ m \in Int /\ \A i \in 1..m : chemin[i] \in etapes
    BY <1>1
  <2> HIDE DEF m
  <2>3. /\ Len(SubSeq(chemin, 1, m)) = IF 1 <= m THEN m - 1 + 1 ELSE 0
        /\ \A i \in 1..(m - 1 + 1) : SubSeq(chemin, 1, m)[i] = chemin[1 + i - 1]
    BY <2>2, SubSeqProperties
  <2>4. /\ Len(SubSeq(chemin, 1, m)) = m
        /\ \A i \in 1..m : SubSeq(chemin, 1, m)[i] = chemin[i]
    BY <2>2, <2>3
  <2> QED
    BY <2>1, <2>4 DEF m
<1>3. /\ couleurs' = [couleurs EXCEPT ![e] = "noir"]
      /\ UNCHANGED <<etapes, prerequis, reste>>
      /\ reste[e] = {}
  BY DEF Revenir, donnees
<1>4. couleurs[e] = "gris"
  BY <1>1 DEF ParcoursOk
<1>5. \A dep \in prerequis[e] \cap etapes : couleurs[dep] = "noir"
  <2>1. n \in 1..Len(chemin) /\ ~(n < Len(chemin))
    BY <1>1
  <2>2. \A dep \in (prerequis[chemin[n]] \cap etapes) \ reste[chemin[n]] :
           couleurs[dep] = "noir" \/ (n < Len(chemin) /\ dep = chemin[n + 1])
    BY <2>1 DEF ParcoursOk
  <2> QED
    BY <1>1, <1>3, <2>1, <2>2
<1>6. \A i, j \in 1..Len(chemin') : chemin'[i] = chemin'[j] => i = j
  <2> SUFFICES ASSUME NEW i \in 1..Len(chemin'), NEW j \in 1..Len(chemin'),
                      chemin'[i] = chemin'[j]
               PROVE  i = j
    OBVIOUS
  <2>1. i \in 1..n /\ j \in 1..n /\ chemin[i] = chemin[j]
    BY <1>1, <1>2
  <2> QED
    BY <2>1 DEF ParcoursOk
<1>7. \A f \in etapes' : couleurs'[f] = "gris" <=> \E i \in 1..Len(chemin') : chemin'[i] = f
  <2>1. ASSUME NEW f \in etapes, f # e
        PROVE  couleurs'[f] = "gris" <=> \E i \in 1..Len(chemin') : chemin'[i] = f
    <3>1. couleurs'[f] = "gris" <=> \E i \in 1..n : chemin[i] = f
      BY <1>3, <2>1 DEF ParcoursOk
    <3>2. ASSUME NEW i \in 1..n, chemin[i] = f PROVE i \in 1..Len(chemin') /\ chemin'[i] = f
      BY <1>1, <1>2, <2>1, <3>2
    <3>3. ASSUME NEW i \in 1..Len(chemin'), chemin'[i] = f PROVE i \in 1..n /\ chemin[i] = f
      BY <1>1, <1>2, <3>3
    <3> QED
      BY <3>1, <3>2, <3>3
  <2>2. couleurs'[e] # "gris" /\ \A i \in 1..Len(chemin') : chemin'[i] # e
    BY <1>1, <1>2, <1>3 DEF ParcoursOk
  <2> QED
    BY <1>3, <2>1, <2>2
<1>8. \A i \in 1..(Len(chemin') - 1) : chemin'[i + 1] \in prerequis'[chemin'[i]]
  <2> SUFFICES ASSUME NEW i \in 1..(n - 2) PROVE chemin'[i + 1] \in prerequis[chemin'[i]]
    BY <1>1, <1>2, <1>3
  <2>1. chemin[i + 1] \in prerequis[chemin[i]]
    BY <1>1 DEF ParcoursOk
  <2> QED
    BY <1>1, <1>2, <2>1
<1>9. ASSUME NEW i \in 1..Len(chemin')
      PROVE  /\ reste'[chemin'[i]] \subseteq prerequis'[chemin'[i]]
             /\ \A dep \in (prerequis'[chemin'[i]] \cap etapes') \ reste'[chemin'[i]] :
                   couleurs'[dep] = "noir" \/ (i < Len(chemin') /\ dep = chemin'[i + 1])
  <2>1. i \in 1..n /\ i < n /\ chemin'[i] = chemin[i] /\ chemin[i] \in etapes
    BY <1>1, <1>2
  <2>2. ASSUME NEW dep \in (prerequis[chemin[i]] \cap etapes) \ reste[chemin[i]]
        PROVE  couleurs'[dep] = "noir" \/ (i < n - 1 /\ dep = chemin'[i + 1])
    <3>1. couleurs[dep] = "noir" \/ dep = chemin[i + 1]
      BY <2>1 DEF ParcoursOk
    <3>2. CASE couleurs[dep] = "noir"
      BY <1>3, <3>2
    <3>3. CASE dep = chemin[i + 1] /\ i = n - 1
      BY <1>1, <1>3, <3>3
    <3>4. CASE dep = chemin[i + 1] /\ i < n - 1
      BY <1>2, <2>1, <3>4
    <3> QED
      BY <1>1, <2>1, <3>1, <3>2, <3>3, <3>4
  <2> QED
    BY <1>2, <1>3, <2>1, <2>2 DEF ParcoursOk
<1>10. {f \in etapes' : couleurs'[f] = "noir"} = Noires \cup {e}
  BY <1>1, <1>3
<1>11. \A f \in etapes' : couleurs'[f] = "noir" =>
          \A dep \in prerequis'[f] \cap etapes' : couleurs'[dep] = "noir"
  BY <1>1, <1>3, <1>5 DEF ParcoursOk
<1>12. ASSUME NEW C \in SUBSET (Noires \cup {e}), C # {}
       PROVE  \E f \in C : prerequis[f] \cap C = {}
  <2>1. CASE C = {e}
    BY <1>1, <1>4, <1>5, <2>1
  <2>2. CASE C # {e}
    <3>1. C \ {e} # {} /\ C \ {e} \in SUBSET Noires
      BY <1>12, <2>2
    <3>2. PICK f \in C \ {e} : prerequis[f] \cap (C \ {e}) = {}
      BY <3>1 DEF ParcoursOk, Acyclique
    <3>3. e \notin prerequis[f]
      BY <1>1, <1>4, <3>1, <3>2 DEF ParcoursOk
    <3> QED
      BY <3>2, <3>3
  <2> QED
    BY <2>1, <2>2
<1>13. Acyclique(prerequis', {f \in etapes' : couleurs'[f] = "noir"})
  BY <1>3, <1>10, <1>12 DEF Acyclique
<1> QED
  BY <1>6, <1>7, <1>8, <1>9, <1>11, <1>13 DEF ParcoursOk

LEMMA ParcoursNext == TypeOK /\ ParcoursOk /\ [Next]_vars => ParcoursOk'
<1> SUFFICES ASSUME TypeOK, ParcoursOk, [Next]_vars PROVE ParcoursOk'
  OBVIOUS
<1>1. CASE Commencer
  <2>1. PICK e \in etapes : couleurs[e] = "blanc" /\ Visiter(e, reste)
    BY <1>1 DEF Commencer
  <2> QED
    BY <1>1, <2>1, ParcoursVisiter DEF Commencer, TypeOK
<1>2. CASE Avancer
  <2>1. PICK dep \in reste[Sommet] : Suivre(dep)
    BY <1>2 DEF Avancer
  <2> DEFINE autres == [reste EXCEPT ![Sommet] = @ \ {dep}]
             n == Len(chemin)
  <2>2. /\ n \in Nat \ {0} /\ Sommet \in etapes /\ Sommet = chemin[n]
        /\ UNCHANGED donnees
        /\ \A i \in 1..n : chemin[i] \in etapes
    BY <1>2 DEF Avancer, Sommet, TypeOK
  <2>3. /\ autres \in [etapes -> SUBSET Noms]
        /\ \A f \in etapes : autres[f] = IF f = Sommet THEN reste[f] \ {dep} ELSE reste[f]
    BY <2>2 DEF TypeOK
  <2>4. \A i \in 1..n : chemin[i] = Sommet => i = n
    BY <2>2 DEF ParcoursOk
  <2>5. dep \in prerequis[Sommet]
    BY <2>2 DEF ParcoursOk
  <2>6. CASE /\ dep \in etapes => couleurs[dep] = "noir"
             /\ reste' = autres /\ UNCHANGED <<couleurs, chemin>>
    <3>1. UNCHANGED <<etapes, prerequis, couleurs, chemin>>
      BY <2>2, <2>6 DEF donnees
    <3>2. ASSUME NEW i \in 1..n
          PROVE  /\ reste'[chemin[i]] \subseteq prerequis[chemin[i]]
                 /\ \A d \in (prerequis[chemin[i]] \cap etapes) \ reste'[chemin[i]] :
                       couleurs[d] = "noir" \/ (i < n /\ d = chemin[i + 1])
      BY <2>2, <2>3, <2>6 DEF ParcoursOk
    <3> QED
      BY <3>1, <3>2 DEF ParcoursOk, Acyclique
  <2>7. CASE dep \in etapes /\ couleurs[dep] = "blanc" /\ Visiter(dep, autres)
    <3>1. \A i \in 1..n :
            /\ autres[chemin[i]] \subseteq reste[chemin[i]]
            /\ reste[chemin[i]] \ autres[chemin[i]] \subseteq
                  (IF i = n THEN {dep} ELSE {})
      <4>1. SUFFICES ASSUME NEW i \in 1..n
                     PROVE  /\ autres[chemin[i]] \subseteq reste[chemin[i]]
                            /\ reste[chemin[i]] \ autres[chemin[i]] \subseteq
                                  (IF i = n THEN {dep} ELSE {})
        OBVIOUS
      <4>2. CASE i = n
        BY <2>2, <2>3, <4>2
      <4>3. CASE i # n
        BY <2>2, <2>3, <2>4, <4>3
      <4> QED
        BY <4>2, <4>3
    <3>2. autres \in [etapes -> SUBSET Noms] /\ Visiter(dep, autres)
      BY <2>3, <2>7
    <3>3. chemin # <<>> => dep \in prerequis[Sommet]
      BY <2>5
    <3> HIDE DEF autres
    <3> QED
      BY <2>2, <2>7, <3>1, <3>2, <3>3, ParcoursVisiter
  <2>8. CASE UNCHANGED <<couleurs, chemin, reste>>
    BY <2>2, <2>8 DEF ParcoursOk, Acyclique, donnees
  <2> QED
    BY <2>1, <2>6, <2>7, <2>8 DEF Suivre
<1>3. CASE Revenir
  BY <1>3, ParcoursRevenir
<1>4. CASE Conclure \/ UNCHANGED vars
  <2>1. UNCHANGED <<etapes, prerequis, couleurs, chemin, reste>>
    BY <1>4 DEF Conclure, vars, donnees
  <2>2. UNCHANGED {e \in etapes : couleurs[e] = "noir"}
    BY <2>1
  <2> QED
    BY <2>1, <2>2 DEF ParcoursOk, Acyclique
<1> QED
  BY <1>1, <1>2, <1>3, <1>4 DEF Next, Fini

(* What is grey is the trail, what is black is done with. *)
THEOREM Parcours == Spec => [](TypeOK /\ ParcoursOk)
<1>1. Init => TypeOK /\ ParcoursOk
  BY DEF Init, TypeOK, ParcoursOk, Acyclique
<1> QED
  BY <1>1, TypeNext, ParcoursNext, PTL DEF Spec

-----------------------------------------------------------------------------
LEMMA VerdictNext ==
  TypeOK /\ ParcoursOk /\ VerdictJuste /\ BoucleNommee /\ TypeOK' /\ [Next]_vars
    => VerdictJuste' /\ BoucleNommee'
<1> SUFFICES ASSUME TypeOK, ParcoursOk, VerdictJuste, BoucleNommee, TypeOK', [Next]_vars
             PROVE  VerdictJuste' /\ BoucleNommee'
  OBVIOUS
<1>1. CASE Conclure
  <2>1. \A e \in etapes : couleurs[e] = "noir"
    BY <1>1 DEF Conclure, TypeOK, ParcoursOk
  <2>2. {e \in etapes : couleurs[e] = "noir"} = etapes
    BY <2>1
  <2> QED
    BY <1>1, <2>2 DEF Conclure, donnees, ParcoursOk, VerdictJuste, BoucleNommee, Acyclique
<1>2. CASE UNCHANGED <<donnees, verdict, boucle>>
  BY <1>2 DEF donnees, VerdictJuste, BoucleNommee, Acyclique
<1>3. CASE Avancer /\ verdict' # verdict
  <2>1. PICK dep \in reste[Sommet] \cap etapes :
           couleurs[dep] = "gris" /\ verdict' = "cycle" /\ boucle' = Nommer(dep)
    BY <1>3 DEF Avancer, Suivre
  <2> DEFINE n == Len(chemin)
  <2>2. /\ n \in Nat \ {0} /\ Sommet = chemin[n] /\ UNCHANGED donnees
        /\ chemin \in Seq(etapes)
    BY <1>3 DEF Avancer, Sommet, TypeOK
  <2>3. PICK d \in 1..n : chemin[d] = dep /\ boucle' = SubSeq(chemin, d, n)
    BY <2>1 DEF Nommer, ParcoursOk
  <2>4. /\ Len(boucle') = n - d + 1
        /\ \A i \in 1..(n - d + 1) : boucle'[i] = chemin[d + i - 1]
    BY <2>2, <2>3
  <2>5. dep \in prerequis[chemin[n]]
    BY <2>1, <2>2 DEF ParcoursOk
  <2>6. ASSUME NEW i \in 1..Len(boucle')
        PROVE  boucle'[IF i = Len(boucle') THEN 1 ELSE i + 1] \in prerequis'[boucle'[i]]
    <3>1. CASE i = n - d + 1
      <4>1. boucle'[1] = dep /\ boucle'[i] = chemin[n]
        BY <2>2, <2>3, <2>4, <3>1
      <4> QED
        BY <2>2, <2>4, <2>5, <3>1, <4>1 DEF donnees
    <3>2. CASE i < n - d + 1
      <4>1. boucle'[i + 1] = chemin[(d + i - 1) + 1] /\ boucle'[i] = chemin[d + i - 1]
        BY <2>2, <2>4, <3>2
      <4>2. d + i - 1 \in 1..(n - 1)
        BY <2>2, <3>2
      <4>3. chemin[(d + i - 1) + 1] \in prerequis[chemin[d + i - 1]]
        BY <4>2 DEF ParcoursOk
      <4> QED
        BY <2>2, <2>4, <3>2, <4>1, <4>3 DEF donnees
    <3>3. i \in 1..(n - d + 1) /\ n - d + 1 \in Nat
      BY <2>2, <2>4
    <3> QED
      BY <3>1, <3>2, <3>3
  <2>7. ASSUME NEW i \in 1..Len(boucle'), NEW j \in 1..Len(boucle'), boucle'[i] = boucle'[j]
        PROVE  i = j
    <3>1. d + i - 1 \in 1..n /\ d + j - 1 \in 1..n
      BY <2>2, <2>4
    <3>2. d + i - 1 = d + j - 1
      BY <2>4, <2>7, <3>1 DEF ParcoursOk
    <3> QED
      BY <2>2, <2>4, <3>2
  <2>8. BoucleNommee'
    BY <2>2, <2>4, <2>6, <2>7 DEF BoucleNommee
  <2>9. (~Acyclique(prerequis, etapes))'
    <3> DEFINE C == {boucle'[i] : i \in 1..Len(boucle')}
    <3>1. C \in SUBSET etapes' /\ C # {}
      BY <2>2, <2>4 DEF TypeOK
    <3>2. ASSUME NEW e \in C PROVE prerequis'[e] \cap C # {}
      <4>1. PICK i \in 1..Len(boucle') : e = boucle'[i]
        BY <3>2
      <4> DEFINE j == IF i = Len(boucle') THEN 1 ELSE i + 1
      <4>2. j \in 1..Len(boucle')
        <5>1. Len(boucle') \in Nat \ {0}
          BY <2>2, <2>4
        <5>2. i = Len(boucle') \/ (i # Len(boucle') /\ i + 1 \in 1..Len(boucle'))
          BY <5>1
        <5> QED
          BY <5>1, <5>2
      <4>3. boucle'[j] \in prerequis'[boucle'[i]]
        BY <2>6
      <4> QED
        BY <4>1, <4>2, <4>3
    <3> QED
      BY <3>1, <3>2 DEF Acyclique
  <2> QED
    BY <2>1, <2>8, <2>9 DEF VerdictJuste
<1> QED
  BY <1>1, <1>2, <1>3 DEF Next, Commencer, Avancer, Suivre, Revenir, Fini, vars

LEMMA VerdictToujours == Spec => [](VerdictJuste /\ BoucleNommee)
<1>1. Init => VerdictJuste /\ BoucleNommee
  BY DEF Init, VerdictJuste, BoucleNommee
<1> QED
  BY <1>1, VerdictNext, Parcours, PTL DEF Spec

(* CheckAcyclic is right for every graph: it refuses those with a cycle, *)
(* and no other.                                                         *)
THEOREM Juste == Spec => []VerdictJuste
BY VerdictToujours, PTL

(* The loop CheckAcyclic names is a simple cycle of the graph. *)
THEOREM Nommee == Spec => []BoucleNommee
BY VerdictToujours, PTL
-----------------------------------------------------------------------------
(* The walk of a graph of any size only goes forward: with finitely many   *)
(* steps and prerequisites it can take finitely many turns.                *)
THEOREM EnAvant == Spec => ChaquePasAvance
<1> DEFINE Fonce == \A e \in etapes : couleurs'[e] # couleurs[e] =>
              <<couleurs[e], couleurs'[e]>> \in {<<"blanc", "gris">>, <<"gris", "noir">>}
           Reduit == \A e \in etapes : couleurs[e] # "blanc" => reste'[e] \subseteq reste[e]
           Progresse == \/ verdict = "aucun" /\ verdict' # "aucun"
                        \/ \E e \in etapes : \/ couleurs'[e] # couleurs[e]
                                             \/ couleurs[e] = "gris" /\ reste'[e] # reste[e]
<1>1. ASSUME TypeOK, ParcoursOk, Next, vars' # vars PROVE Fonce /\ Reduit /\ Progresse
  <2> USE <1>1 DEF TypeOK
  <2>1. chemin # <<>> => /\ Sommet \in etapes
                         /\ couleurs[Sommet] = "gris"
    BY DEF Sommet, ParcoursOk
  <2>2. ASSUME NEW e \in etapes, couleurs[e] = "blanc",
               NEW autres \in [etapes -> SUBSET Noms], Visiter(e, autres),
               \A f \in etapes : autres[f] \subseteq reste[f]
        PROVE  Fonce /\ Reduit /\ Progresse
    BY <2>2 DEF Visiter
  <2>3. CASE Commencer
    BY <2>2, <2>3 DEF Commencer
  <2>4. CASE Avancer
    <3>1. PICK dep \in reste[Sommet] : Suivre(dep)
      BY <2>4 DEF Avancer
    <3> DEFINE autres == [reste EXCEPT ![Sommet] = @ \ {dep}]
    <3>2. /\ chemin # <<>> /\ Sommet \in etapes
          /\ couleurs[Sommet] = "gris" /\ verdict = "aucun"
      BY <2>1, <2>4 DEF Avancer
    <3>3. /\ autres \in [etapes -> SUBSET Noms]
          /\ \A f \in etapes : autres[f] \subseteq reste[f]
          /\ autres[Sommet] # reste[Sommet]
      BY <3>1, <3>2
    <3>4. CASE reste' = autres /\ UNCHANGED <<couleurs, chemin, verdict, boucle>>
      BY <3>2, <3>3, <3>4
    <3>5. CASE dep \in etapes /\ couleurs[dep] = "blanc" /\ Visiter(dep, autres)
      BY <2>2, <3>3, <3>5
    <3>6. CASE verdict' = "cycle" /\ UNCHANGED <<couleurs, chemin, reste>>
      BY <3>2, <3>6
    <3> QED
      BY <3>1, <3>4, <3>5, <3>6 DEF Suivre
  <2>5. CASE Revenir
    BY <2>1, <2>5 DEF Revenir
  <2>6. CASE Conclure
    BY <2>6 DEF Conclure
  <2> QED
    BY <2>3, <2>4, <2>5, <2>6 DEF Next, Fini
<1>2. TypeOK /\ ParcoursOk /\ [Next]_vars =>
        [Fonce /\ Reduit /\ Progresse]_vars
  BY <1>1
<1> QED
  BY <1>2, Parcours, PTL DEF Spec, ChaquePasAvance
=============================================================================

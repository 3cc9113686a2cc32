----------------------- MODULE DecisionDevis_proofs -----------------------
(* What TLAPS proves of DecisionDevis for any requests, demandes, devis    *)
(* and pool size.                                                          *)
EXTENDS DecisionDevis, FiniteSetTheorems, TLAPS

-----------------------------------------------------------------------------
(* The state between round trips is always of the declared shape.          *)
THEOREM TypeCorrect == Spec => []TypeOK
<1> USE DevisAssumption
<1>1. Init => TypeOK
  BY DEF Init, Saisies, IdentifiantsTires, TypeOK, Premiere, Operations, Statuts, Reponses, Etapes, EtapesConnexion, EtapesVerrou
<1>2. TypeOK /\ [Next]_vars => TypeOK'
  <2> SUFFICES ASSUME TypeOK, [Next]_vars PROVE TypeOK'
    OBVIOUS
  <2> USE DEF TypeOK, Operations, Statuts, Reponses, Etapes, EtapesConnexion, EtapesVerrou,
              Aller, Repondre, tables
  <2>1. ASSUME NEW q \in Demandes, DemanderDevis(q) PROVE TypeOK'
    BY <2>1 DEF DemanderDevis
  <2>2. ASSUME NEW p \in Requetes, LireDemande(p) PROVE TypeOK'
    BY <2>2 DEF LireDemande
  <2>3. ASSUME NEW p \in Requetes, LireDevis(p) PROVE TypeOK'
    BY <2>3 DEF LireDevis
  <2>4. ASSUME NEW p \in Requetes, LireSoeurs(p) PROVE TypeOK'
    BY <2>4 DEF LireSoeurs, Suite
  <2>5. ASSUME NEW p \in Requetes, PrendreConnexion(p) PROVE TypeOK'
    BY <2>5 DEF PrendreConnexion
  <2>6. ASSUME NEW p \in Requetes, Inserer(p) PROVE TypeOK'
    BY <2>6 DEF Inserer
  <2>7. ASSUME NEW p \in Requetes, Verrouiller(p) PROVE TypeOK'
    BY <2>7 DEF Verrouiller
  <2>8. ASSUME NEW p \in Requetes, MajRetenu(p) PROVE TypeOK'
    BY <2>8 DEF MajRetenu
  <2>9. ASSUME NEW p \in Requetes, MajSoeurs(p) PROVE TypeOK'
    BY <2>9 DEF MajSoeurs, EnAttente, Soeurs
  <2>10. ASSUME NEW p \in Requetes, Valider(p) PROVE TypeOK'
    BY <2>10 DEF Valider, Signer
  <2>11. ASSUME NEW p \in Requetes, MajRefus(p) PROVE TypeOK'
    BY <2>11 DEF MajRefus, Signer
  <2>12. ASSUME NEW p \in Requetes, Expliquer(p) PROVE TypeOK'
    BY <2>12 DEF Expliquer
  <2>13. ASSUME NEW p \in Requetes, Relire(p) PROVE TypeOK'
    BY <2>13 DEF Relire
  <2>14. ASSUME NEW p \in Requetes, Abandonner(p) PROVE TypeOK'
    BY <2>14 DEF Abandonner
  <2>15. CASE UNCHANGED vars
    BY <2>15 DEF vars
  <2> QED
    BY <2>1, <2>2, <2>3, <2>4, <2>5, <2>6, <2>7, <2>8, <2>9, <2>10, <2>11, <2>12,
       <2>13, <2>14, <2>15 DEF Next, Etape, Repos
<1> QED
  BY <1>1, <1>2, PTL DEF Spec

-----------------------------------------------------------------------------
(* The inductive invariant: DemandeTranchee alone is not inductive, a      *)
(* retention that commits must know that what it wrote is still what it    *)
(* found, which is what Coherence says of every request.                   *)
Inv == TypeOK /\ Coherence /\ DemandeTranchee

Pas == Coherence' /\ DemandeTranchee'

LEMMA InvInit == Init => Inv
<1> SUFFICES ASSUME Init PROVE Coherence /\ DemandeTranchee
  BY DevisAssumption DEF Inv, Init, Saisies, IdentifiantsTires, TypeOK, Premiere, Operations, Statuts, Reponses,
     Etapes, EtapesConnexion, EtapesVerrou
<1>1. DemandeTranchee
  BY DEF Init, DemandeTranchee
<1>2. VerrouExclusif
  BY DEF Init, Saisies, IdentifiantsTires, Premiere, VerrouExclusif, EtapesVerrou
<1>3. ASSUME NEW d \in Devis PROVE LigneCoherente(d)
  BY DEF Init, Saisies, IdentifiantsTires, LigneCoherente
<1>4. ASSUME NEW p \in Requetes
      PROVE  ParcoursOk(p) /\ IdentifiantNeuf(p) /\ LectureOk(p) /\ EcritureOk(p) /\ SignatureOk(p)
  BY DevisAssumption DEF Init, Saisies, IdentifiantsTires, Premiere, Operations, ParcoursOk, IdentifiantNeuf, LectureOk,
     EcritureOk, SignatureOk, EtapesVerrou, EtapesRetenue, EtapesRefus, EtapesSaisie
<1> QED
  BY <1>1, <1>2, <1>3, <1>4 DEF Coherence

(* Steps that write no table and hold no lock when they end. *)
LEMMA InvLectures ==
  ASSUME NEW p \in Requetes, Inv,
         \/ LireDemande(p) \/ LireDevis(p) \/ LireSoeurs(p) \/ PrendreConnexion(p)
         \/ Expliquer(p) \/ Relire(p) \/ Abandonner(p)
  PROVE  Pas
<1> USE DevisAssumption
    DEF Inv, TypeOK, Operations, Statuts, Reponses, Etapes, EtapesConnexion, EtapesVerrou,
       EtapesRetenue, EtapesRefus, EtapesSaisie, Aller, Repondre, tables, Pas,
       Coherence, DemandeTranchee, ParcoursOk, IdentifiantNeuf, LectureOk, EcritureOk,
       VerrouExclusif, SignatureOk, LigneCoherente, ClosePour, EnAttente, Soeurs
<1>1. CASE LireDemande(p)
  BY <1>1, SMTT(60) DEF LireDemande
<1>2. CASE LireDevis(p)
  BY <1>2, SMTT(60) DEF LireDevis
<1>3. CASE LireSoeurs(p)
  BY <1>3, SMTT(60) DEF LireSoeurs, Suite
<1>4. CASE PrendreConnexion(p)
  BY <1>4, SMTT(60) DEF PrendreConnexion
<1>5. CASE Expliquer(p)
  BY <1>5, SMTT(60) DEF Expliquer
<1>6. CASE Relire(p)
  BY <1>6, SMTT(60) DEF Relire
<1>7. CASE Abandonner(p)
  BY <1>7, SMTT(60) DEF Abandonner
<1> QED
  BY <1>1, <1>2, <1>3, <1>4, <1>5, <1>6, <1>7

LEMMA InvDemanderDevis ==
  ASSUME NEW q \in Demandes, Inv, DemanderDevis(q)
  PROVE  Pas
BY DevisAssumption, SMTT(60)
   DEF DemanderDevis, Inv, TypeOK, Operations, Statuts, Reponses, Etapes, EtapesConnexion, EtapesVerrou,
   EtapesRetenue, EtapesRefus, EtapesSaisie, Aller, Repondre, tables, Pas,
   Coherence, DemandeTranchee, ParcoursOk, IdentifiantNeuf, LectureOk, EcritureOk,
   VerrouExclusif, SignatureOk, LigneCoherente, ClosePour, EnAttente, Soeurs

(* An insertion takes the row of the demande: no retention is between its  *)
(* first and its last write, so what it has found is complete.             *)
LEMMA InvInserer ==
  ASSUME NEW p \in Requetes, Inv, Inserer(p)
  PROVE  Pas
<1> USE DevisAssumption
    DEF Inv, TypeOK, Operations, Statuts, Reponses, Etapes, EtapesConnexion, EtapesVerrou,
       Aller, Repondre, tables, Coherence
<1>1. ASSUME NEW r \in Requetes PROVE ParcoursOk(r)'
  BY DEF Inserer, ParcoursOk, EtapesRetenue, EtapesRefus, EtapesSaisie
<1>2. ASSUME NEW r \in Requetes PROVE IdentifiantNeuf(r)'
  BY DEF Inserer, IdentifiantNeuf, ParcoursOk, EtapesRetenue, EtapesRefus, EtapesSaisie
<1>3. ASSUME NEW r \in Requetes PROVE LectureOk(r)'
  BY DEF Inserer, LectureOk, IdentifiantNeuf, ParcoursOk, EtapesRetenue, EtapesRefus, EtapesSaisie
<1>4. ASSUME NEW r \in Requetes PROVE EcritureOk(r)'
  BY SMTT(60) DEF Inserer, VerrouLibre, Tient, EcritureOk, VerrouExclusif, IdentifiantNeuf, ParcoursOk,
     EtapesRetenue, EtapesRefus, EtapesSaisie, ClosePour, EnAttente, Soeurs
<1>5. ASSUME NEW r \in Requetes PROVE SignatureOk(r)'
  BY DEF Inserer, SignatureOk, IdentifiantNeuf, LigneCoherente, ParcoursOk, EtapesSaisie
<1>6. VerrouExclusif'
  BY DEF Inserer, VerrouLibre, Tient, VerrouExclusif
<1>7. ASSUME NEW d \in Devis PROVE LigneCoherente(d)'
  BY DEF Inserer, VerrouLibre, Tient, LigneCoherente, IdentifiantNeuf, EcritureOk, ParcoursOk, EtapesSaisie,
     EnAttente, Soeurs
<1>8. DemandeTranchee'
  BY SMTT(60) DEF Inserer, VerrouLibre, Tient, DemandeTranchee, EcritureOk, ClosePour, EnAttente, Soeurs
<1> QED
  BY <1>1, <1>2, <1>3, <1>4, <1>5, <1>6, <1>7, <1>8 DEF Pas

(* The lock is free when taken: two retentions never hold it.              *)
LEMMA InvVerrouiller ==
  ASSUME NEW p \in Requetes, Inv, Verrouiller(p)
  PROVE  Pas
<1> USE DevisAssumption
    DEF Inv, TypeOK, Operations, Statuts, Reponses, Etapes, EtapesConnexion, EtapesVerrou,
       Aller, Repondre, tables, Coherence
<1>1. ASSUME NEW r \in Requetes PROVE ParcoursOk(r)'
  BY DEF Verrouiller, ParcoursOk, EtapesRetenue, EtapesRefus, EtapesSaisie
<1>2. ASSUME NEW r \in Requetes PROVE IdentifiantNeuf(r)'
  BY DEF Verrouiller, IdentifiantNeuf, ParcoursOk, EtapesRetenue, EtapesRefus, EtapesSaisie
<1>3. ASSUME NEW r \in Requetes PROVE LectureOk(r)'
  BY DEF Verrouiller, LectureOk, ParcoursOk, EtapesRetenue, EtapesRefus, EtapesSaisie
<1>4. ASSUME NEW r \in Requetes PROVE EcritureOk(r)'
  BY SMTT(60) DEF Verrouiller, VerrouLibre, Tient, EcritureOk, VerrouExclusif, IdentifiantNeuf, ParcoursOk,
     EtapesRetenue, EtapesRefus, EtapesSaisie, ClosePour, EnAttente, Soeurs
<1>5. ASSUME NEW r \in Requetes PROVE SignatureOk(r)'
  BY DEF Verrouiller, VerrouLibre, Tient, SignatureOk, EcritureOk, LigneCoherente, ParcoursOk, EtapesRetenue
<1>6. VerrouExclusif'
  BY DEF Verrouiller, VerrouLibre, Tient, VerrouExclusif
<1>7. ASSUME NEW d \in Devis PROVE LigneCoherente(d)'
  BY DEF Verrouiller, VerrouLibre, Tient, LigneCoherente, IdentifiantNeuf, EcritureOk, ParcoursOk, EtapesSaisie,
     EnAttente, Soeurs
<1>8. DemandeTranchee'
  BY SMTT(60) DEF Verrouiller, VerrouLibre, Tient, DemandeTranchee, EcritureOk, ClosePour, EnAttente, Soeurs
<1> QED
  BY <1>1, <1>2, <1>3, <1>4, <1>5, <1>6, <1>7, <1>8 DEF Pas

LEMMA InvMajRetenu ==
  ASSUME NEW p \in Requetes, Inv, MajRetenu(p)
  PROVE  Pas
<1> USE DevisAssumption
    DEF Inv, TypeOK, Operations, Statuts, Reponses, Etapes, EtapesConnexion, EtapesVerrou,
       Aller, Repondre, tables, Coherence
<1>1. ASSUME NEW r \in Requetes PROVE ParcoursOk(r)'
  BY DEF MajRetenu, ParcoursOk, EtapesRetenue, EtapesRefus, EtapesSaisie
<1>2. ASSUME NEW r \in Requetes PROVE IdentifiantNeuf(r)'
  BY DEF MajRetenu, IdentifiantNeuf, ParcoursOk, EtapesRetenue, EtapesRefus, EtapesSaisie
<1>3. ASSUME NEW r \in Requetes PROVE LectureOk(r)'
  BY DEF MajRetenu, LectureOk, ParcoursOk, EtapesRetenue, EtapesRefus, EtapesSaisie
<1>4. ASSUME NEW r \in Requetes PROVE EcritureOk(r)'
  BY SMTT(60) DEF MajRetenu, LigneLibre, EcritureOk, VerrouExclusif, IdentifiantNeuf, ParcoursOk,
     EtapesRetenue, EtapesRefus, EtapesSaisie, ClosePour, EnAttente, Soeurs
<1>5. ASSUME NEW r \in Requetes PROVE SignatureOk(r)'
  BY DEF MajRetenu, LigneLibre, SignatureOk, EcritureOk, LigneCoherente, ParcoursOk, EtapesRetenue
<1>6. VerrouExclusif'
  BY DEF MajRetenu, LigneLibre, VerrouExclusif
<1>7. ASSUME NEW d \in Devis PROVE LigneCoherente(d)'
  BY DEF MajRetenu, LigneLibre, LigneCoherente, IdentifiantNeuf, EcritureOk, ParcoursOk, EtapesSaisie,
     EnAttente, Soeurs
<1>8. DemandeTranchee'
  BY SMTT(60) DEF MajRetenu, LigneLibre, DemandeTranchee, EcritureOk, ClosePour, EnAttente, Soeurs
<1> QED
  BY <1>1, <1>2, <1>3, <1>4, <1>5, <1>6, <1>7, <1>8 DEF Pas

LEMMA InvMajSoeurs ==
  ASSUME NEW p \in Requetes, Inv, MajSoeurs(p)
  PROVE  Pas
<1> USE DevisAssumption
    DEF Inv, TypeOK, Operations, Statuts, Reponses, Etapes, EtapesConnexion, EtapesVerrou,
       Aller, Repondre, tables, Coherence
<1>1. ASSUME NEW r \in Requetes PROVE ParcoursOk(r)'
  BY DEF MajSoeurs, ParcoursOk, EtapesRetenue, EtapesRefus, EtapesSaisie
<1>2. ASSUME NEW r \in Requetes PROVE IdentifiantNeuf(r)'
  BY DEF MajSoeurs, IdentifiantNeuf, ParcoursOk, EtapesRetenue, EtapesRefus, EtapesSaisie
<1>3. ASSUME NEW r \in Requetes PROVE LectureOk(r)'
  BY DEF MajSoeurs, LectureOk, ParcoursOk, EtapesRetenue, EtapesRefus, EtapesSaisie
<1>4. ASSUME NEW r \in Requetes PROVE EcritureOk(r)'
  BY SMTT(60) DEF MajSoeurs, LigneLibre, EcritureOk, VerrouExclusif, IdentifiantNeuf, ParcoursOk,
     EtapesRetenue, EtapesRefus, EtapesSaisie, ClosePour, EnAttente, Soeurs
<1>5. ASSUME NEW r \in Requetes PROVE SignatureOk(r)'
  BY DEF MajSoeurs, LigneLibre, SignatureOk, EcritureOk, LigneCoherente, ParcoursOk, EtapesRetenue
<1>6. VerrouExclusif'
  BY DEF MajSoeurs, LigneLibre, VerrouExclusif
<1>7. ASSUME NEW d \in Devis PROVE LigneCoherente(d)'
  BY DEF MajSoeurs, LigneLibre, LigneCoherente, IdentifiantNeuf, EcritureOk, ParcoursOk, EtapesSaisie,
     EnAttente, Soeurs
<1>8. DemandeTranchee'
  BY SMTT(60) DEF MajSoeurs, LigneLibre, DemandeTranchee, EcritureOk, ClosePour, EnAttente, Soeurs
<1> QED
  BY <1>1, <1>2, <1>3, <1>4, <1>5, <1>6, <1>7, <1>8 DEF Pas

(* The commit: nothing it wrote has moved since it wrote it.               *)
LEMMA InvValider ==
  ASSUME NEW p \in Requetes, Inv, Valider(p)
  PROVE  Pas
<1> USE DevisAssumption
    DEF Inv, TypeOK, Operations, Statuts, Reponses, Etapes, EtapesConnexion, EtapesVerrou,
       Aller, Repondre, tables, Coherence
<1>1. ASSUME NEW r \in Requetes PROVE ParcoursOk(r)'
  BY DEF Valider, ParcoursOk, EtapesRetenue, EtapesRefus, EtapesSaisie
<1>2. ASSUME NEW r \in Requetes PROVE IdentifiantNeuf(r)'
  BY DEF Valider, IdentifiantNeuf, EcritureOk, EnAttente, Soeurs, ParcoursOk, EtapesSaisie
<1>3. ASSUME NEW r \in Requetes PROVE LectureOk(r)'
  BY DEF Valider, LectureOk, ParcoursOk, EtapesRetenue, EtapesRefus, EtapesSaisie
<1>4. ASSUME NEW r \in Requetes PROVE EcritureOk(r)'
  BY SMTT(60) DEF Valider, Signer, EcritureOk, VerrouExclusif, IdentifiantNeuf, ParcoursOk,
     EtapesRetenue, EtapesRefus, EtapesSaisie, ClosePour, EnAttente, Soeurs
<1>5. ASSUME NEW r \in Requetes PROVE SignatureOk(r)'
  BY DEF Valider, Signer, SignatureOk, EcritureOk, EnAttente, Soeurs, LigneCoherente,
     ParcoursOk, EtapesRetenue
<1>6. VerrouExclusif'
  BY DEF Valider, Signer, VerrouExclusif
<1>7. ASSUME NEW d \in Devis PROVE LigneCoherente(d)'
  BY DEF Valider, Signer, LigneCoherente, IdentifiantNeuf, EcritureOk, ParcoursOk, EtapesSaisie,
     EnAttente, Soeurs
<1>8. DemandeTranchee'
  BY SMTT(60) DEF Valider, Signer, DemandeTranchee, EcritureOk, ClosePour, EnAttente, Soeurs
<1> QED
  BY <1>1, <1>2, <1>3, <1>4, <1>5, <1>6, <1>7, <1>8 DEF Pas

(* A rejection takes no lock on the demande; the row lock is what keeps it *)
(* off the rows of an open retention.                                      *)
LEMMA InvMajRefus ==
  ASSUME NEW p \in Requetes, Inv, MajRefus(p)
  PROVE  Pas
<1> USE DevisAssumption
    DEF Inv, TypeOK, Operations, Statuts, Reponses, Etapes, EtapesConnexion, EtapesVerrou,
       Aller, Repondre, tables, Coherence
<1>1. ASSUME NEW r \in Requetes PROVE ParcoursOk(r)'
  BY DEF MajRefus, ParcoursOk, EtapesRetenue, EtapesRefus, EtapesSaisie
<1>2. ASSUME NEW r \in Requetes PROVE IdentifiantNeuf(r)'
  BY DEF MajRefus, IdentifiantNeuf, ParcoursOk, EtapesRetenue, EtapesRefus, EtapesSaisie
<1>3. ASSUME NEW r \in Requetes PROVE LectureOk(r)'
  BY DEF MajRefus, LectureOk, ParcoursOk, EtapesRetenue, EtapesRefus, EtapesSaisie
<1>4. ASSUME NEW r \in Requetes PROVE EcritureOk(r)'
  BY SMTT(60) DEF MajRefus, Signer, LigneLibre, EcritureOk, VerrouExclusif, IdentifiantNeuf, ParcoursOk,
     EtapesRetenue, EtapesRefus, EtapesSaisie, ClosePour, EnAttente, Soeurs
<1>5. ASSUME NEW r \in Requetes PROVE SignatureOk(r)'
  BY DEF MajRefus, Signer, SignatureOk, LigneCoherente, ParcoursOk, EtapesRetenue,
     EtapesRefus
<1>6. VerrouExclusif'
  BY DEF MajRefus, Signer, LigneLibre, VerrouExclusif
<1>7. ASSUME NEW d \in Devis PROVE LigneCoherente(d)'
  BY DEF MajRefus, Signer, LigneLibre, LigneCoherente, IdentifiantNeuf, EcritureOk, ParcoursOk, EtapesSaisie,
     EnAttente, Soeurs
<1>8. DemandeTranchee'
  BY SMTT(60) DEF MajRefus, Signer, LigneLibre, DemandeTranchee, EcritureOk, ClosePour, EnAttente, Soeurs
<1> QED
  BY <1>1, <1>2, <1>3, <1>4, <1>5, <1>6, <1>7, <1>8 DEF Pas

LEMMA InvNext == Inv /\ [Next]_vars => Pas
<1> SUFFICES ASSUME Inv, [Next]_vars PROVE Pas
  OBVIOUS
<1>1. ASSUME NEW q \in Demandes, DemanderDevis(q) PROVE Pas
  BY <1>1, InvDemanderDevis
<1>2. ASSUME NEW p \in Requetes, Etape(p) \/ Abandonner(p) PROVE Pas
  BY <1>2, InvLectures, InvInserer, InvVerrouiller, InvMajRetenu, InvMajSoeurs, InvValider,
     InvMajRefus DEF Etape
<1>3. CASE UNCHANGED vars
  BY <1>3 DEF vars, Inv, Pas, Coherence, DemandeTranchee, ParcoursOk, IdentifiantNeuf,
     LectureOk, EcritureOk, VerrouExclusif, SignatureOk, LigneCoherente, ClosePour,
     EnAttente, Soeurs
<1> QED
  BY <1>1, <1>2, <1>3 DEF Next, Repos

(* Whatever a request relies on between two round trips stays true.        *)
THEOREM Coherente == Spec => []Coherence
<1>1. Spec => []TypeOK
  BY TypeCorrect
<1>2. TypeOK /\ Coherence /\ DemandeTranchee /\ [Next]_vars
      => Coherence' /\ DemandeTranchee'
  BY InvNext DEF Inv, Pas
<1>3. Init => Coherence /\ DemandeTranchee
  BY InvInit DEF Inv
<1> QED
  BY <1>1, <1>2, <1>3, PTL DEF Spec

(* A demande with a retained devis has no other devis retained or waiting. *)
THEOREM Tranchee == Spec => []DemandeTranchee
<1>1. TypeOK /\ Coherence /\ DemandeTranchee /\ [Next]_vars
      => Coherence' /\ DemandeTranchee'
  BY InvNext DEF Inv, Pas
<1>2. Init => Coherence /\ DemandeTranchee
  BY InvInit DEF Inv
<1> QED
  BY TypeCorrect, <1>1, <1>2, PTL DEF Spec

-----------------------------------------------------------------------------
(* Every step of the program is, on the tables, one step of Consultation   *)
(* or none: the use cases look atomic whatever their interleaving.         *)
LEMMA PasPromesse ==
  ASSUME Inv, [Next]_vars
  PROVE  [Promesse!Next]_(Promesse!vars)
<1> USE DevisAssumption DEF Inv, TypeOK, Coherence, tables, Promesse!vars
<1>1. ASSUME NEW q \in Demandes, DemanderDevis(q) PROVE Promesse!Demander(q)
  BY <1>1 DEF DemanderDevis, Promesse!Demander
<1>2. ASSUME NEW p \in Requetes,
             \/ LireDemande(p) \/ LireDevis(p) \/ LireSoeurs(p) \/ PrendreConnexion(p)
             \/ Expliquer(p) \/ Relire(p) \/ Abandonner(p) \/ Verrouiller(p)
             \/ MajRetenu(p) \/ MajSoeurs(p)
      PROVE  UNCHANGED tables
  BY <1>2 DEF LireDemande, LireDevis, LireSoeurs, PrendreConnexion, Expliquer, Relire,
     Abandonner, Verrouiller, MajRetenu, MajSoeurs
<1>3. ASSUME NEW p \in Requetes, Inserer(p)
      PROVE  Promesse!Enregistrer(cible[p]) \/ UNCHANGED tables
  BY <1>3 DEF Inserer, Promesse!Enregistrer, Promesse!ClosePour, Promesse!Soeurs,
     ClosePour, Soeurs, IdentifiantNeuf, ParcoursOk, EtapesSaisie
<1>4. ASSUME NEW p \in Requetes, Valider(p) PROVE Promesse!Retenir(cible[p], p)
  <2>1. /\ ecrit[p] = {cible[p]} \cup EnAttente(cible[p])
        /\ statut[cible[p]] = "recu"
        /\ ~ClosePour(cible[p])
    BY <1>4 DEF Valider, EcritureOk
  <2> QED
    BY <1>4, <2>1 DEF Valider, Signer, EnAttente, Promesse!Retenir, Promesse!ClosePour,
       Promesse!Soeurs, ClosePour, Soeurs
<1>5. ASSUME NEW p \in Requetes, MajRefus(p)
      PROVE  Promesse!Refuser(cible[p], p) \/ UNCHANGED tables
  BY <1>5 DEF MajRefus, Signer, Promesse!Refuser
<1>6. CASE UNCHANGED vars
  BY <1>6 DEF vars
<1> QED
  BY <1>1, <1>2, <1>3, <1>4, <1>5, <1>6 DEF Next, Etape, Repos, Promesse!Next

(* The component keeps the promise of Consultation.                        *)
THEOREM Implemente == Spec => PromesseTenue
<1>1. Init => Promesse!Init
  BY DEF Init, Saisies, IdentifiantsTires, Promesse!Init
<1>2. TypeOK /\ Coherence /\ DemandeTranchee /\ [Next]_vars => [Promesse!Next]_(Promesse!vars)
  BY PasPromesse DEF Inv
<1> QED
  BY TypeCorrect, Coherente, Tranchee, <1>1, <1>2, PTL DEF Spec, PromesseTenue, Promesse!Spec

-----------------------------------------------------------------------------
(* A decided devis keeps its status and its decision for ever.             *)
THEOREM Definitive == Spec => DecisionDefinitive
<1>1. TypeOK /\ Coherence /\ DemandeTranchee /\ [Next]_vars =>
        [\A d \in Devis : statut[d] \in {"retenu", "refuse"} =>
            statut'[d] = statut[d] /\ decidePar'[d] = decidePar[d]]_tables
  <2> SUFFICES ASSUME Inv, [Next]_vars, NEW d \in Devis, statut[d] \in {"retenu", "refuse"},
                      ~UNCHANGED tables
               PROVE  statut'[d] = statut[d] /\ decidePar'[d] = decidePar[d]
    BY DEF Inv
  <2> USE DEF Inv, TypeOK, tables, Promesse!vars
  <2>1. CASE \E q \in Demandes : Promesse!Demander(q)
    BY <2>1 DEF Promesse!Demander
  <2>2. CASE \E e \in Devis : Promesse!Enregistrer(e)
    BY <2>2 DEF Promesse!Enregistrer
  <2>3. CASE \E e \in Devis, p \in Requetes : Promesse!Retenir(e, p)
    BY <2>3 DEF Promesse!Retenir, Promesse!Soeurs
  <2>4. CASE \E e \in Devis, p \in Requetes : Promesse!Refuser(e, p)
    BY <2>4 DEF Promesse!Refuser
  <2> QED
    BY PasPromesse, <2>1, <2>2, <2>3, <2>4 DEF Promesse!Next
<1> QED
  BY TypeCorrect, Coherente, Tranchee, <1>1, PTL DEF Spec, DecisionDefinitive

-----------------------------------------------------------------------------
(* A step keeps every refusal together with the retention it comes from.   *)
LEMMA PasIndivisible ==
  ASSUME Inv, DecisionIndivisible, [Next]_vars
  PROVE  DecisionIndivisible'
<1> USE DevisAssumption
    DEF Inv, TypeOK, Coherence, DecisionIndivisible, Aller, Repondre, tables
<1>1. ASSUME NEW q \in Demandes, DemanderDevis(q) PROVE DecisionIndivisible'
  BY <1>1 DEF DemanderDevis, Soeurs
<1>2. ASSUME NEW p \in Requetes,
             \/ LireDemande(p) \/ LireDevis(p) \/ LireSoeurs(p) \/ PrendreConnexion(p)
             \/ Expliquer(p) \/ Relire(p) \/ Abandonner(p) \/ Verrouiller(p)
             \/ MajRetenu(p) \/ MajSoeurs(p)
      PROVE  UNCHANGED tables /\ UNCHANGED <<op, cible>>
  BY <1>2 DEF LireDemande, LireDevis, LireSoeurs, PrendreConnexion, Expliquer, Relire,
     Abandonner, Verrouiller, MajRetenu, MajSoeurs
<1>3. ASSUME NEW p \in Requetes, Inserer(p) PROVE DecisionIndivisible'
  BY <1>3 DEF Inserer, Soeurs, IdentifiantNeuf, ParcoursOk, EtapesSaisie
<1>4. ASSUME NEW p \in Requetes, Valider(p) PROVE DecisionIndivisible'
  BY <1>4 DEF Valider, Signer, EnAttente, Soeurs, EcritureOk, LigneCoherente, ParcoursOk,
     EtapesRetenue, EtapesVerrou
<1>5. ASSUME NEW p \in Requetes, MajRefus(p) PROVE DecisionIndivisible'
  BY <1>5 DEF MajRefus, Signer, Soeurs, LigneCoherente, ParcoursOk, EtapesRefus
<1>6. CASE UNCHANGED vars
  BY <1>6 DEF vars, Soeurs
<1> QED
  BY <1>1, <1>2, <1>3, <1>4, <1>5, <1>6 DEF Next, Etape, Repos, Soeurs

(* A retention never leaves half a decision behind.                        *)
THEOREM Indivisible == Spec => []DecisionIndivisible
<1>1. Init => DecisionIndivisible
  BY DEF Init, DecisionIndivisible
<1>2. TypeOK /\ Coherence /\ DemandeTranchee /\ DecisionIndivisible /\ [Next]_vars
      => DecisionIndivisible'
  BY PasIndivisible DEF Inv
<1> QED
  BY TypeCorrect, Coherente, Tranchee, <1>1, <1>2, PTL DEF Spec

(* A step keeps what callers were told true.                               *)
LEMMA PasReponse ==
  ASSUME Inv, ReponseVraie, [Next]_vars
  PROVE  ReponseVraie'
<1> USE DevisAssumption
    DEF Inv, TypeOK, Coherence, Operations, Statuts, Reponses, Aller, Repondre, tables
<1>1. ASSUME NEW q \in Demandes, DemanderDevis(q) PROVE ReponseVraie'
  BY <1>1 DEF DemanderDevis, ReponseVraie, ClosePour, Soeurs
<1>2. ASSUME NEW p \in Requetes,
             \/ LireDemande(p) \/ LireDevis(p) \/ LireSoeurs(p) \/ PrendreConnexion(p)
             \/ Expliquer(p) \/ Relire(p) \/ Abandonner(p) \/ Verrouiller(p)
             \/ MajRetenu(p) \/ MajSoeurs(p)
      PROVE  ReponseVraie'
  BY <1>2, SMTT(60)
     DEF LireDemande, LireDevis, LireSoeurs, PrendreConnexion, Expliquer, Relire,
     Abandonner, Verrouiller, MajRetenu, MajSoeurs, ReponseVraie, ClosePour, Soeurs,
     SignatureOk, LectureOk, ParcoursOk, EtapesRetenue, EtapesRefus, EtapesSaisie, EtapesVerrou
<1>3. ASSUME NEW p \in Requetes, Inserer(p) PROVE ReponseVraie'
  BY <1>3, SMTT(60) DEF Inserer, ReponseVraie, ClosePour, Soeurs, SignatureOk, IdentifiantNeuf,
     ParcoursOk, EtapesSaisie
<1>4. ASSUME NEW p \in Requetes, Valider(p) PROVE ReponseVraie'
  BY <1>4, SMTT(60) DEF Valider, Signer, ReponseVraie, ClosePour, EnAttente, Soeurs, EcritureOk,
     LigneCoherente, ParcoursOk, EtapesRetenue, EtapesVerrou
<1>5. ASSUME NEW p \in Requetes, MajRefus(p) PROVE ReponseVraie'
  BY <1>5, SMTT(60) DEF MajRefus, Signer, ReponseVraie, ClosePour, Soeurs, LigneCoherente,
     ParcoursOk, EtapesRefus
<1>6. CASE UNCHANGED vars
  BY <1>6 DEF vars, ReponseVraie, ClosePour, Soeurs
<1> QED
  BY <1>1, <1>2, <1>3, <1>4, <1>5, <1>6 DEF Next, Etape, Repos

(* No caller is told something false, then or later.                       *)
THEOREM Vraie == Spec => []ReponseVraie
<1>1. Init => ReponseVraie
  BY DEF Init, Saisies, IdentifiantsTires, ReponseVraie, Reponses
<1>2. TypeOK /\ Coherence /\ DemandeTranchee /\ ReponseVraie /\ [Next]_vars => ReponseVraie'
  BY PasReponse DEF Inv
<1> QED
  BY TypeCorrect, Coherente, Tranchee, <1>1, <1>2, PTL DEF Spec

-----------------------------------------------------------------------------
(* Who waits for whom. *)

(* The rows an open retention has written are of its own demande, and no   *)
(* other open retention is on it.                                          *)
LEMMA LigneEcrite ==
    ASSUME TypeOK, Coherence, NEW r \in Requetes, NEW e \in ecrit[r]
    PROVE  /\ pc[r] \in {"maj_soeurs", "valider"}
           /\ demandeDe[e] = demandeDe[cible[r]]
BY DEF Coherence, EcritureOk, EnAttente, Soeurs, TypeOK

(* Inside its transaction, a retention that has not lost waits for nobody. *)
LEMMA RetenueAvance ==
    ASSUME TypeOK, Coherence, NEW p \in Requetes,
           pc[p] \in {"maj_retenu", "maj_soeurs", "valider"}
    PROVE  PeutAvancer(p)
<1>1. ASSUME NEW e \in Devis, demandeDe[e] = demandeDe[cible[p]] PROVE LigneLibre(p, e)
  <2> SUFFICES ASSUME NEW r \in Requetes \ {p}, e \in ecrit[r] PROVE FALSE
    BY DEF LigneLibre
  <2>1. pc[r] \in EtapesVerrou /\ demandeDe[cible[r]] = demandeDe[cible[p]]
    BY <1>1, LigneEcrite DEF EtapesVerrou
  <2> QED
    BY <2>1 DEF Coherence, VerrouExclusif, EtapesVerrou
<1>2. cible[p] \in Devis
  BY DEF TypeOK
<1> QED
  BY <1>1, <1>2 DEF PeutAvancer, EnAttente, Soeurs, EtapesConnexion, EtapesVerrou

(* A request that cannot advance lacks a connection, or waits for a        *)
(* retention; follow who waits for whom, and a lost one is at the end.     *)
LEMMA BlocageDuPool == TypeOK /\ Coherence => SeulBlocage
<1> SUFFICES ASSUME TypeOK, Coherence, NEW p0 \in Requetes, pc[p0] # "termine",
                    \A p \in Requetes : ~PeutAvancer(p)
             PROVE  /\ ~ConnexionLibre
                    /\ \E r \in Requetes : pc[r] = "expliquer_tx"
                    /\ \A p \in Requetes : pc[p] \in EtapesConnexion =>
                          \/ pc[p] = "expliquer_tx"
                          \/ \E r \in Requetes :
                                pc[r] = "expliquer_tx" /\ demandeDe[cible[r]] = demandeDe[cible[p]]
  BY DEF SeulBlocage, Bloquees
<1>1. \A p \in Requetes : pc[p] \notin {"maj_retenu", "maj_soeurs", "valider"}
  BY RetenueAvance
<1>2. ASSUME NEW p \in Requetes, pc[p] \in EtapesConnexion
      PROVE  \/ pc[p] = "expliquer_tx"
             \/ \E r \in Requetes :
                   pc[r] = "expliquer_tx" /\ demandeDe[cible[r]] = demandeDe[cible[p]]
  <2>1. pc[p] # "maj_refus_tx"
    <3> SUFFICES ASSUME pc[p] = "maj_refus_tx" PROVE FALSE
      OBVIOUS
    <3>1. ~LigneLibre(p, cible[p])
      BY DEF PeutAvancer, EtapesConnexion
    <3>2. PICK r \in Requetes : cible[p] \in ecrit[r]
      BY <3>1 DEF LigneLibre
    <3> QED
      BY <1>1, <3>2, LigneEcrite
  <2>2. CASE pc[p] \in {"inserer_tx", "verrouiller"}
    <3>1. ~VerrouLibre(demandeDe[cible[p]])
      BY <2>2 DEF PeutAvancer, EtapesConnexion
    <3>2. PICK r \in Requetes :
            pc[r] \in EtapesVerrou /\ demandeDe[cible[r]] = demandeDe[cible[p]]
      BY <3>1 DEF VerrouLibre, Tient
    <3> QED
      BY <1>1, <3>2 DEF EtapesVerrou
  <2> QED
    BY <1>1, <1>2, <2>1, <2>2 DEF EtapesConnexion, EtapesVerrou
<1>3. ~ConnexionLibre
  <2> SUFFICES ASSUME ConnexionLibre PROVE FALSE
    OBVIOUS
  <2>1. pc[p0] \in EtapesConnexion \ {"expliquer_tx"}
    BY DEF PeutAvancer, EtapesConnexion, EtapesVerrou
  <2>2. PICK r \in Requetes : pc[r] = "expliquer_tx"
    BY <1>2, <2>1
  <2> QED
    BY <2>2 DEF PeutAvancer
<1>4. \E p \in Requetes : pc[p] \in EtapesConnexion
  <2> SUFFICES ASSUME \A p \in Requetes : pc[p] \notin EtapesConnexion PROVE FALSE
    OBVIOUS
  <2>1. {p \in Requetes : pc[p] \in EtapesConnexion} = {}
    OBVIOUS
  <2> QED
    BY <1>3, <2>1, FS_EmptySet, DevisAssumption DEF ConnexionLibre
<1> QED
  BY <1>2, <1>3, <1>4

(* The only way the component can come to a stop, for any pool, requests   *)
(* and demandes: run devis_pool shows that it does.                        *)
THEOREM BlocageSeul == Spec => []SeulBlocage
BY TypeCorrect, Coherente, BlocageDuPool, PTL

(* With more connections than requests at once, somebody can always        *)
(* advance.                                                                *)
THEOREM PoolSuffisant ==
    ASSUME IsFiniteSet(Requetes), Cardinality(Requetes) < PoolMax
    PROVE  Spec => []~Bloquees
<1>1. ConnexionLibre
  <2> DEFINE C == {p \in Requetes : pc[p] \in EtapesConnexion}
  <2>1. Cardinality(C) <= Cardinality(Requetes) /\ Cardinality(C) \in Nat
    BY FS_Subset, FS_CardinalityType
  <2> QED
    BY <2>1, FS_CardinalityType, DevisAssumption DEF ConnexionLibre
<1>2. SeulBlocage => ~Bloquees
  BY <1>1 DEF SeulBlocage
<1> QED
  BY <1>2, BlocageSeul, PTL
=============================================================================

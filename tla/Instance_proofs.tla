--------------------------- MODULE Instance_proofs ---------------------------
(***************************************************************************)
(* Proofs about Depot and Instance, for any number of requests, seeds,     *)
(* documents and migrations: the type invariant, the inductive invariant   *)
(* Coherence part by part, then the properties of the run.                 *)
(***************************************************************************)
EXTENDS Instance, TLAPS

-----------------------------------------------------------------------------
(* The steps of an upload. *)

(* A call that starts, or that takes one of its steps. *)
PasDepot(p, base) == Controler(p) \/ EtapeDepot(p, base)

(* The upload of a piece keeps its state in shape. *)
LEMMA DepotType ==
    ASSUME DepotTypeOK, DepotCoherence, NEW p \in Appelants, NEW base, PasDepot(p, base)
    PROVE  DepotTypeOK'
<1>0. EnCours(p) => piece[p] \in Documents
  BY DEF DepotCoherence, PieceOk
<1>1. CASE Controler(p)
  BY <1>1 DEF Controler, DepotTypeOK, tables, magasin, Rendre, Aller, Pas
<1>2. CASE EcrireContenu(p)
  BY <1>0, <1>2 DEF EcrireContenu, Sauver, SauverS3, SauverFichier, magasin, DepotTypeOK,
     Rendre, Aller, Pas, EnCours
<1>3. CASE Inserer(p, base)
  BY <1>0, <1>3 DEF Inserer, magasin, DepotTypeOK, Rendre, Aller, Pas, EnCours
<1>4. CASE Nettoyer(p)
  BY <1>4 DEF Nettoyer, Supprimer, magasin, DepotTypeOK, Rendre, Aller, Pas
<1>5. CASE Confirmer(p)
  BY <1>0, <1>5 DEF Confirmer, magasin, DepotTypeOK, Rendre, Aller, Pas, EnCours
<1> QED BY <1>1, <1>2, <1>3, <1>4, <1>5 DEF PasDepot, EtapeDepot

(* Two calls under way have two pieces, before and after a step of one:    *)
(* a call that starts draws an identifier that no other holds.             *)
LEMMA Distinctes ==
    ASSUME DepotTypeOK, DepotCoherence, NEW p \in Appelants, NEW base, PasDepot(p, base)
    PROVE  PiecesDistinctes'
<1>1. CASE Controler(p)
  BY <1>1 DEF Controler, DepotTypeOK, DepotCoherence, PiecesDistinctes, tables, magasin,
              Rendre, Aller, EnCours, Tirable
<1>2. CASE EtapeDepot(p, base)
  <2>1. EnCours(p)
    BY <1>2 DEF EtapeDepot, EcrireContenu, Inserer, Nettoyer, Confirmer, EnCours
  <2>2. /\ \A q \in Appelants : q # p => pc'[q] = pc[q] /\ piece'[q] = piece[q]
        /\ EnCours(p)' => piece'[p] = piece[p]
    BY <1>2 DEF EtapeDepot, EcrireContenu, Inserer, Nettoyer, Confirmer, EnCours, Rendre, Aller,
                DepotTypeOK
  <2> QED BY <2>1, <2>2 DEF DepotCoherence, PiecesDistinctes, EnCours
<1> QED BY <1>1, <1>2 DEF PasDepot

(* What the other calls know of their pieces survives the step of one. *)
LEMMA AutresPieces ==
    ASSUME DepotTypeOK, DepotCoherence, NEW p \in Appelants, NEW base, PasDepot(p, base),
           NEW q \in Appelants \ {p}
    PROVE  PieceOk(q)'
<1>1. pc'[q] = pc[q] /\ piece'[q] = piece[q]
  BY DEF PasDepot, Controler, EtapeDepot, EcrireContenu, Inserer, Nettoyer, Confirmer, Rendre,
         Aller, DepotTypeOK
<1>2. PieceOk(q) /\ (EnCours(p) /\ EnCours(q) => piece[p] # piece[q])
  BY DEF DepotCoherence, PiecesDistinctes
<1>3. CASE Controler(p)
  BY <1>1, <1>2, <1>3 DEF Controler, tables, magasin, PieceOk, EnCours
<1>4. CASE EcrireContenu(p)
  BY <1>1, <1>2, <1>4
  DEF EcrireContenu, Sauver, SauverS3, SauverFichier, magasin, PieceOk, EnCours
<1>5. CASE Inserer(p, base)
  BY <1>1, <1>2, <1>5 DEF Inserer, magasin, PieceOk, EnCours
<1>6. CASE Nettoyer(p)
  BY <1>1, <1>2, <1>6 DEF Nettoyer, Supprimer, magasin, PieceOk, EnCours
<1>7. CASE Confirmer(p)
  BY <1>1, <1>2, <1>7 DEF Confirmer, magasin, PieceOk, EnCours
<1> QED BY <1>3, <1>4, <1>5, <1>6, <1>7 DEF PasDepot, EtapeDepot

(* One step of an upload preserves what the two stores owe each other. *)
LEMMA DepotCoherent ==
    ASSUME DepotTypeOK, DepotCoherence, NEW p \in Appelants, NEW base, PasDepot(p, base)
    PROVE  DepotCoherence'
<1>1. PiecesDistinctes' BY Distinctes
<1>2. \A q \in Appelants \ {p} : PieceOk(q)' BY AutresPieces
<1> DEFINE Stocks ==
        /\ lignes \ (perdues \cup emportees) \subseteq contenus
        /\ confirmees \subseteq lignes /\ confirmees \subseteq contenus \cup emportees
        /\ stockage = "s3" => enCache = {} /\ emportees = {}
<1>3. PieceOk(p) /\ Stocks
  BY DEF DepotCoherence
<1>4. PieceOk(p)' /\ Stocks'
  <2>1. CASE Controler(p)
    BY <1>3, <2>1 DEF Controler, tables, magasin, Rendre, Aller, PieceOk, EnCours, DepotTypeOK,
       Tirable
  <2>2. CASE EcrireContenu(p)
    BY <1>3, <2>2 DEF EcrireContenu, Sauver, SauverS3, SauverFichier, magasin, Rendre, Aller,
       PieceOk, EnCours, DepotTypeOK
  <2>3. CASE Inserer(p, base)
    BY <1>3, <2>3 DEF Inserer, magasin, Rendre, Aller, PieceOk, EnCours, DepotTypeOK
  <2>4. CASE Nettoyer(p)
    BY <1>3, <2>4 DEF Nettoyer, Supprimer, magasin, Rendre, Aller, PieceOk, EnCours,
       DepotTypeOK
  <2>5. CASE Confirmer(p)
    BY <1>3, <2>5 DEF Confirmer, magasin, Rendre, Aller, PieceOk, EnCours, DepotTypeOK
  <2> QED BY <2>1, <2>2, <2>3, <2>4, <2>5 DEF PasDepot, EtapeDepot
<1> QED BY <1>1, <1>2, <1>4 DEF DepotCoherence

-----------------------------------------------------------------------------
(* The processes: one lemma per part of the invariant, one case per action *)
(* that disturbs it.                                                       *)

(* The processes are the server and the seeds, the calls of Upload those   *)
(* that run in them.                                                       *)
LEMMA Acteurs ==
    /\ Serveur \in Hotes /\ Amorces \subseteq Hotes
    /\ Amorces \subseteq Appelants /\ Requetes \subseteq Appelants
    /\ \A h \in Hotes : h # Serveur => h \in Amorces
    /\ \A h \in Amorces : h # Serveur /\ h \notin Requetes
BY InstanceAssumption DEF Hotes

(* How the rows and the contents move: with one call of Upload, with the   *)
(* end of a process, with that of the machine, or not at all.              *)
LEMMA Mouvements ==
    ASSUME Next
    PROVE  \/ UNCHANGED depot
           \/ \E h \in Hotes : Mourir({h}) /\ UNCHANGED tables
           \/ Mourir(Hotes) /\ PerdreCache
           \/ \E p \in Appelants, h \in Hotes : PasDepot(p, Base(h))
<1>1. CASE \E h \in Hotes : Lancer(h) \/ Connecter(h) \/ Migrer(h)
  BY <1>1 DEF Lancer, Connecter, Migrer
<1>2. CASE \E h \in Hotes : Tuer(h) \/ Quitter(h)
  BY <1>2 DEF Tuer, Quitter
<1>3. CASE \/ Signaler \/ Ecouter \/ Saisir \/ EcouteTombee \/ Arreter \/ FinirArret \/ DelaiPasse
           \/ Tic \/ FinirPasse \/ FinirPurge \/ ArreterPurge
  BY <1>3 DEF Signaler, Ecouter, Saisir, EcouteTombee, Arreter, FinirArret, DelaiPasse, Tic,
              FinirPasse, FinirPurge, ArreterPurge
<1>4. CASE \E p \in Requetes : RecevoirDepot(p) \/ Servir(p)
  BY <1>4, Acteurs DEF RecevoirDepot, Servir, PasDepot
<1>5. CASE \E h \in Amorces : Identifier(h) \/ Verifier(h) \/ Semer(h)
  BY <1>5 DEF Identifier, Verifier, Semer
<1>6. CASE \E h \in Amorces : Deposer(h)
  BY <1>6, Acteurs DEF Deposer, PasDepot
<1> QED BY <1>1, <1>2, <1>3, <1>4, <1>5, <1>6 DEF Next, Coupure

(* The pieces: processes that end forget their calls, and a machine what   *)
(* it had not written, which no call knows of any more.                    *)
LEMMA DepotSuivant ==
    ASSUME DepotTypeOK, DepotCoherence, [Next]_vars
    PROVE  DepotTypeOK' /\ DepotCoherence'
<1>1. CASE UNCHANGED depot
  BY <1>1 DEF depot, tables, magasin, DepotTypeOK, DepotCoherence, PieceOk,
         PiecesDistinctes, EnCours
<1>2. ASSUME NEW morts, Mourir(morts)
      PROVE  /\ pc' \in [Appelants -> Pas] /\ piece' \in [Appelants -> Documents \cup {Aucun}]
             /\ \A p \in Appelants :
                   \/ pc'[p] = "attente" /\ piece'[p] = Aucun
                   \/ pc'[p] = pc[p] /\ piece'[p] = piece[p]
  <2>1. pc' \in [Appelants -> Pas]
    BY <1>2 DEF Mourir, DepotTypeOK, Pas
  <2>2. piece' \in [Appelants -> Documents \cup {Aucun}]
    BY <1>2 DEF Mourir, DepotTypeOK
  <2>3. \A p \in Appelants : \/ pc'[p] = "attente" /\ piece'[p] = Aucun
                             \/ pc'[p] = pc[p] /\ piece'[p] = piece[p]
    BY <1>2 DEF Mourir
  <2> QED BY <2>1, <2>2, <2>3
<1>3. ASSUME NEW h \in Hotes, Mourir({h}), UNCHANGED tables
      PROVE  DepotTypeOK' /\ DepotCoherence'
  <2>1. DepotTypeOK' BY <1>2, <1>3 DEF tables, magasin, DepotTypeOK
  <2>2. DepotCoherence'
    BY <1>2, <1>3 DEF tables, magasin, DepotCoherence, PieceOk, PiecesDistinctes, EnCours
  <2> QED BY <2>1, <2>2
<1>4. ASSUME Mourir(Hotes), PerdreCache PROVE DepotTypeOK' /\ DepotCoherence'
  <2>1. \A p \in Appelants : ~EnCours(p)'
    <3>1. \A p \in Appelants : \E h \in Hotes : p \in Portes(h)
      BY Acteurs, InstanceAssumption DEF Portes
    <3> QED BY <1>4, <3>1 DEF Mourir, EnCours
  <2>2. DepotTypeOK' BY <1>2, <1>4 DEF PerdreCache, DepotTypeOK
  <2>3. DepotCoherence'
    BY <1>4, <2>1 DEF PerdreCache, DepotTypeOK, DepotCoherence, PieceOk, PiecesDistinctes, EnCours
  <2> QED BY <2>2, <2>3
<1>5. ASSUME NEW p \in Appelants, NEW h \in Hotes, PasDepot(p, Base(h))
      PROVE  DepotTypeOK' /\ DepotCoherence'
  BY <1>5, DepotType, DepotCoherent
<1> QED BY <1>1, <1>3, <1>4, <1>5, Mouvements DEF vars

(* The rows are never deleted, nor is what people or a seed have typed. *)
LEMMA Croissance ==
    ASSUME [Next]_vars
    PROVE  lignes \subseteq lignes' /\ donnees \subseteq donnees'
<1>1. lignes \subseteq lignes'
  BY Mouvements DEF vars, depot, tables, PerdreCache, PasDepot, Controler, EtapeDepot,
     EcrireContenu, Inserer, Nettoyer, Confirmer
<1>2. CASE UNCHANGED vars BY <1>1, <1>2 DEF vars, processus
<1>3. CASE \/ Coupure
           \/ \E h \in Hotes : Lancer(h) \/ Tuer(h) \/ Connecter(h) \/ Migrer(h) \/ Quitter(h)
  BY <1>1, <1>3 DEF Lancer, Tuer, Coupure, Mourir, Connecter, Migrer, Quitter, bases
<1>4. CASE \/ Signaler \/ Ecouter \/ Saisir \/ EcouteTombee \/ Arreter \/ FinirArret \/ DelaiPasse
           \/ Tic \/ FinirPasse \/ FinirPurge \/ ArreterPurge
  BY <1>1, <1>4 DEF Signaler, Ecouter, Saisir, EcouteTombee, Arreter, FinirArret, DelaiPasse,
     Tic, FinirPasse, FinirPurge, ArreterPurge, bases
<1>5. CASE \E p \in Requetes : RecevoirDepot(p) \/ Servir(p)
  BY <1>1, <1>5 DEF RecevoirDepot, Servir, processus
<1>6. CASE \E h \in Amorces : Identifier(h) \/ Verifier(h) \/ Semer(h) \/ Deposer(h)
  BY <1>1, <1>6 DEF Identifier, Verifier, Semer, Deposer, Suite, bases, processus
<1> QED BY <1>2, <1>3, <1>4, <1>5, <1>6 DEF Next

(* What a process is, of the things that only it writes. *)
TypeHote == /\ inst \in [Hotes -> Phases]
            /\ lu \in [Hotes -> 0..Migrations]
            /\ rang \in [Amorces -> 1..6]
            /\ vecu \in [Amorces -> BOOLEAN]

(* An early return keeps the shape of the state. *)
LEMMA TypeFermer ==
    ASSUME TypeHote, NEW h \in Hotes, Fermer(h)
    PROVE  TypeHote'
<1>1. vecu' = [a \in Amorces |-> IF a = h THEN FALSE ELSE vecu[a]]
  BY DEF Fermer
<1>2. vecu' \in [Amorces -> BOOLEAN]
  BY <1>1 DEF TypeHote
<1>3. inst' \in [Hotes -> Phases]
  BY DEF TypeHote, Fermer, Passer, Phases
<1>4. lu' = [lu EXCEPT ![h] = 0] /\ rang' = [a \in Amorces |-> IF a = h THEN 1 ELSE rang[a]]
  BY DEF Fermer
<1>5. lu' \in [Hotes -> 0..Migrations] /\ rang' \in [Amorces -> 1..6]
  BY <1>4, InstanceAssumption DEF TypeHote
<1> QED BY <1>2, <1>3, <1>5 DEF TypeHote

(* So does the end of processes. *)
LEMMA TypeMourir ==
    ASSUME TypeHote, NEW morts, Mourir(morts)
    PROVE  TypeHote'
<1>1. vecu' \in [Amorces -> BOOLEAN]
  BY DEF TypeHote, Mourir
<1>2. inst' \in [Hotes -> Phases]
  BY DEF TypeHote, Mourir, Phases
<1>3. lu' \in [Hotes -> 0..Migrations] /\ rang' \in [Amorces -> 1..6]
  BY InstanceAssumption DEF TypeHote, Mourir
<1> QED BY <1>1, <1>2, <1>3 DEF TypeHote

(* So does the next step of a phase. *)
LEMMA TypeAvancer ==
    ASSUME TypeHote, NEW h \in Amorces, NEW n \in 1..6, rang[h] < n \/ rang[h] = n,
           NEW phase \in Phases, Avancer(h, n, phase)
    PROVE  TypeHote'
BY Acteurs DEF TypeHote, Avancer, Passer

(* The state keeps its shape: it only needs to know that a seed writes     *)
(* within its lists. *)
LEMMA TypeSuivant ==
    ASSUME TypeOK, Coherence, [Next]_vars
    PROVE  TypeOK'
<1>0. DepotTypeOK' BY DepotSuivant DEF TypeOK, Coherence
<1>1. TypeHote /\ Migrations \in Nat BY InstanceAssumption DEF TypeOK, TypeHote
<1> USE DEF TypeOK
<1>3. CASE UNCHANGED vars BY <1>0, <1>3 DEF vars, processus, TypeHote
<1>4. ASSUME NEW h \in Hotes, Lancer(h) PROVE TypeOK'
  BY <1>0, <1>1, <1>4 DEF Lancer, Passer, Phases, bases, amorcage, service
<1>5. ASSUME NEW morts, Mourir(morts) PROVE TypeOK'
  BY <1>0, <1>1, <1>5, TypeMourir DEF Mourir, bases, TypeHote
<1>6. ASSUME NEW h \in Hotes, Connecter(h) PROVE TypeOK'
  <2>1. UNCHANGED <<bases, service>> BY <1>6 DEF Connecter
  <2>2. CASE Fermer(h) BY <1>0, <1>1, <2>1, <2>2, TypeFermer DEF bases, service, TypeHote
  <2>3. CASE Passer(h, IF migre THEN "migrer" ELSE "monter") /\ lu' = [lu EXCEPT ![h] = schema]
             /\ UNCHANGED amorcage
    BY <1>0, <2>1, <2>3 DEF Passer, Phases, bases, amorcage, service
  <2> QED BY <1>6, <2>2, <2>3 DEF Connecter
<1>7. ASSUME NEW h \in Hotes, Migrer(h) PROVE TypeOK'
  <2>1. UNCHANGED <<migre, donnees, service>> BY <1>7 DEF Migrer
  <2>2. CASE AppliquerUne(h)
    BY <1>0, <1>1, <2>1, <2>2 DEF AppliquerUne, amorcage, service
  <2>3. CASE Passer(h, "monter") /\ UNCHANGED <<schema, lu, amorcage>>
    BY <1>0, <2>1, <2>3 DEF Passer, Phases, amorcage, service
  <2>4. CASE Fermer(h) /\ UNCHANGED schema
    BY <1>0, <1>1, <2>1, <2>4, TypeFermer DEF service, TypeHote
  <2> QED BY <1>7, <2>2, <2>3, <2>4 DEF Migrer
<1>8. CASE Ecouter
  <2>1. UNCHANGED bases BY <1>8 DEF Ecouter
  <2>2. CASE Fermer(Serveur) /\ UNCHANGED service
    BY <1>0, <1>1, <2>1, <2>2, Acteurs, TypeFermer DEF bases, service, TypeHote
  <2>3. CASE ~(Fermer(Serveur) /\ UNCHANGED service)
    BY <1>0, <1>8, <2>1, <2>3 DEF Ecouter, Passer, Phases, bases, amorcage
  <2> QED BY <1>8, <2>2, <2>3 DEF Ecouter
<1>9. CASE Saisir
  BY <1>0, <1>9, InstanceAssumption DEF Saisir, amorcage, service
<1>10. CASE Signaler \/ Tic \/ FinirPasse \/ FinirPurge
  BY <1>0, <1>10 DEF Signaler, Tic, FinirPasse, FinirPurge, bases, amorcage
<1>11. CASE EcouteTombee \/ Arreter \/ FinirArret \/ DelaiPasse
  BY <1>0, <1>11 DEF EcouteTombee, Arreter, FinirArret, DelaiPasse, Sortir, Passer, Phases, bases,
     amorcage, service
<1>12. CASE ArreterPurge
  BY <1>0, <1>1, <1>12, Acteurs, TypeFermer DEF ArreterPurge, bases, service, TypeHote
<1>13. CASE \E p \in Requetes : RecevoirDepot(p) \/ Servir(p)
  BY <1>0, <1>13 DEF RecevoirDepot, Servir, processus
<1>14. ASSUME NEW h \in Amorces, Identifier(h) PROVE TypeOK'
  <2>1. UNCHANGED <<bases, service>> BY <1>14 DEF Identifier
  <2>2. CASE Fermer(h) BY <1>0, <1>1, <2>1, <2>2, Acteurs, TypeFermer DEF bases, service, TypeHote
  <2>3. CASE ~Fermer(h)
    BY <1>0, <1>14, <2>1, <2>3 DEF Identifier, Passer, Phases, bases, service
  <2> QED BY <2>2, <2>3
<1>15. ASSUME NEW h \in Amorces, Verifier(h) PROVE TypeOK'
  <2>1. UNCHANGED <<bases, service>> BY <1>15 DEF Verifier
  <2>2. CASE Fermer(h) BY <1>0, <1>1, <2>1, <2>2, Acteurs, TypeFermer DEF bases, service, TypeHote
  <2>3. CASE Avancer(h, 6, "semer")
    <3>1. TypeHote' BY <1>1, <2>3, TypeAvancer DEF Phases
    <3> QED BY <1>0, <2>1, <3>1 DEF bases, service, TypeHote
  <2> QED BY <1>15, <2>2, <2>3 DEF Verifier, Controles
<1>16. ASSUME NEW h \in Amorces, Semer(h) PROVE TypeOK'
  <2>1. rang[h] \in 1..5 BY <1>16 DEF Semer, Coherence, AmorceOk
  <2>2. Ecritures[rang[h]] \in Domaines BY <2>1 DEF Ecritures, Domaines
  <2>3. UNCHANGED <<migre, schema, service>> /\ donnees' \subseteq Domaines
    BY <1>16, <2>2 DEF Semer
  <2>4. CASE Fermer(h) BY <1>0, <1>1, <2>3, <2>4, Acteurs, TypeFermer DEF service, TypeHote
  <2>5. CASE Avancer(h, 5, "deposer")
    <3>1. TypeHote' BY <1>1, <2>1, <2>5, TypeAvancer DEF Phases
    <3> QED BY <1>0, <2>3, <3>1 DEF service, TypeHote
  <2> QED BY <1>16, <2>4, <2>5 DEF Semer, Ecritures
<1>17. ASSUME NEW h \in Amorces, Deposer(h) PROVE TypeOK'
  <2>1. CASE UNCHANGED processus BY <1>0, <2>1 DEF processus
  <2>2. CASE Fermer(h) /\ UNCHANGED <<bases, service>>
    BY <1>0, <1>1, <2>2, Acteurs, TypeFermer DEF bases, service, TypeHote
  <2>3. CASE rang[h] = 1 /\ Avancer(h, 2, "fermer") /\ UNCHANGED <<bases, service>>
    <3>1. TypeHote' BY <1>1, <2>3, TypeAvancer DEF Phases
    <3> QED BY <1>0, <2>3, <3>1 DEF bases, service, TypeHote
  <2> QED BY <1>17, <2>1, <2>2, <2>3 DEF Deposer, Suite
<1> QED
  BY <1>3, <1>4, <1>5, <1>6, <1>7, <1>8, <1>9, <1>10, <1>11, <1>12, <1>13, <1>14, <1>15, <1>16, <1>17
  DEF Next, Tuer, Coupure, Quitter, TypeHote

(* Where a process is, and what it has read of the schema: nobody else     *)
(* writes it.                                                              *)
LEMMA SchemaFermer ==
    ASSUME TypeOK, SchemaOk, UNCHANGED <<migre, schema>>, NEW h \in Hotes, Fermer(h)
    PROVE  SchemaOk'
<1>1. (\A g \in Hotes : g # h => inst'[g] = inst[g] /\ lu'[g] = lu[g]) /\ inst'[h] = "fermer"
  BY DEF Fermer, Passer, TypeOK
<1> QED BY <1>1 DEF SchemaOk, SchemaAJour

(* A step that leaves the schema alone and takes a process from one phase  *)
(* that needs it to another, or to one that does not. *)
LEMMA SchemaPasser ==
    ASSUME TypeOK, SchemaOk, UNCHANGED <<migre, schema, lu>>, NEW h \in Hotes,
           NEW phase \in Phases \ {"migrer"}, Passer(h, phase),
           \/ phase \in {"connecter", "sortir", "fermer"}
           \/ inst[h] \in {"monter", "ecoute", "arret", "verifier", "semer", "deposer"}
    PROVE  SchemaOk'
<1>1. (\A g \in Hotes : g # h => inst'[g] = inst[g]) /\ inst'[h] = phase
  BY DEF Passer, TypeOK
<1> QED BY <1>1 DEF SchemaOk, SchemaAJour

(* Migrations are only added, one by one, by who has seen all that come    *)
(* before. *)
LEMMA SchemaSuivant ==
    ASSUME TypeOK, SchemaOk, [Next]_vars
    PROVE  SchemaOk'
<1>1. ASSUME UNCHANGED <<inst, migre, schema, lu>> PROVE SchemaOk'
  BY <1>1 DEF SchemaOk, SchemaAJour
<1>2. ASSUME NEW morts, Mourir(morts) PROVE SchemaOk'
  <2>1. \A h \in Hotes : \/ inst'[h] = "eteint"
                         \/ inst'[h] = inst[h] /\ lu'[h] = lu[h]
    BY <1>2 DEF Mourir
  <2> QED BY <1>2, <2>1 DEF Mourir, bases, SchemaOk, SchemaAJour
<1>3. ASSUME NEW h \in Hotes, Lancer(h) PROVE SchemaOk'
  BY <1>3, SchemaPasser DEF Lancer, bases, Phases
<1>4. ASSUME NEW h \in Hotes, Connecter(h) PROVE SchemaOk'
  <2>1. CASE Fermer(h) BY <1>4, <2>1, SchemaFermer DEF Connecter, bases
  <2>2. CASE ~Fermer(h)
    <3>1. /\ UNCHANGED <<migre, schema>> /\ Passer(h, IF migre THEN "migrer" ELSE "monter")
          /\ lu' = [lu EXCEPT ![h] = schema]
      BY <1>4, <2>2 DEF Connecter, bases
    <3>2. /\ \A g \in Hotes : g # h => inst'[g] = inst[g] /\ lu'[g] = lu[g]
          /\ inst'[h] = (IF migre THEN "migrer" ELSE "monter") /\ lu'[h] = schema
      BY <3>1 DEF Passer, TypeOK
    <3> QED BY <3>1, <3>2, InstanceAssumption DEF SchemaOk, SchemaAJour, TypeOK
  <2> QED BY <2>1, <2>2
<1>5. ASSUME NEW h \in Hotes, Migrer(h) PROVE SchemaOk'
  <2>0. inst[h] = "migrer" /\ lu[h] <= schema /\ UNCHANGED migre
    BY <1>5 DEF Migrer, SchemaOk
  <2>1. CASE AppliquerUne(h)
    <3>1. /\ schema < Migrations /\ schema' = schema + 1 /\ UNCHANGED inst
          /\ \A g \in Hotes : g # h => lu'[g] = lu[g]
          /\ lu'[h] = schema + 1
      BY <2>1 DEF AppliquerUne, TypeOK
    <3>2. schema \in Nat /\ \A g \in Hotes : lu[g] \in Nat
      BY InstanceAssumption DEF TypeOK
    <3> QED BY <2>0, <3>1, <3>2, InstanceAssumption DEF SchemaOk, SchemaAJour
  <2>2. CASE lu[h] = Migrations /\ Passer(h, "monter") /\ UNCHANGED <<schema, lu, amorcage>>
    <3>1. schema = Migrations
      BY <2>0, <2>2, InstanceAssumption DEF TypeOK
    <3>2. (\A g \in Hotes : g # h => inst'[g] = inst[g]) /\ inst'[h] = "monter"
      BY <2>2 DEF Passer, TypeOK
    <3> QED BY <2>0, <2>2, <3>1, <3>2 DEF SchemaOk, SchemaAJour
  <2>3. CASE Fermer(h) /\ UNCHANGED schema BY <2>0, <2>3, SchemaFermer
  <2> QED BY <1>5, <2>1, <2>2, <2>3 DEF Migrer
<1>6. CASE Ecouter
  <2>1. CASE Fermer(Serveur) BY <1>6, <2>1, Acteurs, SchemaFermer DEF Ecouter, bases
  <2>2. CASE ~Fermer(Serveur)
    BY <1>6, <2>2, Acteurs, SchemaPasser DEF Ecouter, bases, Phases
  <2> QED BY <2>1, <2>2
<1>7. CASE Saisir \/ Signaler \/ Tic \/ FinirPasse \/ FinirPurge
  BY <1>1, <1>7 DEF Saisir, Signaler, Tic, FinirPasse, FinirPurge, bases
<1>8. CASE EcouteTombee \/ Arreter \/ FinirArret \/ DelaiPasse
  BY <1>8, Acteurs, SchemaPasser DEF EcouteTombee, Arreter, FinirArret, DelaiPasse, Sortir, bases,
     Phases
<1>9. CASE ArreterPurge BY <1>9, Acteurs, SchemaFermer DEF ArreterPurge, bases
<1>10. CASE \E p \in Requetes : RecevoirDepot(p) \/ Servir(p)
  BY <1>1, <1>10 DEF RecevoirDepot, Servir, processus
<1>11. ASSUME NEW h \in Amorces, Fermer(h), UNCHANGED <<migre, schema>> PROVE SchemaOk'
  BY <1>11, Acteurs, SchemaFermer
<1>12. ASSUME NEW h \in Amorces, NEW n \in 1..6, NEW phase \in Phases \ {"migrer"},
              Avancer(h, n, phase), UNCHANGED <<migre, schema>>,
              inst[h] \in {"verifier", "semer", "deposer"}
       PROVE  SchemaOk'
  BY <1>1, <1>12, Acteurs, SchemaPasser DEF Avancer
<1>13. ASSUME NEW h \in Amorces, Identifier(h) PROVE SchemaOk'
  BY <1>11, <1>13, Acteurs, SchemaPasser DEF Identifier, bases, Phases
<1>14. ASSUME NEW h \in Amorces, Verifier(h) PROVE SchemaOk'
  BY <1>11, <1>12, <1>14 DEF Verifier, bases, Phases, Controles
<1>15. ASSUME NEW h \in Amorces, Semer(h) PROVE SchemaOk'
  BY <1>11, <1>12, <1>15 DEF Semer, Phases, Ecritures
<1>16. ASSUME NEW h \in Amorces, Deposer(h) PROVE SchemaOk'
  BY <1>1, <1>11, <1>12, <1>16 DEF Deposer, Suite, bases, processus, Phases
<1>17. CASE UNCHANGED vars BY <1>1, <1>17 DEF vars, processus
<1> QED
  BY <1>2, <1>3, <1>4, <1>5, <1>6, <1>7, <1>8, <1>9, <1>10, <1>13, <1>14, <1>15, <1>16, <1>17
  DEF Next, Tuer, Coupure, Quitter

(* A step of a call that is under way begins none. *)
LEMMA EnVolMoindre ==
    ASSUME TypeOK, NEW p \in Appelants, NEW base, EtapeDepot(p, base)
    PROVE  EnVol' \subseteq EnVol
<1>1. \A q \in Appelants : q # p => pc'[q] = pc[q]
  BY DEF EtapeDepot, EcrireContenu, Inserer, Nettoyer, Confirmer, Rendre, Aller, TypeOK, DepotTypeOK
<1>2. EnCours(p)
  BY DEF EtapeDepot, EcrireContenu, Inserer, Nettoyer, Confirmer, EnCours
<1> QED BY <1>1, <1>2, Acteurs DEF EnVol, EnCours

(* Nor does a seed begin a request of the server. *)
LEMMA EnVolAmorce ==
    ASSUME TypeOK, NEW p \in Amorces, Controler(p)
    PROVE  EnVol' \subseteq EnVol
<1>1. \A q \in Appelants : q # p => pc'[q] = pc[q]
  BY Acteurs DEF Controler, Rendre, Aller, TypeOK, DepotTypeOK
<1> QED BY <1>1, Acteurs DEF EnVol, EnCours

(* What the requests and the purge know of the server: a step that leaves  *)
(* the phase of the server alone, its purge and its way out, and begins no *)
(* request.                                                                *)
LEMMA PoolMemePhase ==
    ASSUME PoolOk, inst'[Serveur] = inst[Serveur], UNCHANGED <<purge, sortie>>, EnVol' \subseteq EnVol
    PROVE  PoolOk'
BY DEF PoolOk

(* A seed never moves the server. *)
LEMMA PoolAmorce ==
    ASSUME TypeOK, PoolOk, NEW h \in Amorces,
           \/ Fermer(h) \/ \E phase \in Phases : Passer(h, phase)
           \/ UNCHANGED inst,
           UNCHANGED <<purge, sortie>>, EnVol' \subseteq EnVol
    PROVE  PoolOk'
<1>1. inst'[Serveur] = inst[Serveur] BY Acteurs DEF Fermer, Passer, TypeOK
<1> QED BY <1>1, PoolMemePhase

(* The pool outlives the purge and the requests that Shutdown waited for.  *)
LEMMA PoolSuivant ==
    ASSUME TypeOK, PoolOk, [Next]_vars
    PROVE  PoolOk'
<1>0. ASSUME UNCHANGED depot PROVE EnVol' = EnVol
  BY <1>0 DEF depot, EnVol, EnCours
<1>1. ASSUME NEW morts, Mourir(morts) PROVE PoolOk'
  <2>1. CASE Serveur \in morts
    <3>1. /\ inst'[Serveur] = "eteint" /\ purge' = "absente" /\ sortie' = "aucune"
          /\ \A p \in Requetes : pc'[p] = "attente"
      BY <1>1, <2>1, Acteurs DEF Mourir, TypeOK, Portes
    <3> QED BY <3>1 DEF PoolOk, EnVol, EnCours
  <2>2. CASE Serveur \notin morts
    <3>1. UNCHANGED <<purge, sortie>> /\ inst'[Serveur] = inst[Serveur]
      BY <1>1, <2>2, Acteurs DEF Mourir, TypeOK
    <3>2. EnVol' \subseteq EnVol
      BY <1>1, Acteurs DEF Mourir, EnVol, EnCours
    <3> QED BY <3>1, <3>2, PoolMemePhase
  <2> QED BY <2>1, <2>2
<1>2. ASSUME NEW h \in Hotes, Lancer(h) \/ Connecter(h) \/ Migrer(h) PROVE PoolOk'
  <2>1. UNCHANGED <<purge, sortie>> /\ EnVol' = EnVol
    BY <1>0, <1>2 DEF Lancer, Connecter, Migrer, service
  <2>2. /\ inst[h] \in {"eteint", "connecter", "migrer"}
        /\ inst'[h] \in {"connecter", "migrer", "monter", "fermer"}
        /\ \A g \in Hotes : g # h => inst'[g] = inst[g]
    <3>1. CASE Lancer(h) BY <3>1 DEF Lancer, Passer, TypeOK
    <3>2. CASE Connecter(h) BY <3>2 DEF Connecter, Passer, Fermer, TypeOK
    <3>3. CASE Migrer(h) BY <3>3 DEF Migrer, AppliquerUne, Passer, Fermer, TypeOK
    <3> QED BY <1>2, <3>1, <3>2, <3>3
  <2>3. CASE h = Serveur BY <2>1, <2>2, <2>3 DEF PoolOk
  <2>4. CASE h # Serveur BY <2>1, <2>2, <2>4, Acteurs, PoolMemePhase
  <2> QED BY <2>3, <2>4
<1>3. CASE Ecouter
  <2>1. EnVol' = EnVol /\ inst[Serveur] = "monter" BY <1>0, <1>3 DEF Ecouter
  <2>2. CASE Fermer(Serveur) /\ UNCHANGED service
    BY <2>1, <2>2, Acteurs DEF Fermer, Passer, service, PoolOk, TypeOK
  <2>3. CASE purge' = "repos" /\ Passer(Serveur, "ecoute") /\ UNCHANGED sortie
    BY <2>1, <2>3, Acteurs DEF Passer, PoolOk, TypeOK
  <2>4. CASE purge' = "repos" /\ Passer(Serveur, "sortir") /\ sortie' = "panne"
    BY <2>1, <2>4, Acteurs DEF Passer, PoolOk, TypeOK
  <2> QED BY <1>3, <2>2, <2>3, <2>4 DEF Ecouter
<1>4. CASE Saisir \/ Signaler
  BY <1>0, <1>4, PoolMemePhase DEF Saisir, Signaler, service
<1>5. CASE Tic \/ FinirPasse \/ FinirPurge
  <2>1. /\ EnVol' = EnVol /\ UNCHANGED <<inst, sortie>>
        /\ purge \in {"repos", "passe"} /\ purge' \in {"repos", "passe", "finie"}
    BY <1>0, <1>5 DEF Tic, FinirPasse, FinirPurge
  <2>2. inst[Serveur] \notin {"eteint", "connecter", "migrer", "monter", "fermer"}
    BY <2>1 DEF PoolOk
  <2> QED BY <2>1, <2>2 DEF PoolOk
<1>6. CASE EcouteTombee \/ Arreter \/ FinirArret \/ DelaiPasse
  <2>1. EnVol' = EnVol /\ UNCHANGED purge
    BY <1>0, <1>6 DEF EcouteTombee, Arreter, FinirArret, DelaiPasse, service
  <2>2. CASE Arreter
    BY <2>1, <2>2, Acteurs DEF Arreter, Passer, service, PoolOk, TypeOK
  <2>3. CASE FinirArret
    BY <2>1, <2>3, Acteurs DEF FinirArret, Sortir, Passer, PoolOk, TypeOK
  <2>4. CASE EcouteTombee \/ DelaiPasse
    BY <2>1, <2>4, Acteurs DEF EcouteTombee, DelaiPasse, Sortir, Passer, PoolOk, TypeOK
  <2> QED BY <1>6, <2>2, <2>3, <2>4
<1>7. CASE ArreterPurge
  BY <1>0, <1>7, Acteurs DEF ArreterPurge, Fermer, Passer, service, PoolOk, TypeOK
<1>8. ASSUME NEW p \in Requetes, RecevoirDepot(p) PROVE PoolOk'
  BY <1>8 DEF RecevoirDepot, processus, PoolOk
<1>9. ASSUME NEW p \in Requetes, Servir(p) PROVE PoolOk'
  <2>0. EtapeDepot(p, Base(Serveur)) /\ p \in Appelants BY <1>9, Acteurs DEF Servir
  <2>1. EnVol' \subseteq EnVol BY <2>0, EnVolMoindre
  <2> QED BY <1>9, <2>1, PoolMemePhase DEF Servir, processus
<1>10. ASSUME NEW h \in Amorces, Identifier(h) \/ Verifier(h) \/ Semer(h) PROVE PoolOk'
  <2>1. UNCHANGED <<purge, sortie>> /\ EnVol' = EnVol
    BY <1>0, <1>10 DEF Identifier, Verifier, Semer, service
  <2>2. Fermer(h) \/ (\E phase \in Phases : Passer(h, phase)) \/ UNCHANGED inst
    BY <1>10 DEF Identifier, Verifier, Semer, Avancer, Phases
  <2> QED BY <2>1, <2>2, PoolAmorce
<1>11. ASSUME NEW h \in Amorces, Deposer(h) PROVE PoolOk'
  <2>1. EnVol' \subseteq EnVol
    <3>1. CASE Controler(h) BY <3>1, EnVolAmorce
    <3>2. CASE EtapeDepot(h, Base(h)) BY <3>2, Acteurs, EnVolMoindre
    <3> QED BY <1>11, <3>1, <3>2 DEF Deposer
  <2>2. UNCHANGED <<purge, sortie>> BY <1>11 DEF Deposer, Suite, service, processus
  <2>3. Fermer(h) \/ (\E phase \in Phases : Passer(h, phase)) \/ UNCHANGED inst
    BY <1>11 DEF Deposer, Suite, Avancer, Phases, processus
  <2> QED BY <2>1, <2>2, <2>3, PoolAmorce
<1>12. CASE UNCHANGED vars BY <1>0, <1>12, PoolMemePhase DEF vars, processus
<1> QED
  BY <1>1, <1>2, <1>3, <1>4, <1>5, <1>6, <1>7, <1>8, <1>9, <1>10, <1>11, <1>12
  DEF Next, Tuer, Coupure, Quitter

(* The checks of a seed: rows and data only grow, so that what there was   *)
(* when they began is still to be found. *)
LEMMA AmorceSuivant ==
    ASSUME TypeOK, AmorceOk, [Next]_vars
    PROVE  AmorceOk'
<1>0. \A i \in 1..6 : Rempli(Controles[i]) => Rempli(Controles[i])'
  <2>1. \A t : Rempli(t) => Rempli(t)' BY Croissance DEF Rempli
  <2> QED BY <2>1 DEF Controles
<1> DEFINE Part(h) ==
        /\ inst[h] \notin {"verifier", "semer", "deposer"} => rang[h] = 1
        /\ inst[h] = "verifier" /\ vecu[h] => \E i \in rang[h]..6 : Rempli(Controles[i])
        /\ inst[h] = "semer" => rang[h] \in 1..5
        /\ inst[h] = "deposer" => rang[h] \in 1..2
        /\ inst[h] \in {"semer", "deposer"} => ~vecu[h]
<1>1. SUFFICES ASSUME NEW h \in Amorces PROVE Part(h)'
  BY DEF AmorceOk
<1>2. Part(h) /\ h \in Hotes /\ h # Serveur /\ rang[h] \in 1..6
  BY Acteurs DEF AmorceOk, TypeOK
<1>3. ASSUME inst'[h] = inst[h], rang'[h] = rang[h], vecu'[h] = vecu[h] PROVE Part(h)'
  BY <1>0, <1>2, <1>3
<1>4. ASSUME inst'[h] \notin {"verifier", "semer", "deposer"}, rang'[h] = 1 PROVE Part(h)'
  BY <1>4
<1>5. ASSUME NEW g \in Hotes, Fermer(g) PROVE Part(h)'
  <2>1. CASE g = h BY <1>2, <1>4, <1>5, <2>1 DEF Fermer, Passer, TypeOK
  <2>2. CASE g # h BY <1>2, <1>3, <1>5, <2>2 DEF Fermer, Passer, TypeOK
  <2> QED BY <2>1, <2>2
<1>18. ASSUME NEW morts, Mourir(morts) PROVE Part(h)'
  <2>1. CASE h \in morts BY <1>2, <1>4, <1>18, <2>1 DEF Mourir
  <2>2. CASE h \notin morts BY <1>2, <1>3, <1>18, <2>2 DEF Mourir
  <2> QED BY <2>1, <2>2
<1>6. ASSUME NEW g \in Hotes, Lancer(g) \/ Connecter(g) \/ Migrer(g) PROVE Part(h)'
  <2>1. CASE Fermer(g) BY <1>5, <2>1
  <2>2. CASE UNCHANGED inst /\ UNCHANGED amorcage BY <1>3, <2>2 DEF amorcage
  <2>3. CASE /\ inst[g] \in {"eteint", "connecter", "migrer"}
             /\ \E phase \in {"connecter", "migrer", "monter"} : Passer(g, phase)
             /\ UNCHANGED amorcage
    <3>1. CASE g = h BY <1>2, <1>4, <2>3, <3>1 DEF Passer, TypeOK, amorcage
    <3>2. CASE g # h BY <1>2, <1>3, <2>3, <3>2 DEF Passer, TypeOK, amorcage
    <3> QED BY <3>1, <3>2
  <2> QED BY <1>6, <2>1, <2>2, <2>3 DEF Lancer, Connecter, Migrer, AppliquerUne
<1>7. CASE Ecouter
  <2>1. CASE Fermer(Serveur) BY <1>5, <2>1, Acteurs
  <2>2. CASE ~Fermer(Serveur)
    BY <1>2, <1>3, <1>7, <2>2 DEF Ecouter, Passer, TypeOK, amorcage
  <2> QED BY <2>1, <2>2
<1>8. CASE Saisir \/ Signaler \/ Tic \/ FinirPasse \/ FinirPurge
  BY <1>3, <1>8 DEF Saisir, Signaler, Tic, FinirPasse, FinirPurge, amorcage
<1>9. CASE EcouteTombee \/ Arreter \/ FinirArret \/ DelaiPasse
  BY <1>2, <1>3, <1>9 DEF EcouteTombee, Arreter, FinirArret, DelaiPasse, Sortir, Passer, TypeOK,
     amorcage
<1>10. CASE ArreterPurge BY <1>5, <1>10, Acteurs DEF ArreterPurge
<1>11. CASE \E p \in Requetes : RecevoirDepot(p) \/ Servir(p)
  BY <1>3, <1>11 DEF RecevoirDepot, Servir, processus
<1>12. CASE UNCHANGED vars BY <1>3, <1>12 DEF vars, processus
<1>13. ASSUME NEW g \in Amorces \ {h}, Identifier(g) \/ Verifier(g) \/ Semer(g) \/ Deposer(g)
       PROVE  Part(h)'
  <2>1. CASE Fermer(g) BY <1>5, <2>1, Acteurs
  <2>2. CASE UNCHANGED processus BY <1>3, <2>2 DEF processus
  <2>3. CASE ~Fermer(g) /\ ~(UNCHANGED processus)
    BY <1>2, <1>3, <1>13, <2>3, Acteurs
    DEF Identifier, Verifier, Semer, Deposer, Suite, Avancer, Passer, TypeOK
  <2> QED BY <2>1, <2>2, <2>3
<1>14. CASE Identifier(h)
  <2>1. CASE Fermer(h) BY <1>2, <1>5, <2>1
  <2>2. CASE ~Fermer(h)
    <3>1. /\ inst'[h] = "verifier" /\ rang'[h] = 1
          /\ vecu'[h] => donnees # {} \/ lignes # {}
          /\ UNCHANGED <<donnees, lignes>>
      BY <1>2, <1>14, <2>2 DEF Identifier, Passer, TypeOK, depot, tables, bases
    <3>2. donnees # {} \/ lignes # {} => \E i \in 1..6 : Rempli(Controles[i])
      <4>1. CASE lignes # {}
        <5>1. Rempli(Controles[6]) BY <4>1 DEF Rempli, Controles
        <5> QED BY <5>1
      <4>2. ASSUME donnees # {} PROVE \E i \in 1..6 : Rempli(Controles[i])
        <5>1. PICK t \in Domaines : t \in donnees BY <4>2 DEF TypeOK
        <5>2. PICK i \in 1..5 : Controles[i] = t BY DEF Domaines, Controles
        <5>3. t # "documents" BY DEF Domaines
        <5>4. Rempli(Controles[i]) BY <5>1, <5>2, <5>3 DEF Rempli
        <5> QED BY <5>4
      <4> QED BY <4>1, <4>2
    <3> QED BY <1>0, <3>1, <3>2
  <2> QED BY <2>1, <2>2
<1>15. CASE Verifier(h)
  <2>1. CASE Fermer(h) BY <1>2, <1>5, <2>1
  <2>2. CASE inst[h] = "verifier" /\ ~Rempli(Controles[rang[h]]) /\ Avancer(h, 6, "semer")
    <3>1. UNCHANGED vecu /\ vecu'[h] = vecu[h] BY <2>2 DEF Avancer
    <3>2. CASE rang[h] < 6
      <4>1. rang'[h] = rang[h] + 1 /\ inst'[h] = "verifier"
        BY <1>2, <2>2, <3>2 DEF Avancer, TypeOK
      <4>2. ASSUME vecu[h] PROVE \E i \in rang'[h]..6 : Rempli(Controles[i])'
        <5>1. PICK i \in rang[h]..6 : Rempli(Controles[i]) BY <1>2, <2>2, <4>2
        <5>2. i # rang[h] BY <2>2, <5>1
        <5>3. i \in (rang[h] + 1)..6 /\ i \in 1..6 BY <1>2, <5>2
        <5> QED BY <1>0, <4>1, <5>1, <5>3
      <4> QED BY <3>1, <4>1, <4>2
    <3>3. CASE rang[h] = 6
      <4>1. rang'[h] = 1 /\ inst'[h] = "semer"
        BY <1>2, <2>2, <3>3 DEF Avancer, Passer, TypeOK
      <4>2. ~vecu[h] BY <1>2, <2>2, <3>3
      <4> QED BY <3>1, <4>1, <4>2
    <3> QED BY <1>2, <3>2, <3>3
  <2> QED BY <1>15, <2>1, <2>2 DEF Verifier, Controles
<1>16. CASE Semer(h)
  <2>1. CASE Fermer(h) BY <1>2, <1>5, <2>1
  <2>2. CASE inst[h] = "semer" /\ Avancer(h, 5, "deposer")
    <3>1. rang[h] \in 1..5 /\ ~vecu[h] /\ vecu'[h] = vecu[h] BY <1>2, <2>2 DEF Avancer
    <3>2. CASE rang[h] < 5
      BY <1>2, <2>2, <3>1, <3>2 DEF Avancer, TypeOK
    <3>3. CASE rang[h] = 5
      BY <1>2, <2>2, <3>1, <3>3 DEF Avancer, Passer, TypeOK
    <3> QED BY <3>1, <3>2, <3>3
  <2> QED BY <1>16, <2>1, <2>2 DEF Semer, Ecritures
<1>17. CASE Deposer(h)
  <2>1. CASE Fermer(h) BY <1>2, <1>5, <2>1
  <2>2. CASE UNCHANGED processus BY <1>3, <2>2 DEF processus
  <2>3. CASE inst[h] = "deposer" /\ rang[h] = 1 /\ Avancer(h, 2, "fermer")
    BY <1>2, <2>3 DEF Avancer, TypeOK
  <2> QED BY <1>17, <2>1, <2>2, <2>3 DEF Deposer, Suite
<1> QED
  BY <1>5, <1>6, <1>7, <1>8, <1>9, <1>10, <1>11, <1>12, <1>13, <1>14, <1>15, <1>16, <1>17,
     <1>18
  DEF Next, Tuer, Coupure, Quitter

-----------------------------------------------------------------------------
(* The theorems. *)

LEMMA Initial == Init => TypeOK /\ Coherence
<1> SUFFICES ASSUME Init PROVE TypeOK /\ Coherence
  OBVIOUS
<1>1. TypeOK
  <2>1. DepotTypeOK BY DEF Init, DepotInit, DepotTypeOK, Pas
  <2>2. vecu \in [Amorces -> BOOLEAN] BY DEF Init
  <2>3. migre \in BOOLEAN /\ signal \in BOOLEAN BY DEF Init
  <2>4. schema \in 0..Migrations
    <3>1. CASE migre BY <3>1, InstanceAssumption DEF Init
    <3>2. CASE ~migre BY <3>2 DEF Init
    <3> QED BY <3>1, <3>2
  <2>5. /\ inst \in [Hotes -> Phases] /\ lu \in [Hotes -> 0..Migrations]
        /\ rang \in [Amorces -> 1..6] /\ donnees \subseteq Domaines
        /\ purge = "absente" /\ sortie = "aucune"
    BY InstanceAssumption DEF Init, Phases
  <2> QED BY <2>1, <2>2, <2>3, <2>4, <2>5 DEF TypeOK
<1>2. DepotCoherence
  BY DEF Init, DepotInit, DepotCoherence, PieceOk, PiecesDistinctes, EnCours
<1>3. SchemaOk
  BY DEF Init, SchemaOk, SchemaAJour
<1>4. PoolOk
  BY Acteurs DEF Init, DepotInit, PoolOk, EnVol, EnCours
<1>5. AmorceOk
  BY Acteurs DEF Init, AmorceOk
<1> QED BY <1>1, <1>2, <1>3, <1>4, <1>5 DEF Coherence

(* The inductive invariant of the instance and of its uploads. *)
THEOREM Coherente == Spec => [](TypeOK /\ Coherence)
<1>1. TypeOK /\ Coherence /\ [Next]_vars => (TypeOK /\ Coherence)'
  <2> SUFFICES ASSUME TypeOK, Coherence, [Next]_vars PROVE (TypeOK /\ Coherence)'
    OBVIOUS
  <2>1. DepotCoherence' BY DepotSuivant DEF TypeOK, Coherence
  <2> QED BY <2>1, TypeSuivant, SchemaSuivant, PoolSuivant, AmorceSuivant DEF Coherence
<1> QED BY <1>1, Initial, PTL DEF Spec

(* The state keeps its shape. *)
THEOREM TypeCorrect == Spec => []TypeOK
BY Coherente, PTL

(* Whatever processes die, no listed piece lacks its contents, but the     *)
(* rows that were committed by a statement whose answer was lost; a power  *)
(* cut takes some on a disk, where nothing is synchronised, and none on S3 *)
(* (document/service.go, Upload; filesystem.go and s3.go, Save).           *)
THEOREM Entiere == Spec => []PieceEntiere
<1>1. Coherence => PieceEntiere
  BY DEF Coherence, DepotCoherence, PieceEntiere, Telechargement, Ouvrir
<1> QED BY <1>1, Coherente, PTL

(* A piece whose caller was told that it is stored can be downloaded,      *)
(* whatever processes die; of those on a disk that nothing has             *)
(* synchronised a power cut may take some (the same code).                 *)
THEOREM Confirmee == Spec => []PieceConfirmee
<1>1. Coherence => PieceConfirmee
  BY DEF Coherence, DepotCoherence, PieceConfirmee, Telechargement, Ouvrir
<1> QED BY <1>1, Coherente, PTL

(* No cleanup, no other upload and no process that dies takes the contents *)
(* of a confirmed piece: only a power cut does, from a disk, of what was   *)
(* written since the machine has power (Upload, its cleanup;               *)
(* Filesystem.Save, which synchronises nothing).                           *)
THEOREM QueLaCoupure == Spec => SeuleCoupure
<1> DEFINE Perdu(d) == Ouvrir(d) /\ ~Ouvrir(d)'
           Coupee(d) == /\ stockage = "filesystem" /\ d \in enCache
                        /\ \A h \in Hotes : inst'[h] = "eteint"
<1>1. ASSUME TypeOK, Coherence, Next, NEW d \in confirmees, Perdu(d) PROVE Coupee(d)
  <2>1. ~(UNCHANGED contenus)
    BY <1>1 DEF Ouvrir
  <2>2. ASSUME NEW p \in Appelants, NEW h \in Hotes, PasDepot(p, Base(h)) PROVE FALSE
    <3>1. CASE Nettoyer(p)
      <4>1. piece[p] # d BY <1>1, <3>1 DEF Nettoyer, Coherence, DepotCoherence, PieceOk
      <4>2. contenus' = contenus \/ contenus' = contenus \ {piece[p]}
        BY <3>1 DEF Nettoyer, Supprimer, magasin
      <4> QED BY <1>1, <4>1, <4>2 DEF Ouvrir
    <3>2. CASE EcrireContenu(p)
      BY <1>1, <3>2 DEF EcrireContenu, Sauver, SauverS3, SauverFichier, magasin, Ouvrir
    <3>3. CASE Controler(p) \/ Inserer(p, Base(h)) \/ Confirmer(p)
      BY <1>1, <3>3 DEF Controler, Inserer, Confirmer, tables, magasin, Ouvrir
    <3> QED BY <2>2, <3>1, <3>2, <3>3 DEF PasDepot, EtapeDepot
  <2>3. CASE Mourir(Hotes) /\ PerdreCache
    <3>1. d \in enCache /\ \A h \in Hotes : inst'[h] = "eteint"
      BY <1>1, <2>3 DEF PerdreCache, Mourir, Ouvrir
    <3>2. stockage = "filesystem"
      BY <1>1, <3>1 DEF Coherence, DepotCoherence, TypeOK, DepotTypeOK, Stockages
    <3> QED BY <3>1, <3>2
  <2> QED
    BY <1>1, <2>1, <2>2, <2>3, Mouvements DEF depot, tables, magasin
<1>2. TypeOK /\ Coherence /\ [Next]_vars =>
         [\A d \in confirmees : Perdu(d) => Coupee(d)]_vars
  BY <1>1
<1> QED
  BY <1>2, Coherente, PTL DEF Spec, SeuleCoupure

(* Nothing runs on half a schema, however many processes migrate and die   *)
(* (migrate.Up, applySchema).                                              *)
THEOREM SchemaComplet == Spec => []SchemaAJour
<1>1. Coherence => SchemaAJour BY DEF Coherence, SchemaOk
<1> QED BY <1>1, Coherente, PTL

(* The pool outlives the purge and the requests that Shutdown waited for   *)
(* (Server.Serve, startOAuthPurge).                                        *)
THEOREM PoolToujoursTenu == Spec => []PoolTenu
<1>1. Coherence => PoolTenu BY DEF Coherence, PoolOk, PoolTenu
<1> QED BY <1>1, Coherente, PTL

(* A seed spares an instance that had lived (checkEmptyInstance).          *)
THEOREM SurVide == Spec => []AmorceSurVide
<1>1. Coherence => AmorceSurVide BY DEF Coherence, AmorceOk, AmorceSurVide
<1> QED BY <1>1, Coherente, PTL

-----------------------------------------------------------------------------
(* A stop only goes forward, whatever requests, seeds, ticks and signals   *)
(* come meanwhile (Server.Serve, the deferred calls of serve).             *)
THEOREM EnArret == Spec => ArretSansRetour
<1> DEFINE avant == inst[Serveur]
           apres == inst'[Serveur]
           Avance == /\ apres \in IF avant = "arret" THEN {"arret", "sortir"}
                                  ELSE IF avant = "sortir" THEN {"sortir", "fermer"}
                                       ELSE {"fermer"}
                     /\ EnVol' \subseteq EnVol
                     /\ avant # "arret" => sortie' = sortie
                     /\ avant = "sortir" => purge' # "absente"
                     /\ purge = "finie" => purge' = "finie"
           EnCoursDArret == avant \in {"arret", "sortir", "fermer"} /\ apres # "eteint"
<1>1. ASSUME TypeOK, PoolOk, Next, EnCoursDArret PROVE Avance
  <2>0. /\ UNCHANGED depot => EnVol' = EnVol
        /\ purge = "absente" => avant = "fermer"
    BY <1>1 DEF depot, EnVol, EnCours, PoolOk
  <2>1. ASSUME apres = avant, UNCHANGED <<purge, sortie>>, EnVol' \subseteq EnVol PROVE Avance
    BY <1>1, <2>0, <2>1
  <2>2. ASSUME NEW morts, Mourir(morts) PROVE Avance
    <3>1. Serveur \notin morts BY <1>1, <2>2, Acteurs DEF Mourir
    <3>2. UNCHANGED <<purge, sortie>> /\ apres = avant
      BY <2>2, <3>1, Acteurs, <1>1 DEF Mourir, TypeOK
    <3>3. EnVol' \subseteq EnVol
      BY <2>2, Acteurs DEF Mourir, EnVol, EnCours
    <3> QED BY <2>1, <3>2, <3>3
  <2>3. ASSUME NEW h \in Hotes, Lancer(h) \/ Connecter(h) \/ Migrer(h) PROVE Avance
    <3>1. UNCHANGED <<depot, purge, sortie>>
      BY <2>3 DEF Lancer, Connecter, Migrer, service
    <3>2. h # Serveur
      BY <1>1, <2>3 DEF Lancer, Connecter, Migrer
    <3>3. apres = avant
      BY <1>1, <2>3, <3>2, Acteurs
      DEF Lancer, Connecter, Migrer, AppliquerUne, Passer, Fermer, TypeOK
    <3> QED BY <2>0, <2>1, <3>1, <3>3
  <2>4. CASE Signaler \/ Saisir
    BY <2>0, <2>1, <2>4 DEF Signaler, Saisir, service
  <2>5. CASE Tic \/ FinirPasse \/ FinirPurge
    <3>1. /\ UNCHANGED <<depot, inst, sortie>>
          /\ purge \in {"repos", "passe"} /\ purge' \in {"repos", "passe", "finie"}
      BY <2>5 DEF Tic, FinirPasse, FinirPurge
    <3> QED BY <1>1, <2>0, <3>1
  <2>6. CASE EcouteTombee \/ FinirArret \/ DelaiPasse
    <3>1. /\ avant = "arret" /\ apres = "sortir" /\ UNCHANGED <<depot, purge>>
      BY <1>1, <2>6, Acteurs DEF EcouteTombee, FinirArret, DelaiPasse, Sortir, Passer, TypeOK
    <3> QED BY <2>0, <3>1
  <2>7. CASE ArreterPurge
    <3>1. avant = "sortir" /\ apres = "fermer" /\ UNCHANGED <<depot, purge, sortie>>
      BY <1>1, <2>7, Acteurs DEF ArreterPurge, Fermer, Passer, service, TypeOK
    <3> QED BY <2>0, <3>1
  <2>8. CASE Ecouter \/ Arreter \/ \E p \in Requetes : RecevoirDepot(p)
    BY <1>1, <2>8 DEF Ecouter, Arreter, RecevoirDepot
  <2>9. ASSUME NEW p \in Requetes, Servir(p) PROVE Avance
    <3>1. EtapeDepot(p, Base(Serveur)) /\ p \in Appelants BY <2>9, Acteurs DEF Servir
    <3>2. EnVol' \subseteq EnVol BY <1>1, <3>1, EnVolMoindre
    <3> QED BY <2>1, <2>9, <3>2 DEF Servir, processus
  <2>10. ASSUME NEW h \in Amorces, Identifier(h) \/ Verifier(h) \/ Semer(h) PROVE Avance
    <3>1. UNCHANGED <<depot, purge, sortie>> /\ h # Serveur
      BY <2>10, Acteurs DEF Identifier, Verifier, Semer, service
    <3>2. apres = avant
      BY <1>1, <2>10, <3>1, Acteurs
      DEF Identifier, Verifier, Semer, Avancer, Passer, Fermer, TypeOK
    <3> QED BY <2>0, <2>1, <3>1, <3>2
  <2>11. ASSUME NEW h \in Amorces, Deposer(h) PROVE Avance
    <3>1. UNCHANGED <<purge, sortie>> /\ apres = avant
      BY <1>1, <2>11, Acteurs
      DEF Deposer, Suite, Avancer, Passer, Fermer, TypeOK, processus, service
    <3>2. EnVol' \subseteq EnVol
      BY <1>1, <2>11, Acteurs, EnVolMoindre, EnVolAmorce DEF Deposer
    <3> QED BY <2>1, <3>1, <3>2
  <2> QED
    BY <1>1, <2>2, <2>3, <2>4, <2>5, <2>6, <2>7, <2>8, <2>9, <2>10, <2>11
    DEF Next, Tuer, Coupure, Quitter
<1>2. TypeOK /\ Coherence /\ [Next]_vars => [EnCoursDArret => Avance]_vars
  BY <1>1 DEF Coherence
<1> QED
  BY <1>2, Coherente, PTL DEF Spec, ArretSansRetour
=============================================================================

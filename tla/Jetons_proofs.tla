---------------------------- MODULE Jetons_proofs ----------------------------
(***************************************************************************)
(* Proofs about Jetons, for any number of requests, authorizations and     *)
(* tokens: the type invariant, the inductive invariant Coherence part by   *)
(* part, then one successor per refresh token, the strict rotation and the *)
(* consent behind every token.                                             *)
(***************************************************************************)
EXTENDS Jetons, TLAPS

(* What a request is, at each of its steps. *)
Sorte(p) ==
    /\ pc[p] = "attente" => op[p] = "aucune"
    /\ pc[p] \in {"noter", "creer_code", "creer_defi"} => op[p] = "autoriser"
    /\ pc[p] \in {"lire_code", "lire_defi", "effacer_defi", "relire_code", "consommer"} =>
            op[p] = "echanger"
    /\ pc[p] \in {"lire", "retirer"} => op[p] = "tourner"
    /\ pc[p] = "effacer" => op[p] = "rejouer_jeton"
    /\ pc[p] = "chercher" => op[p] = "revoquer"
    /\ pc[p] \in {"rafraichir", "rafraichir_verrous", "acces", "acces_verrous"} =>
            op[p] \in {"tourner", "revoquer", "rejouer_code", "rejouer_jeton"}
    /\ pc[p] = "emettre" => op[p] \in {"echanger", "tourner"}
    /\ op[p] \in {"autoriser", "echanger", "rejouer_code"} => cible[p] \in Codes
    /\ op[p] \in {"tourner", "rejouer_jeton"} => cible[p] \in JetonsDe({"rafraichir"})
    /\ op[p] = "revoquer" => cible[p] \in TousJetons
    /\ neuve[p] # Aucune => pc[p] = "valider" /\ op[p] \in {"echanger", "tourner"}

Formes == TypeOK /\ \A p \in Requetes : Sorte(p)

-----------------------------------------------------------------------------
(* The rows: a code, a challenge or a token of one of the two kinds, and   *)
(* no row is of two kinds.                                                 *)
LEMMA Rangees ==
    /\ Codes \cap Defis = {} /\ Codes \cap TousJetons = {} /\ Defis \cap TousJetons = {}
    /\ \A a \in Autorisations : <<"code", a>> \in Codes /\ <<"defi", a>> \in Defis
    /\ \A n \in Paires :
          /\ <<"acces", n>> \in JetonsDe({"acces"})
          /\ <<"rafraichir", n>> \in JetonsDe({"rafraichir"})
    /\ JetonsDe({"acces"}) \cap JetonsDe({"rafraichir"}) = {}
    /\ JetonsDe({"acces"}) \cup JetonsDe({"rafraichir"}) = TousJetons
    /\ \A l \in Codes \cup Defis : l[2] \in Autorisations
    /\ \A l \in TousJetons : l[2] \in Paires
    /\ \A l \in Codes : l = <<"code", l[2]>>
    /\ \A l \in JetonsDe({"acces"}) : l = <<"acces", l[2]>>
    /\ \A l \in JetonsDe({"rafraichir"}) : l = <<"rafraichir", l[2]>>
BY DEF Codes, Defis, TousJetons, JetonsDe

(* The family of a row that exists or not is an authorization or none. *)
LEMMA Familles ==
    ASSUME TypeOK, NEW l \in Codes \cup TousJetons \cup {Aucune}
    PROVE  FamilleDe(l) \in Autorisations \cup {Aucune}
BY Rangees DEF FamilleDe, TypeOK

(* What a client holds is a code or a token. *)
LEMMA RecusConnus == Recus \subseteq Codes \cup TousJetons
<1>1. \A a \in Autorisations : <<"code", a>> \in Codes
  BY Rangees
<1>2. {<<"code", a>> : a \in {b \in Autorisations : etat[<<"defi", b>>] # "jamais"}} \subseteq Codes
  BY <1>1
<1>3. {l \in TousJetons : origine[l[2]] # Aucune} \subseteq TousJetons
  OBVIOUS
<1> QED BY <1>2, <1>3 DEF Recus

(* The kinds of rows that a revocation goes through. *)
LEMMA DeuxNatures ==
    /\ DOMAIN Verrous = {"rafraichir", "acces"}
    /\ Verrous["rafraichir"] = "rafraichir_verrous" /\ Verrous["acces"] = "acces_verrous"
BY DEF Verrous

-----------------------------------------------------------------------------
(* Types. *)

LEMMA FormesRecevoir ==
    ASSUME Formes, NEW p \in Requetes, NEW o, NEW l, NEW pas,
           \/ o = "autoriser" /\ l \in Codes /\ pas = "noter"
           \/ o = "echanger" /\ l \in Codes /\ pas = "lire_code"
           \/ o = "tourner" /\ l \in JetonsDe({"rafraichir"}) /\ pas = "lire"
           \/ o = "revoquer" /\ l \in TousJetons /\ pas = "chercher",
           Recevoir(p, o, l, pas)
    PROVE  Formes'
<1>1. seul' \in [Requetes -> BOOLEAN]
  <2> DEFINE f(r) == IF r = p THEN \A q \in Requetes : ~EnCours(q, FamilleDe(l))
                     ELSE seul[r] /\ ~EnCours(r, FamilleDe(l))
  <2>1. seul' = [r \in Requetes |-> f(r)] BY DEF Recevoir
  <2>2. \A r \in Requetes : f(r) \in BOOLEAN BY DEF Formes, TypeOK
  <2> HIDE DEF f
  <2> QED BY <2>1, <2>2
<1>2. o \in Operations /\ l \in Codes \cup TousJetons \cup {Aucune} /\ pas \in Pas
  BY Rangees DEF Operations, Pas
<1>3. TypeOK'
  BY <1>1, <1>2 DEF Recevoir, Formes, TypeOK, tables, transaction
<1>4. ASSUME NEW q \in Requetes PROVE Sorte(q)'
  BY <1>4 DEF Recevoir, Formes, TypeOK, Sorte, transaction
<1> QED BY <1>3, <1>4 DEF Formes

(* An answer puts the request back where it was before it came in. *)
LEMMA FormesRepondre ==
    ASSUME Formes, NEW p \in Requetes, Repondre(p)
    PROVE  /\ op' \in [Requetes -> Operations]
           /\ cible' \in [Requetes -> Codes \cup TousJetons \cup {Aucune}]
           /\ pc' \in [Requetes -> Pas]
           /\ tient' \in [Requetes -> SUBSET (Codes \cup TousJetons)]
           /\ reste' \in [Requetes -> SUBSET TousJetons]
           /\ neuve' \in [Requetes -> Paires \cup {Aucune}]
           /\ seul' \in [Requetes -> BOOLEAN]
           /\ \A q \in Requetes : Sorte(q)'
<1>1. \A q \in Requetes : Sorte(q)'
  BY DEF Repondre, Formes, TypeOK, Sorte
<1> QED BY <1>1 DEF Repondre, Formes, TypeOK, Operations, Pas

(* A first statement that fails: nothing is written, the second is next.   *)
LEMMA Echec ==
    ASSUME Formes, NEW p \in Requetes, Echouer(p)
    PROVE  /\ UNCHANGED <<tables, op, cible, neuve>>
           /\ \/ op[p] = "rejouer_code" /\ pc' = [pc EXCEPT ![p] = "rafraichir"]
              \/ op[p] = "revoquer" /\ pc' = [pc EXCEPT ![p] = "acces"]
           /\ pc[p] # "attente" /\ pc[p] # "valider"
           /\ tient' = [tient EXCEPT ![p] = {}] /\ reste' = [reste EXCEPT ![p] = {}]
           /\ seul' = [seul EXCEPT ![p] = FALSE]
BY DEF Echouer, Aller, Seconde

(* Every other step moves the request that takes it along its path. *)
LEMMA FormesEtape ==
    ASSUME Formes, NEW p \in Requetes, Etape(p) \/ Abandonner(p)
    PROVE  Formes'
<1> USE DEF tables, requete, transaction
<1>1. CASE Noter(p)
  <2>1. cible[p] \in Codes BY <1>1 DEF Noter, Formes, Sorte
  <2>2. TypeOK' BY <1>1, <2>1, Rangees DEF Noter, Formes, TypeOK, Aller, Pas
  <2>3. \A q \in Requetes : Sorte(q)' BY <1>1 DEF Noter, Formes, TypeOK, Sorte, Aller
  <2> QED BY <2>2, <2>3 DEF Formes
<1>2. CASE CreerCode(p)
  <2>1. TypeOK' BY <1>2 DEF CreerCode, Poser, Formes, TypeOK, Aller, Pas
  <2>2. \A q \in Requetes : Sorte(q)' BY <1>2 DEF CreerCode, Formes, TypeOK, Sorte, Aller
  <2> QED BY <2>1, <2>2 DEF Formes
<1>3. CASE CreerDefi(p)
  <2>1. TypeOK' BY <1>3, FormesRepondre DEF CreerDefi, Poser, Formes, TypeOK
  <2> QED BY <1>3, <2>1, FormesRepondre DEF CreerDefi, Formes
<1>4. CASE LireCode(p)
  <2>1. CASE Repondre(p)
    BY <1>4, <2>1, FormesRepondre DEF LireCode, Formes, TypeOK
  <2>2. CASE Aller(p, "lire_defi") /\ UNCHANGED <<requete, transaction>>
    BY <1>4, <2>2 DEF LireCode, Formes, TypeOK, Sorte, Aller, Pas
  <2>3. CASE /\ op' = [op EXCEPT ![p] = "rejouer_code"]
             /\ Aller(p, "acces")
             /\ UNCHANGED <<cible, seul, transaction>>
    <3>1. TypeOK' BY <1>4, <2>3 DEF LireCode, Formes, TypeOK, Aller, Pas, Operations
    <3>2. \A q \in Requetes : Sorte(q)'
      BY <1>4, <2>3 DEF LireCode, Formes, TypeOK, Sorte, Aller
    <3> QED BY <3>1, <3>2 DEF Formes
  <2> QED BY <1>4, <2>1, <2>2, <2>3 DEF LireCode
<1>5. CASE LireDefi(p)
  <2>1. CASE Repondre(p)
    BY <1>5, <2>1, FormesRepondre DEF LireDefi, Formes, TypeOK
  <2>2. CASE Aller(p, "effacer_defi") /\ UNCHANGED <<requete, transaction>>
    BY <1>5, <2>2 DEF LireDefi, Formes, TypeOK, Sorte, Aller, Pas
  <2> QED BY <1>5, <2>1, <2>2 DEF LireDefi
<1>6. CASE EffacerDefi(p)
  <2>1. etat' \in [Lignes -> {"jamais", "active", "inactive", "effacee"}]
    BY <1>6 DEF EffacerDefi, Formes, TypeOK
  <2>2. CASE Repondre(p)
    BY <1>6, <2>1, <2>2, FormesRepondre DEF EffacerDefi, Formes, TypeOK
  <2>3. CASE Aller(p, "relire_code") /\ UNCHANGED <<requete, transaction>>
    <3>1. TypeOK' BY <1>6, <2>1, <2>3 DEF EffacerDefi, Formes, TypeOK, Aller, Pas
    <3>2. \A q \in Requetes : Sorte(q)'
      BY <1>6, <2>3 DEF EffacerDefi, Formes, TypeOK, Sorte, Aller
    <3> QED BY <3>1, <3>2 DEF Formes
  <2> QED BY <1>6, <2>2, <2>3 DEF EffacerDefi
<1>7. CASE RelireCode(p)
  <2>1. CASE Repondre(p)
    BY <1>7, <2>1, FormesRepondre DEF RelireCode, Formes, TypeOK
  <2>2. CASE Aller(p, "consommer") /\ UNCHANGED <<requete, transaction>>
    BY <1>7, <2>2 DEF RelireCode, Formes, TypeOK, Sorte, Aller, Pas
  <2> QED BY <1>7, <2>1, <2>2 DEF RelireCode
<1>8. CASE Lire(p)
  <2>1. CASE Repondre(p)
    BY <1>8, <2>1, FormesRepondre DEF Lire, Formes, TypeOK
  <2>2. CASE Aller(p, "retirer") /\ UNCHANGED <<requete, transaction>>
    BY <1>8, <2>2 DEF Lire, Formes, TypeOK, Sorte, Aller, Pas
  <2>3. CASE /\ op' = [op EXCEPT ![p] = "rejouer_jeton"]
             /\ Aller(p, "effacer")
             /\ UNCHANGED <<cible, seul, transaction>>
    <3>1. TypeOK' BY <1>8, <2>3 DEF Lire, Formes, TypeOK, Aller, Pas, Operations
    <3>2. \A q \in Requetes : Sorte(q)'
      BY <1>8, <2>3 DEF Lire, Formes, TypeOK, Sorte, Aller
    <3> QED BY <3>1, <3>2 DEF Formes
  <2> QED BY <1>8, <2>1, <2>2, <2>3 DEF Lire
<1>9. CASE Chercher(p)
  <2>1. CASE Repondre(p)
    BY <1>9, <2>1, FormesRepondre DEF Chercher, Formes, TypeOK
  <2>2. CASE Aller(p, "rafraichir") /\ UNCHANGED <<requete, transaction>>
    BY <1>9, <2>2 DEF Chercher, Formes, TypeOK, Sorte, Aller, Pas
  <2> QED BY <1>9, <2>1, <2>2 DEF Chercher
<1>10. CASE Consommer(p)
  <2>1. CASE Repondre(p)
    BY <1>10, <2>1, FormesRepondre DEF Consommer, Formes, TypeOK
  <2>2. CASE Tenir(p, cible[p]) /\ Aller(p, "emettre") /\ UNCHANGED <<requete, reste, neuve>>
    <3>1. cible[p] \in Codes BY <1>10 DEF Consommer, Formes, Sorte
    <3>2. TypeOK' BY <1>10, <2>2, <3>1 DEF Consommer, Tenir, Formes, TypeOK, Aller, Pas
    <3>3. \A q \in Requetes : Sorte(q)'
      BY <1>10, <2>2 DEF Consommer, Formes, TypeOK, Sorte, Aller
    <3> QED BY <3>2, <3>3 DEF Formes
  <2> QED BY <1>10, <2>1, <2>2 DEF Consommer
<1>11. CASE Retirer(p)
  <2>1. CASE Repondre(p)
    BY <1>11, <2>1, FormesRepondre DEF Retirer, Formes, TypeOK
  <2>2. CASE Tenir(p, cible[p]) /\ Aller(p, "rafraichir") /\ UNCHANGED <<requete, reste, neuve>>
    <3>1. cible[p] \in TousJetons BY <1>11, Rangees DEF Retirer, Formes, Sorte
    <3>2. TypeOK' BY <1>11, <2>2, <3>1 DEF Retirer, Tenir, Formes, TypeOK, Aller, Pas
    <3>3. \A q \in Requetes : Sorte(q)'
      BY <1>11, <2>2 DEF Retirer, Formes, TypeOK, Sorte, Aller
    <3> QED BY <3>2, <3>3 DEF Formes
  <2> QED BY <1>11, <2>1, <2>2 DEF Retirer
<1>12. CASE Effacer(p)
  <2>1. cible[p] \in TousJetons BY <1>12, Rangees DEF Effacer, Formes, Sorte
  <2>2. tient' \in [Requetes -> SUBSET (Codes \cup TousJetons)]
    BY <1>12, <2>1 DEF Effacer, Tenir, Formes, TypeOK
  <2>3. TypeOK' BY <1>12, <2>2 DEF Effacer, Formes, TypeOK, Aller, Pas
  <2>4. \A q \in Requetes : Sorte(q)'
    BY <1>12 DEF Effacer, Formes, TypeOK, Sorte, Aller
  <2> QED BY <2>3, <2>4 DEF Formes
<1>13. CASE Verrouiller(p)
  <2>1. tient' \in [Requetes -> SUBSET (Codes \cup TousJetons)]
    BY <1>13 DEF Verrouiller, Tenir, Formes, TypeOK
  <2>2. TypeOK' BY <1>13, <2>1 DEF Verrouiller, Formes, TypeOK
  <2>3. \A q \in Requetes : Sorte(q)'
    BY <1>13 DEF Verrouiller, Formes, TypeOK, Sorte
  <2> QED BY <2>2, <2>3 DEF Formes
<1>14. CASE Balayer(p)
  <2>1. pc'[p] \in {"rafraichir_verrous", "acces_verrous"} /\ pc' = [pc EXCEPT ![p] = pc'[p]]
    BY <1>14, DeuxNatures DEF Balayer, Aller, Formes, TypeOK
  <2>2. reste' \in [Requetes -> SUBSET TousJetons]
    <3>1. JetonsDe({pc[p]}) \subseteq TousJetons BY <1>14, DeuxNatures, Rangees DEF Balayer
    <3> QED BY <1>14, <3>1 DEF Balayer, Formes, TypeOK
  <2>3. TypeOK' BY <1>14, <2>1, <2>2 DEF Balayer, Formes, TypeOK, Pas
  <2>4. pc[p] \in {"rafraichir", "acces"} BY <1>14, DeuxNatures DEF Balayer
  <2>5. \A q \in Requetes : Sorte(q)'
    BY <1>14, <2>1, <2>4 DEF Balayer, Formes, TypeOK, Sorte
  <2> QED BY <2>3, <2>5 DEF Formes
<1>15. CASE Terminer(p)
  <2>1. etat' \in [Lignes -> {"jamais", "active", "inactive", "effacee"}]
    BY <1>15 DEF Terminer, Desactiver, Formes, TypeOK
  <2>2. chutes' \subseteq Autorisations
    BY <1>15 DEF Terminer, Chuter, Formes, TypeOK
  <2>3. CASE Repondre(p)
    BY <1>15, <2>1, <2>2, <2>3, FormesRepondre DEF Terminer, Formes, TypeOK
  <2>4. CASE ~Repondre(p)
    <3>1. PICK pas \in {"acces", "rafraichir", "emettre", "valider"} :
              pc' = [pc EXCEPT ![p] = pas] /\ (pas = "emettre" => op[p] = "tourner")
      BY <1>15, <2>4 DEF Terminer, Aller, Seconde
    <3>2. UNCHANGED <<accords, famille, origine, op, cible, seul, reste, neuve>>
      BY <1>15, <2>4 DEF Terminer
    <3>3. tient' \in [Requetes -> SUBSET (Codes \cup TousJetons)]
      BY <1>15, <2>4 DEF Terminer, Formes, TypeOK
    <3>4. TypeOK' BY <2>1, <2>2, <3>1, <3>2, <3>3 DEF Formes, TypeOK, Pas
    <3>5. \A q \in Requetes : Sorte(q)'
      BY <1>15, <3>1, <3>2 DEF Terminer, Formes, TypeOK, Sorte
    <3> QED BY <3>4, <3>5 DEF Formes
  <2> QED BY <2>3, <2>4
<1>16. CASE Emettre(p)
  <2>1. TypeOK' BY <1>16 DEF Emettre, Formes, TypeOK, Aller, Pas
  <2>2. \A q \in Requetes : Sorte(q)'
    BY <1>16 DEF Emettre, Formes, TypeOK, Sorte, Aller
  <2> QED BY <2>1, <2>2 DEF Formes
<1>17. CASE Valider(p)
  <2>1. Repondre(p) BY <1>17 DEF Valider
  <2>2. etat' \in [Lignes -> {"jamais", "active", "inactive", "effacee"}]
    BY <1>17 DEF Valider, Valide, Formes, TypeOK
  <2>3. chutes' \subseteq Autorisations
    BY <1>17 DEF Valider, Chuter, Formes, TypeOK
  <2>4. famille' \in [Paires -> Autorisations \cup {Aucune}]
    BY <1>17, Familles DEF Valider, Formes, TypeOK
  <2>5. origine' \in [Paires -> Codes \cup JetonsDe({"rafraichir"}) \cup {Aucune}]
    BY <1>17 DEF Valider, Formes, TypeOK, Sorte
  <2>6. accords' = accords BY <1>17 DEF Valider
  <2>7. TypeOK' BY <2>1, <2>2, <2>3, <2>4, <2>5, <2>6, FormesRepondre DEF Formes, TypeOK
  <2> QED BY <2>1, <2>7, FormesRepondre DEF Formes
<1>18. CASE Abandonner(p)
  BY <1>18, FormesRepondre DEF Abandonner, Formes, TypeOK
<1>19. CASE Echouer(p)
  <2>1. TypeOK' BY <1>19, Echec DEF Formes, TypeOK, tables, Pas
  <2>2. \A q \in Requetes : Sorte(q)'
    BY <1>19, Echec DEF Formes, TypeOK, Sorte
  <2> QED BY <2>1, <2>2 DEF Formes
<1> QED BY <1>1, <1>2, <1>3, <1>4, <1>5, <1>6, <1>7, <1>8, <1>9, <1>10, <1>11, <1>12, <1>13,
           <1>14, <1>15, <1>16, <1>17, <1>18, <1>19 DEF Etape

(* A request comes in, takes a step or dies; or the purge runs; or nothing. *)
Arriver(p) ==
    RecevoirDecision(p) \/ RecevoirCode(p) \/ RecevoirJeton(p) \/ RecevoirRevocation(p)

LEMMA FormesSuivant ==
    ASSUME Formes, [Next]_vars
    PROVE  Formes'
<1>1. ASSUME NEW p \in Requetes, Arriver(p) PROVE Formes'
  <2>1. CASE RecevoirDecision(p)
    <3>1. PICK a \in Autorisations : Recevoir(p, "autoriser", <<"code", a>>, "noter")
      BY <2>1 DEF RecevoirDecision
    <3>2. <<"code", a>> \in Codes BY Rangees
    <3> QED BY <3>1, <3>2, FormesRecevoir
  <2>2. CASE RecevoirCode(p)
    BY <2>2, FormesRecevoir DEF RecevoirCode
  <2>3. CASE RecevoirJeton(p)
    BY <2>3, FormesRecevoir DEF RecevoirJeton
  <2>4. CASE RecevoirRevocation(p)
    BY <2>4, FormesRecevoir DEF RecevoirRevocation
  <2> QED BY <1>1, <2>1, <2>2, <2>3, <2>4 DEF Arriver
<1>2. CASE Purger
  <2>1. etat' \in [Lignes -> {"jamais", "active", "inactive", "effacee"}]
    BY <1>2 DEF Purger, Formes, TypeOK
  <2> QED BY <1>2, <2>1 DEF Purger, Formes, TypeOK, Sorte, requete, transaction
<1>3. CASE UNCHANGED vars
  BY <1>3 DEF vars, tables, transaction, Formes, TypeOK, Sorte
<1> QED BY <1>1, <1>2, <1>3, FormesEtape DEF Next, Repos, Arriver

-----------------------------------------------------------------------------
(* The inductive invariant. *)

(* A row is held by one transaction at a time, and a pair that is not      *)
(* committed yet is of one transaction.                                    *)
Exclusion ==
    \A p, q \in Requetes :
        p # q => tient[p] \cap tient[q] = {} /\ (neuve[p] = neuve[q] => neuve[p] = Aucune)

(* What is held is there: nobody else changes it, the purge included. *)
Tenues == \A p \in Requetes : tient[p] \subseteq Presentes

(* A pair has an origin from the commit that makes its two rows. *)
Naissance ==
    \A n \in Paires :
        /\ (etat[<<"acces", n>>] = "jamais") <=> (origine[n] = Aucune)
        /\ (etat[<<"rafraichir", n>>] = "jamais") <=> (origine[n] = Aucune)

(* What a transaction has done, at each of its steps: a rotation holds the *)
(* token that was presented, which is active until the commit, then also   *)
(* the access token issued with it, unless it was not active any more.     *)
Prise(p) ==
    LET compagnon == <<"acces", cible[p][2]>>
    IN /\ neuve[p] # Aucune => origine[neuve[p]] = Aucune
       /\ op[p] = "echanger" /\ pc[p] \in {"emettre", "valider"} => cible[p] \in tient[p]
       /\ op[p] = "tourner" /\ pc[p] # "lire" /\ pc[p] # "retirer" =>
             cible[p] \in tient[p] /\ etat[cible[p]] = "active"
       /\ op[p] = "tourner" /\ pc[p] \in {"acces_verrous", "emettre", "valider"} =>
             \/ etat[compagnon] # "active"
             \/ compagnon \in tient[p]
             \/ pc[p] = "acces_verrous" /\ compagnon \in reste[p]

(* What was replaced is used up, its access token with it. *)
Epuise(n) == \A l \in {<<"rafraichir", n>>, <<"acces", n>>} : etat[l] \in {"inactive", "effacee"}

Remplaces == \A m, n \in Paires : origine[n] = <<"rafraichir", m>> => Epuise(m)

(* A code is only written once the consent is. *)
Note(p) ==
    pc[p] \in {"creer_code", "creer_defi"} =>
        cible[p][2] \in Autorisations /\ Couple[cible[p][2]] \in accords

Coherence ==
    /\ Exclusion /\ Tenues /\ Naissance /\ Remplaces /\ UnSuccesseur /\ Consenti
    /\ \A p \in Requetes : Prise(p) /\ Note(p)

(* How a step of p changes the rows: those it holds become inactive or     *)
(* disappear, those of its pair appear, and a code or a challenge outside  *)
(* of any transaction.                                                     *)
Ecrit(p, l) ==
    \/ etat'[l] = etat[l]
    \/ l \in tient[p] /\ etat'[l] \in {"inactive", "effacee"}
    \/ /\ l \in TousJetons /\ l[2] = neuve[p] /\ pc[p] = "valider"
       /\ origine'[l[2]] = cible[p] /\ etat'[l] = "active"
    \/ l \in Codes /\ l = cible[p] /\ pc[p] = "creer_code" /\ etat'[l] = "active"
    \/ l \in Defis

LEMMA Ecriture ==
    ASSUME Formes, Coherence, NEW p \in Requetes, Etape(p) \/ Abandonner(p),
           NEW l \in Lignes
    PROVE  Ecrit(p, l)
<1> USE DEF tables, Ecrit
<1>1. CASE UNCHANGED etat BY <1>1
<1>2. CASE CreerCode(p)
  BY <1>2 DEF CreerCode, Poser, Formes, TypeOK, Sorte
<1>3. CASE CreerDefi(p)
  <2>1. <<"defi", cible[p][2]>> \in Defis
    BY <1>3, Rangees DEF CreerDefi, Formes, Sorte
  <2> QED BY <1>3, <2>1 DEF CreerDefi, Poser, Formes, TypeOK
<1>4. CASE EffacerDefi(p)
  <2>1. Defi(p) \in Defis
    BY <1>4, Rangees DEF EffacerDefi, Defi, Formes, Sorte
  <2> QED BY <1>4, <2>1 DEF EffacerDefi, Formes, TypeOK
<1>5. CASE Terminer(p) BY <1>5 DEF Terminer, Desactiver
<1>6. CASE Valider(p)
  <2>1. etat'[l] = CASE l \in tient[p] /\ op[p] = "rejouer_jeton" /\ l = cible[p] -> "effacee"
          [] l \in tient[p] /\ ~(op[p] = "rejouer_jeton" /\ l = cible[p]) -> "inactive"
          [] l \notin tient[p] /\ l \in TousJetons /\ l[2] = neuve[p] -> "active"
          [] OTHER -> etat[l]
    BY <1>6 DEF Valider, Valide
  <2>2. CASE l \in tient[p] BY <2>1, <2>2
  <2>3. CASE l \notin tient[p] /\ l \in TousJetons /\ l[2] = neuve[p]
    <3>1. neuve[p] # Aucune /\ neuve[p] \in Paires
      BY <2>3, Rangees, JetonsAssumption DEF Formes, TypeOK
    <3>2. origine'[neuve[p]] = cible[p] BY <1>6, <3>1 DEF Valider, Formes, TypeOK
    <3> QED BY <1>6, <2>1, <2>3, <3>2 DEF Valider
  <2>4. CASE l \notin tient[p] /\ ~(l \in TousJetons /\ l[2] = neuve[p]) BY <2>1, <2>4
  <2> QED BY <2>2, <2>3, <2>4
<1> QED
  BY <1>1, <1>2, <1>3, <1>4, <1>5, <1>6 DEF Etape, Abandonner, Echouer, Noter, LireCode, LireDefi,
     RelireCode, Lire, Chercher, Consommer, Retirer, Effacer, Verrouiller, Balayer, Emettre

(* A step of one request leaves the locals of the others alone. *)
LEMMA Cadre ==
    ASSUME Formes, NEW p \in Requetes, Etape(p) \/ Abandonner(p), NEW q \in Requetes \ {p}
    PROVE  /\ op'[q] = op[q] /\ cible'[q] = cible[q] /\ pc'[q] = pc[q]
           /\ tient'[q] = tient[q] /\ reste'[q] = reste[q] /\ neuve'[q] = neuve[q]
<1> USE DEF Formes, TypeOK, requete, transaction, Aller, Repondre
<1>1. CASE \/ Noter(p) \/ CreerCode(p) \/ CreerDefi(p) \/ LireCode(p) \/ LireDefi(p)
           \/ EffacerDefi(p) \/ RelireCode(p) \/ Lire(p) \/ Chercher(p)
  BY <1>1 DEF Noter, CreerCode, CreerDefi, LireCode, LireDefi, EffacerDefi, RelireCode, Lire,
     Chercher
<1>2. CASE \/ Consommer(p) \/ Retirer(p) \/ Effacer(p) \/ Verrouiller(p)
  BY <1>2 DEF Consommer, Retirer, Effacer, Verrouiller, Tenir
<1>3. CASE Balayer(p) \/ Terminer(p) \/ Echouer(p) \/ Emettre(p) \/ Valider(p) \/ Abandonner(p)
  BY <1>3 DEF Balayer, Terminer, Echouer, Emettre, Valider, Abandonner
<1> QED BY <1>1, <1>2, <1>3 DEF Etape

(* What a step of p makes of its own transaction: it takes rows that are   *)
(* there and free and changes none of them, or gives all back; its pair is *)
(* a new one.                                                              *)
LEMMA Prises ==
    ASSUME Formes, NEW p \in Requetes, Etape(p) \/ Abandonner(p)
    PROVE  /\ \A l \in tient'[p] : l \in tient[p] \/ (Libre(p, l) /\ l \in Presentes)
           /\ \/ tient'[p] = {}
              \/ \A l \in Lignes : etat'[l] = etat[l] \/ etat'[l] = "active" \/ l \in Defis
           /\ \/ neuve'[p] = Aucune
              \/ neuve'[p] = neuve[p] /\ origine' = origine
              \/ Vierge(neuve'[p]) /\ neuve'[p] \in Paires /\ origine' = origine
<1> USE DEF Formes, TypeOK, tables, requete, transaction, Aller, Repondre
<1>0. CASE Repondre(p) /\ UNCHANGED origine
  <2>1. tient'[p] = {} /\ neuve'[p] = Aucune BY <1>0
  <2> QED BY <2>1
<1>1. CASE UNCHANGED <<etat, origine, tient, neuve>>
  BY <1>1
<1>2. CASE CreerCode(p)
  BY <1>2 DEF CreerCode, Poser
<1>3. CASE EffacerDefi(p)
  <2>1. Defi(p) \in Defis
    BY <1>3, Rangees DEF EffacerDefi, Defi, Sorte
  <2> QED BY <1>3, <2>1 DEF EffacerDefi
<1>4. CASE \/ Consommer(p) \/ Retirer(p)
  <2>1. etat[cible[p]] = "active" => cible[p] \in Presentes \/ Consommer(p)
    BY <1>4, Rangees DEF Retirer, Sorte, Presentes, Lignes
  <2> QED BY <1>0, <1>4, <2>1 DEF Consommer, Retirer, Tenir
<1>5. CASE \/ Effacer(p) \/ Verrouiller(p)
  BY <1>5 DEF Effacer, Verrouiller, Tenir
<1>6. CASE Balayer(p) BY <1>6 DEF Balayer
<1>7. CASE Terminer(p)
  <2>1. CASE tient'[p] = {} BY <1>7, <2>1 DEF Terminer
  <2>2. CASE tient'[p] # {} BY <1>7, <2>2 DEF Terminer
  <2> QED BY <2>1, <2>2
<1>8. CASE Emettre(p) BY <1>8 DEF Emettre
<1>9. CASE Valider(p) BY <1>9 DEF Valider
<1>10. CASE \/ Noter(p) \/ CreerDefi(p) \/ LireCode(p) \/ LireDefi(p) \/ RelireCode(p)
            \/ Lire(p) \/ Chercher(p) \/ Abandonner(p)
  BY <1>0, <1>1, <1>10
     DEF Noter, CreerDefi, LireCode, LireDefi, RelireCode, Lire, Chercher, Abandonner
<1>11. CASE Echouer(p) BY <1>11, Echec
<1> QED BY <1>2, <1>3, <1>4, <1>5, <1>6, <1>7, <1>8, <1>9, <1>10, <1>11 DEF Etape

(* What is held stays held by one, and stays there. *)
LEMMA ExclusionGardee ==
    ASSUME Formes, Coherence, NEW p \in Requetes, Etape(p) \/ Abandonner(p)
    PROVE  Exclusion' /\ Tenues'
<1>1. \A q \in Requetes \ {p} : tient'[p] \cap tient[q] = {}
  BY Prises DEF Libre, Coherence, Exclusion
<1>2. \A q \in Requetes \ {p} : neuve'[p] = neuve[q] => neuve'[p] = Aucune
  BY Prises DEF Vierge, Coherence, Exclusion
<1>3. Exclusion' BY <1>1, <1>2, Cadre DEF Coherence, Exclusion
<1>4. ASSUME NEW q \in Requetes \ {p}, NEW l \in tient[q] PROVE l \in Presentes'
  <2>1. l \in Presentes /\ l \in Lignes /\ l \notin tient[p] /\ l \notin Defis
    BY <1>4, Rangees DEF Coherence, Tenues, Exclusion, Presentes, Formes, TypeOK
  <2> QED BY <2>1, Ecriture DEF Ecrit, Presentes
<1>5. ASSUME NEW l \in tient'[p] PROVE l \in Presentes'
  <2>1. l \in Presentes /\ l \in Lignes BY <1>5, Prises DEF Coherence, Tenues, Presentes
  <2>2. l \notin Defis
    <3>1. TypeOK' BY FormesEtape DEF Formes
    <3> QED BY <1>5, <3>1, Rangees DEF TypeOK
  <2> QED BY <1>5, <2>1, <2>2, Prises DEF Presentes
<1>6. Tenues' BY <1>4, <1>5, Cadre DEF Tenues
<1> QED BY <1>3, <1>6

(* The columns of a pair are written by the commit that makes it. *)
LEMMA Origines ==
    ASSUME Formes, Coherence, NEW p \in Requetes, Etape(p) \/ Abandonner(p), NEW n \in Paires
    PROVE  \/ origine'[n] = origine[n] /\ famille'[n] = famille[n]
           \/ /\ Valider(p) /\ n = neuve[p]
              /\ origine'[n] = cible[p] /\ famille'[n] = FamilleDe(cible[p])
              /\ cible[p] \in Lignes
              /\ etat'[<<"acces", n>>] = "active" /\ etat'[<<"rafraichir", n>>] = "active"
<1> USE DEF tables
<1>1. CASE Valider(p) /\ n = neuve[p]
  <2>1. neuve[p] # Aucune BY <1>1, JetonsAssumption
  <2>2. origine'[n] = cible[p] /\ famille'[n] = FamilleDe(cible[p])
    BY <1>1, <2>1 DEF Valider, Formes, TypeOK
  <2>3. cible[p] \in Lignes BY <2>1, Rangees DEF Formes, Sorte, Lignes
  <2>4. origine[n] = Aucune BY <1>1, <2>1 DEF Coherence, Prise
  <2>5. ASSUME NEW l \in {<<"acces", n>>, <<"rafraichir", n>>} PROVE etat'[l] = "active"
    <3>1. l \in TousJetons /\ l \in Lignes /\ l[2] = n BY Rangees DEF Lignes
    <3>2. etat[l] = "jamais"
      <4>1. (etat[l] = "jamais") <=> (origine[n] = Aucune) BY DEF Coherence, Naissance
      <4> QED BY <2>4, <4>1
    <3>3. l \notin tient[p] BY <3>2 DEF Coherence, Tenues, Presentes
    <3> QED BY <1>1, <3>1, <3>3 DEF Valider, Valide
  <2> QED BY <1>1, <2>2, <2>3, <2>5
<1>2. CASE Valider(p) /\ n # neuve[p]
  BY <1>2 DEF Valider, Formes, TypeOK
<1>3. CASE ~Valider(p)
  <2>1. UNCHANGED <<origine, famille>>
    BY <1>3 DEF Etape, Abandonner, Echouer, Noter, CreerCode, CreerDefi, LireCode, LireDefi, EffacerDefi,
       RelireCode, Lire, Chercher, Consommer, Retirer, Effacer, Verrouiller, Balayer, Terminer,
       Emettre
  <2> QED BY <2>1
<1> QED BY <1>1, <1>2, <1>3

(* A token that exists is not of a pair to come. *)
LEMMA PasANaitre ==
    ASSUME Formes, Coherence, NEW p \in Requetes, Etape(p) \/ Abandonner(p),
           NEW n \in Paires, origine[n] # Aucune, NEW l \in {<<"acces", n>>, <<"rafraichir", n>>}
    PROVE  \/ etat'[l] = etat[l]
           \/ l \in tient[p] /\ etat'[l] \in {"inactive", "effacee"}
<1>1. l \in Lignes /\ l \in TousJetons /\ l[2] = n /\ l \notin Defis /\ l \notin Codes
  BY Rangees DEF Lignes
<1>2. neuve[p] # n BY JetonsAssumption DEF Coherence, Prise
<1> QED BY <1>1, <1>2, Ecriture DEF Ecrit

LEMMA NaissanceGardee ==
    ASSUME Formes, Coherence, NEW p \in Requetes, Etape(p) \/ Abandonner(p)
    PROVE  Naissance'
<1> SUFFICES ASSUME NEW n \in Paires, NEW l \in {<<"acces", n>>, <<"rafraichir", n>>}
             PROVE  (etat'[l] = "jamais") <=> (origine'[n] = Aucune)
  BY DEF Naissance
<1>1. (etat[l] = "jamais") <=> (origine[n] = Aucune) BY DEF Coherence, Naissance
<1>2. l \in Lignes /\ l \in TousJetons /\ l[2] = n /\ l \notin Defis /\ l \notin Codes
  BY Rangees DEF Lignes
<1>3. CASE origine'[n] = origine[n] /\ origine[n] # Aucune
  BY <1>1, <1>3, PasANaitre
<1>4. CASE origine'[n] = origine[n] /\ origine[n] = Aucune
  <2>1. l \notin tient[p] BY <1>1, <1>4 DEF Coherence, Tenues, Presentes
  <2>2. CASE etat'[l] = etat[l] BY <1>1, <1>4, <2>2
  <2>3. CASE l[2] = neuve[p] /\ pc[p] = "valider" /\ origine'[l[2]] = cible[p]
    <3>1. cible[p] \in Lignes
      BY <1>2, <2>3, JetonsAssumption, Rangees DEF Formes, Sorte, Lignes
    <3> QED BY <1>2, <1>4, <2>3, <3>1, JetonsAssumption
  <2> QED BY <1>2, <2>1, <2>2, <2>3, Ecriture DEF Ecrit
<1>5. CASE origine'[n] # origine[n]
  BY <1>5, Origines, JetonsAssumption
<1> QED BY <1>3, <1>4, <1>5

(* A token that has a successor is used up, and has one only. *)
LEMMA RemplacesGardes ==
    ASSUME Formes, Coherence, NEW p \in Requetes, Etape(p) \/ Abandonner(p)
    PROVE  Remplaces' /\ UnSuccesseur'
<1>1. ASSUME NEW m \in Paires, Epuise(m) PROVE Epuise(m)'
  <2>1. origine[m] # Aucune BY <1>1 DEF Epuise, Coherence, Naissance
  <2> QED BY <1>1, <2>1, PasANaitre DEF Epuise
<1>2. ASSUME NEW n \in Paires, NEW m \in Paires, origine'[n] # origine[n],
             origine'[n] = <<"rafraichir", m>>
      PROVE  etat[<<"rafraichir", m>>] = "active" /\ Epuise(m)' /\ n = neuve[p]
  <2>1. Valider(p) /\ n = neuve[p] /\ cible[p] = <<"rafraichir", m>> BY <1>2, Origines
  <2>2. op[p] = "tourner"
    <3>1. cible[p] \notin Codes BY <2>1, Rangees
    <3> QED BY <2>1, <3>1, JetonsAssumption DEF Formes, Sorte
  <2>3. pc[p] = "valider" BY <2>1 DEF Valider
  <2>4. cible[p][2] = m BY <2>1
  <2>5. /\ cible[p] \in tient[p] /\ etat[cible[p]] = "active"
        /\ etat[<<"acces", m>>] # "active" \/ <<"acces", m>> \in tient[p]
    BY <2>2, <2>3, <2>4 DEF Coherence, Prise
  <2>6. origine[m] # Aucune BY <2>1, <2>5 DEF Coherence, Naissance
  <2>7. ASSUME NEW l \in {<<"rafraichir", m>>, <<"acces", m>>}
        PROVE  etat'[l] \in {"inactive", "effacee"}
    <3>1. l \in Lignes BY Rangees DEF Lignes
    <3>2. CASE l \in tient[p]
      BY <2>1, <2>2, <3>1, <3>2 DEF Valider, Valide
    <3>3. CASE l \notin tient[p]
      <4>1. l = <<"acces", m>> BY <2>1, <2>5, <3>3
      <4>2. etat[l] \in {"inactive", "effacee"}
        BY <2>5, <2>6, <3>1, <3>3, <4>1 DEF Coherence, Naissance, Formes, TypeOK
      <4> QED BY <2>6, <3>3, <4>2, PasANaitre
    <3> QED BY <3>2, <3>3
  <2> QED BY <2>1, <2>5, <2>7 DEF Epuise
<1>3. Remplaces'
  <2> SUFFICES ASSUME NEW m \in Paires, NEW n \in Paires, origine'[n] = <<"rafraichir", m>>
               PROVE  Epuise(m)'
    BY DEF Remplaces
  <2> QED BY <1>1, <1>2 DEF Coherence, Remplaces
<1>4. UnSuccesseur'
  <2> SUFFICES ASSUME NEW m \in Paires, NEW n \in Paires, origine'[m] = origine'[n],
                      origine'[m] \in JetonsDe({"rafraichir"})
               PROVE  m = n
    BY DEF UnSuccesseur
  <2>1. PICK k \in Paires : origine'[m] = <<"rafraichir", k>>
    BY Rangees DEF JetonsDe
  <2>2. ASSUME NEW i \in Paires, origine[i] = <<"rafraichir", k>>
        PROVE  etat[<<"rafraichir", k>>] # "active"
    BY <2>2 DEF Coherence, Remplaces, Epuise
  <2>3. CASE origine'[m] = origine[m] /\ origine'[n] = origine[n]
    BY <2>3 DEF Coherence, UnSuccesseur
  <2>4. CASE origine'[m] # origine[m] \/ origine'[n] # origine[n]
    BY <1>2, <2>1, <2>2, <2>4
  <2> QED BY <2>3, <2>4
<1> QED BY <1>3, <1>4

(* What the others hold and have seen, a step of p leaves as it is. *)
LEMMA PrisesDesAutres ==
    ASSUME Formes, Coherence, NEW p \in Requetes, Etape(p) \/ Abandonner(p),
           NEW q \in Requetes \ {p}
    PROVE  Prise(q)'
<1> DEFINE compagnon == <<"acces", cible[q][2]>>
<1>1. /\ op'[q] = op[q] /\ cible'[q] = cible[q] /\ pc'[q] = pc[q]
      /\ tient'[q] = tient[q] /\ reste'[q] = reste[q] /\ neuve'[q] = neuve[q]
  BY Cadre
<1>2. Prise(q) BY DEF Coherence
<1>3. neuve[q] # Aucune => origine'[neuve[q]] = Aucune
  <2> SUFFICES ASSUME neuve[q] # Aucune PROVE origine'[neuve[q]] = Aucune
    OBVIOUS
  <2>1. neuve[q] \in Paires /\ neuve[q] # neuve[p]
    BY DEF Formes, TypeOK, Coherence, Exclusion
  <2>2. origine[neuve[q]] = Aucune BY <1>2 DEF Prise
  <2> QED BY <2>1, <2>2, Origines
<1>4. ASSUME op[q] = "tourner", pc[q] # "lire", pc[q] # "retirer"
      PROVE  /\ cible[q] \in tient[q] /\ etat'[cible[q]] = "active"
             /\ compagnon \notin tient[q] /\ etat[compagnon] # "active" =>
                    etat'[compagnon] # "active"
  <2>1. cible[q] \in tient[q] /\ etat[cible[q]] = "active" BY <1>2, <1>4 DEF Prise
  <2>2. cible[q] = <<"rafraichir", cible[q][2]>> /\ cible[q][2] \in Paires
    BY <1>4, Rangees DEF Formes, Sorte
  <2>3. origine[cible[q][2]] # Aucune
    BY <2>1, <2>2 DEF Coherence, Naissance
  <2>4. cible[q] \notin tient[p] BY <2>1 DEF Coherence, Exclusion
  <2>5. etat'[cible[q]] = "active"
    BY <2>1, <2>2, <2>3, <2>4, PasANaitre
  <2>6. etat[compagnon] # "active" => etat'[compagnon] # "active"
    BY <2>2, <2>3, PasANaitre
  <2> QED BY <2>1, <2>5, <2>6
<1>5. ASSUME op[q] = "tourner", pc[q] \in {"acces_verrous", "emettre", "valider"}
      PROVE  \/ etat'[compagnon] # "active"
             \/ compagnon \in tient[q]
             \/ pc[q] = "acces_verrous" /\ compagnon \in reste[q]
  BY <1>2, <1>4, <1>5 DEF Prise
<1>6. op[q] = "echanger" /\ pc[q] \in {"emettre", "valider"} => cible[q] \in tient[q]
  BY <1>2 DEF Prise
<1> HIDE DEF compagnon
<1> QED BY <1>1, <1>3, <1>4, <1>5, <1>6 DEF Prise, compagnon

(* An answer leaves nothing to say of the request. *)
LEMMA PriseRendue ==
    ASSUME Formes, NEW p \in Requetes, Repondre(p)
    PROVE  Prise(p)'
BY DEF Repondre, Formes, TypeOK, Prise

(* The transaction of p at its own steps. *)
LEMMA PriseGardee ==
    ASSUME Formes, Coherence, NEW p \in Requetes, Etape(p) \/ Abandonner(p)
    PROVE  Prise(p)'
<1> DEFINE compagnon == <<"acces", cible[p][2]>>
<1> USE DEF tables, requete, transaction, Aller
<1>0. Prise(p) /\ Sorte(p) BY DEF Coherence, Formes
<1>1. CASE Repondre(p) BY <1>1, PriseRendue
<1>2. CASE \/ Noter(p) \/ CreerCode(p) \/ CreerDefi(p) \/ LireCode(p) \/ LireDefi(p)
           \/ EffacerDefi(p) \/ RelireCode(p) \/ Lire(p) \/ Chercher(p) \/ Abandonner(p)
           \/ Consommer(p) \/ Effacer(p)
  <2> SUFFICES ASSUME ~Repondre(p) PROVE Prise(p)'
    BY <1>1
  <2>1. neuve'[p] = Aucune
    BY <1>0, <1>2 DEF Sorte, Noter, CreerCode, CreerDefi, LireCode, LireDefi, EffacerDefi,
       RelireCode, Lire, Chercher, Abandonner, Consommer, Effacer
  <2>2. pc'[p] \in {"retirer"} \/ op'[p] # "tourner"
    BY <1>0, <1>2 DEF Sorte, Noter, CreerCode, CreerDefi, LireCode, LireDefi, EffacerDefi,
       RelireCode, Lire, Chercher, Abandonner, Consommer, Effacer, Formes, TypeOK
  <2>3. op'[p] = "echanger" /\ pc'[p] \in {"emettre", "valider"} => cible'[p] \in tient'[p]
    BY <1>0, <1>2 DEF Sorte, Noter, CreerCode, CreerDefi, LireCode, LireDefi, EffacerDefi,
       RelireCode, Lire, Chercher, Abandonner, Consommer, Effacer, Formes, TypeOK, Tenir
  <2> QED BY <2>1, <2>2, <2>3 DEF Prise
<1>3. CASE Retirer(p) /\ ~Repondre(p)
  BY <1>0, <1>3 DEF Retirer, Prise, Sorte, Tenir, Formes, TypeOK
<1>4. CASE Verrouiller(p)
  <2>1. PICK l \in reste[p] :
            /\ reste' = [reste EXCEPT ![p] = @ \ {l}]
            /\ IF l \in Presentes THEN Tenir(p, l) ELSE UNCHANGED tient
    BY <1>4 DEF Verrouiller
  <2>2. /\ tient[p] \subseteq tient'[p] /\ reste'[p] = reste[p] \ {l}
        /\ l \in Presentes => l \in tient'[p]
    BY <2>1 DEF Tenir, Formes, TypeOK
  <2>3. l \in Lignes BY <2>1, Rangees DEF Formes, TypeOK, Lignes
  <2>4. l \in Presentes \/ etat[l] # "active" BY <2>3 DEF Presentes
  <2>5. UNCHANGED <<etat, origine, op, cible, pc, neuve>> BY <1>4 DEF Verrouiller
  <2> QED BY <1>0, <2>2, <2>4, <2>5 DEF Prise
<1>5. CASE Balayer(p)
  <2>1. pc[p] \in {"rafraichir", "acces"} BY <1>5, DeuxNatures DEF Balayer
  <2>2. UNCHANGED <<etat, origine, famille, op, cible, tient, neuve>> BY <1>5 DEF Balayer
  <2>3. pc'[p] = Verrous[pc[p]] BY <1>5 DEF Balayer, Formes, TypeOK
  <2>4. CASE pc[p] = "rafraichir"
    BY <1>0, <2>2, <2>3, <2>4, DeuxNatures DEF Prise
  <2>5. CASE pc[p] = "acces"
    <3>1. ASSUME op[p] = "tourner", etat[compagnon] = "active", compagnon \notin tient[p]
          PROVE  compagnon \in reste'[p]
      <4>1. cible[p] = <<"rafraichir", cible[p][2]>> /\ cible[p][2] \in Paires /\ cible[p] \in TousJetons
        BY <1>0, <3>1, Rangees DEF Sorte
      <4>2. compagnon \in Lignes /\ compagnon \in TousJetons /\ compagnon[2] = cible[p][2]
        BY <4>1, Rangees DEF Lignes
      <4>3. compagnon \in JetonsDe({pc[p]}) BY <2>5, <4>1, Rangees
      <4>4. FamilleDe(compagnon) = FamilleDe(cible[p]) BY <4>1, <4>2 DEF FamilleDe
      <4>5. compagnon \in Presentes BY <3>1, <4>2 DEF Presentes
      <4> HIDE DEF compagnon
      <4> QED BY <1>5, <3>1, <4>3, <4>4, <4>5 DEF Balayer, Formes, TypeOK
    <3>2. pc'[p] = "acces_verrous" BY <2>3, <2>5, DeuxNatures
    <3> QED BY <1>0, <2>2, <2>5, <3>1, <3>2 DEF Prise
  <2> QED BY <2>1, <2>4, <2>5
<1>6. CASE Terminer(p) /\ ~Repondre(p)
  <2>1. UNCHANGED <<origine, op, cible, neuve>> BY <1>6 DEF Terminer
  <2>2. CASE op[p] = "tourner"
    <3>1. UNCHANGED <<etat, tient>> /\ reste[p] = {} BY <1>6, <2>2 DEF Terminer, EnTransaction
    <3>2. \/ pc'[p] = "acces"
          \/ pc[p] = "acces_verrous" /\ pc'[p] = "emettre"
      BY <1>6, <2>2 DEF Terminer, EnTransaction, Premiere, Seconde, Nature, Formes, TypeOK
    <3>3. pc[p] # "lire" /\ pc[p] # "retirer" /\ pc[p] # "valider" BY <1>6 DEF Terminer
    <3> QED BY <1>0, <2>1, <2>2, <3>1, <3>2, <3>3 DEF Prise, Sorte
  <2>3. CASE op[p] # "tourner"
    <3>1. ~(op[p] = "echanger")
      BY <1>0, <1>6 DEF Terminer, Sorte
    <3>2. neuve[p] = Aucune BY <1>0, <1>6 DEF Terminer, Sorte
    <3> QED BY <2>1, <2>3, <3>1, <3>2 DEF Prise
  <2> QED BY <2>2, <2>3
<1>7. CASE Emettre(p)
  <2>1. neuve'[p] \in Paires /\ Vierge(neuve'[p]) /\ pc'[p] = "valider"
    BY <1>7 DEF Emettre, Formes, TypeOK
  <2>2. origine'[neuve'[p]] = Aucune BY <1>7, <2>1 DEF Emettre, Vierge, Coherence, Naissance
  <2>3. UNCHANGED <<etat, op, cible, tient, reste>> /\ pc[p] = "emettre" BY <1>7 DEF Emettre
  <2> QED BY <1>0, <2>1, <2>2, <2>3 DEF Prise
<1>8. CASE Valider(p) BY <1>1, <1>8 DEF Valider
<1>9. CASE Echouer(p)
  <2>1. op'[p] \notin {"echanger", "tourner"} /\ neuve'[p] = Aucune
    BY <1>0, <1>9, Echec DEF Sorte
  <2> QED BY <2>1 DEF Prise
<1> QED BY <1>1, <1>2, <1>3, <1>4, <1>5, <1>6, <1>7, <1>8, <1>9 DEF Etape

(* The consent is recorded before the code, and never forgotten. *)
LEMMA NoteGardee ==
    ASSUME Formes, Coherence, NEW p \in Requetes, Etape(p) \/ Abandonner(p)
    PROVE  accords \subseteq accords' /\ \A q \in Requetes : Note(q)'
<1> USE DEF tables, requete, Aller
<1>1. accords \subseteq accords'
  BY DEF Etape, Abandonner, Echouer, Noter, CreerCode, CreerDefi, LireCode, LireDefi, EffacerDefi,
     RelireCode, Lire, Chercher, Consommer, Retirer, Effacer, Verrouiller, Balayer, Terminer,
     Emettre, Valider
<1>2. \A q \in Requetes \ {p} : Note(q)' BY <1>1, Cadre DEF Coherence, Note
<1>3. CASE Noter(p)
  <2>1. cible[p][2] \in Autorisations BY <1>3, Rangees DEF Noter, Formes, Sorte
  <2> QED BY <1>1, <1>2, <1>3, <2>1 DEF Noter, Note
<1>4. CASE CreerCode(p)
  <2>1. Note(p) /\ pc[p] = "creer_code" BY <1>4 DEF CreerCode, Coherence
  <2> QED BY <1>1, <1>2, <1>4, <2>1 DEF CreerCode, Note
<1>5. CASE Verrouiller(p)
  <2>1. Note(p) BY DEF Coherence
  <2> QED BY <1>1, <1>2, <1>5, <2>1 DEF Verrouiller, Note
<1>6. CASE ~Noter(p) /\ ~CreerCode(p) /\ ~Verrouiller(p)
  <2>1. pc'[p] \notin {"creer_code", "creer_defi"}
    <3>1. CASE Repondre(p) BY <3>1 DEF Repondre, Formes, TypeOK
    <3>2. CASE Balayer(p)
      BY <3>2, DeuxNatures DEF Balayer, Formes, TypeOK
    <3>3. CASE Terminer(p) /\ ~Repondre(p)
      BY <3>3 DEF Terminer, Seconde, Formes, TypeOK
    <3>4. CASE ~Repondre(p) /\ ~Balayer(p) /\ ~Terminer(p) /\ ~Echouer(p)
      BY <1>6, <3>4 DEF Etape, Abandonner, CreerDefi, LireCode, LireDefi, EffacerDefi,
         RelireCode, Lire, Chercher, Consommer, Retirer, Effacer, Emettre, Valider, Formes, TypeOK
    <3>5. CASE Echouer(p) BY <3>5, Echec DEF Formes, TypeOK
    <3> QED BY <3>1, <3>2, <3>3, <3>4, <3>5
  <2> QED BY <1>1, <1>2, <2>1 DEF Note
<1> QED BY <1>3, <1>4, <1>5, <1>6

(* What a request holds is covered by a consent, and so is what it makes. *)
LEMMA ConsentiGarde ==
    ASSUME Formes, Coherence, NEW p \in Requetes, Etape(p) \/ Abandonner(p)
    PROVE  Consenti'
<1> DEFINE couvert(a) == a \in Autorisations /\ Couple[a] \in accords
<1>1. \A a \in Autorisations : couvert(a) => Couple[a] \in accords' BY NoteGardee
<1>2. \A l \in Presentes : couvert(FamilleDe(l)) BY DEF Coherence, Consenti
<1> SUFFICES ASSUME NEW l \in Presentes'
             PROVE  FamilleDe(l)' \in Autorisations /\ Couple[FamilleDe(l)'] \in accords'
  BY DEF Consenti
<1>3. l \in Lignes /\ etat'[l] \in {"active", "inactive"} BY DEF Presentes
<1>4. CASE l \in TousJetons
  <2>1. l[2] \in Paires /\ l \in {<<"acces", l[2]>>, <<"rafraichir", l[2]>>} BY <1>4, Rangees
  <2>2. FamilleDe(l) = famille[l[2]] /\ FamilleDe(l)' = famille'[l[2]] BY <1>4 DEF FamilleDe
  <2>3. CASE origine'[l[2]] = origine[l[2]] /\ famille'[l[2]] = famille[l[2]]
    <3>1. origine[l[2]] # Aucune BY <1>3, <2>1, <2>3, NaissanceGardee DEF Naissance
    <3>2. l \in Presentes
      BY <1>3, <2>1, <3>1, PasANaitre DEF Presentes, Coherence, Tenues
    <3> QED BY <1>1, <1>2, <2>2, <2>3, <3>2
  <2>4. CASE Valider(p) /\ l[2] = neuve[p] /\ famille'[l[2]] = FamilleDe(cible[p])
    <3>1. neuve[p] # Aucune BY <2>1, <2>4, JetonsAssumption
    <3>2. cible[p] \in tient[p]
      BY <2>4, <3>1 DEF Formes, Sorte, Coherence, Prise, Valider
    <3>3. cible[p] \in Presentes BY <3>2 DEF Coherence, Tenues
    <3> QED BY <1>1, <1>2, <2>2, <2>4, <3>3
  <2> QED BY <2>1, <2>3, <2>4, Origines
<1>5. CASE l \notin TousJetons
  <2>1. l # Aucune /\ l \in Codes \cup Defis BY <1>3, <1>5, JetonsAssumption DEF Lignes
  <2>2. FamilleDe(l) = l[2] /\ FamilleDe(l)' = l[2] BY <1>5, <2>1 DEF FamilleDe
  <2>3. l \in Presentes => couvert(l[2]) BY <1>2, <2>2
  <2>4. l \in Presentes \/ couvert(l[2])
    <3>1. CASE l \in Codes
      <4>1. l \notin Defis BY <3>1, Rangees
      <4>2. CASE etat'[l] = etat[l] BY <1>3, <4>2 DEF Presentes
      <4>3. CASE l \in tient[p] BY <4>3 DEF Coherence, Tenues
      <4>4. CASE l = cible[p] /\ pc[p] = "creer_code" BY <4>4 DEF Coherence, Note
      <4> QED BY <1>3, <1>5, <4>1, <4>2, <4>3, <4>4, Ecriture DEF Ecrit
    <3>2. CASE l \in Defis
      <4>1. CASE CreerDefi(p)
        <5>1. Note(p) /\ pc[p] = "creer_defi" BY <4>1 DEF Coherence, CreerDefi
        <5>2. CASE l = <<"defi", cible[p][2]>> BY <5>1, <5>2 DEF Note
        <5>3. CASE l # <<"defi", cible[p][2]>>
          BY <1>3, <4>1, <5>3 DEF CreerDefi, Poser, Presentes, Formes, TypeOK
        <5> QED BY <5>2, <5>3
      <4>2. CASE EffacerDefi(p)
        BY <1>3, <4>2 DEF EffacerDefi, Presentes, Formes, TypeOK
      <4>3. CASE CreerCode(p)
        <5>1. cible[p] \in Codes BY <4>3 DEF CreerCode, Formes, Sorte
        <5>2. l # cible[p] BY <3>2, <5>1, Rangees
        <5> QED BY <1>3, <4>3, <5>2 DEF CreerCode, Poser, Presentes, Formes, TypeOK
      <4>4. CASE Terminer(p) \/ Valider(p)
        <5>1. l \notin tient[p] BY <3>2, Rangees DEF Formes, TypeOK
        <5>2. etat'[l] = etat[l]
          BY <1>3, <1>5, <4>4, <5>1 DEF Terminer, tables, Desactiver, Valider, Valide
        <5> QED BY <1>3, <5>2 DEF Presentes
      <4>5. CASE UNCHANGED etat BY <1>3, <4>5 DEF Presentes
      <4> QED
        BY <4>1, <4>2, <4>3, <4>4, <4>5 DEF tables, Etape, Abandonner, Echouer, Noter, LireCode, LireDefi,
           RelireCode, Lire, Chercher, Consommer, Retirer, Effacer, Verrouiller, Balayer, Emettre
    <3> QED BY <2>1, <3>1, <3>2
  <2> QED BY <1>1, <2>2, <2>3, <2>4
<1> QED BY <1>4, <1>5

-----------------------------------------------------------------------------
(* The steps of nobody: a request comes in, and the purge. *)

LEMMA CoherenceRecevoir ==
    ASSUME Formes, Coherence, NEW p \in Requetes, NEW o, NEW l, NEW pas, Recevoir(p, o, l, pas),
           pas \in {"noter", "lire_code", "lire", "chercher"}, o = "tourner" => pas = "lire"
    PROVE  Coherence'
<1>1. UNCHANGED <<accords, etat, famille, origine, tient, reste, neuve>> /\ neuve[p] = Aucune
  BY DEF Recevoir, tables, transaction, Formes, Sorte
<1>2. /\ op' = [op EXCEPT ![p] = o] /\ cible' = [cible EXCEPT ![p] = l]
      /\ pc' = [pc EXCEPT ![p] = pas]
  BY DEF Recevoir
<1>3. \A q \in Requetes : (Prise(q) /\ Note(q))'
  <2>1. \A q \in Requetes \ {p} : op'[q] = op[q] /\ cible'[q] = cible[q] /\ pc'[q] = pc[q]
    BY <1>2 DEF Formes, TypeOK
  <2>2. \A q \in Requetes \ {p} : (Prise(q) /\ Note(q))'
    BY <1>1, <2>1 DEF Coherence, Prise, Note
  <2>3. op'[p] = o /\ pc'[p] = pas BY <1>2 DEF Formes, TypeOK
  <2>4. (Prise(p) /\ Note(p))' BY <1>1, <2>3 DEF Prise, Note
  <2> QED BY <2>2, <2>4
<1>4. (/\ Exclusion /\ Tenues /\ Naissance /\ Remplaces /\ UnSuccesseur /\ Consenti)'
  BY <1>1 DEF Coherence, Exclusion, Tenues, Presentes, Naissance, Remplaces, Epuise,
     UnSuccesseur, Consenti, FamilleDe
<1> QED BY <1>3, <1>4 DEF Coherence

LEMMA CoherenceArriver ==
    ASSUME Formes, Coherence, NEW p \in Requetes, Arriver(p)
    PROVE  Coherence'
<1>1. CASE RecevoirDecision(p) BY <1>1, CoherenceRecevoir DEF RecevoirDecision
<1>2. CASE RecevoirCode(p) BY <1>2, CoherenceRecevoir DEF RecevoirCode
<1>3. CASE RecevoirJeton(p) BY <1>3, CoherenceRecevoir DEF RecevoirJeton
<1>4. CASE RecevoirRevocation(p) BY <1>4, CoherenceRecevoir DEF RecevoirRevocation
<1> QED BY <1>1, <1>2, <1>3, <1>4 DEF Arriver

(* The purge takes rows that nobody holds, and takes them for good. *)
LEMMA CoherencePurger ==
    ASSUME Formes, Coherence, Purger
    PROVE  Coherence'
<1>1. PICK perimes :
          /\ perimes \subseteq Presentes
          /\ \A r \in Requetes : tient[r] \cap perimes = {}
          /\ etat' = [l \in Lignes |-> IF l \in perimes THEN "effacee" ELSE etat[l]]
  BY DEF Purger
<1>2. UNCHANGED <<accords, famille, origine, op, cible, pc, tient, reste, neuve>>
  BY DEF Purger, requete, transaction
<1>3. \A l \in Lignes : \/ etat'[l] = etat[l] /\ l \notin perimes
                        \/ etat[l] \in {"active", "inactive"} /\ etat'[l] = "effacee" /\ l \in perimes
  BY <1>1 DEF Presentes
<1>4. Exclusion' BY <1>2 DEF Coherence, Exclusion
<1>5. Tenues' BY <1>1, <1>2, <1>3 DEF Coherence, Tenues, Presentes
<1>6. \A n \in Paires : <<"acces", n>> \in Lignes /\ <<"rafraichir", n>> \in Lignes
  BY Rangees DEF Lignes
<1>7. Naissance' BY <1>2, <1>3, <1>6 DEF Coherence, Naissance
<1>8. Remplaces'
  <2>1. ASSUME NEW m \in Paires, Epuise(m) PROVE Epuise(m)' BY <1>3, <1>6, <2>1 DEF Epuise
  <2> QED BY <1>2, <2>1 DEF Coherence, Remplaces
<1>9. UnSuccesseur' BY <1>2 DEF Coherence, UnSuccesseur
<1>10. Consenti' BY <1>2, <1>3 DEF Coherence, Consenti, Presentes, FamilleDe
<1>11. ASSUME NEW q \in Requetes PROVE (Prise(q) /\ Note(q))'
  <2> DEFINE compagnon == <<"acces", cible[q][2]>>
  <2>1. Prise(q) /\ Note(q) BY DEF Coherence
  <2>2. \A l \in tient[q] : l \in Lignes => etat'[l] = etat[l] BY <1>1, <1>3
  <2>3. tient[q] \subseteq Lignes BY DEF Formes, TypeOK, Lignes
  <2>4. ASSUME op[q] = "tourner", etat[compagnon] # "active" PROVE etat'[compagnon] # "active"
    <3>1. compagnon \in Lignes BY <1>6, <2>4, Rangees DEF Formes, Sorte
    <3> QED BY <1>3, <2>4, <3>1
  <2> HIDE DEF compagnon
  <2> QED BY <1>2, <2>1, <2>2, <2>3, <2>4 DEF Prise, Note, compagnon
<1> QED BY <1>4, <1>5, <1>7, <1>8, <1>9, <1>10, <1>11 DEF Coherence

LEMMA CoherenceSuivante ==
    ASSUME Formes, Coherence, [Next]_vars
    PROVE  Coherence'
<1>1. ASSUME NEW p \in Requetes, Etape(p) \/ Abandonner(p) PROVE Coherence'
  <2>1. \A q \in Requetes : Prise(q)' BY <1>1, PriseGardee, PrisesDesAutres
  <2>2. \A q \in Requetes : Note(q)' BY <1>1, NoteGardee
  <2>3. Exclusion' /\ Tenues' BY <1>1, ExclusionGardee
  <2>4. Naissance' BY <1>1, NaissanceGardee
  <2>5. Remplaces' /\ UnSuccesseur' BY <1>1, RemplacesGardes
  <2>6. Consenti' BY <1>1, ConsentiGarde
  <2> QED BY <2>1, <2>2, <2>3, <2>4, <2>5, <2>6 DEF Coherence
<1>2. CASE UNCHANGED vars
  BY <1>2 DEF vars, tables, transaction, Coherence, Exclusion, Tenues, Presentes, Naissance,
     Remplaces, Epuise, UnSuccesseur, Consenti, FamilleDe, Prise, Note
<1> QED BY <1>1, <1>2, CoherenceArriver, CoherencePurger DEF Next, Repos, Arriver

LEMMA Commencement ==
    ASSUME Init
    PROVE  Formes /\ Coherence
<1>1. \A l \in Lignes : etat[l] = "jamais" BY DEF Init
<1>2. Formes BY DEF Init, Formes, TypeOK, Sorte, Operations, Pas
<1>3. Presentes = {} BY <1>1 DEF Presentes
<1>4. Naissance BY <1>1, Rangees DEF Init, Naissance, Lignes
<1>5. \A n \in Paires : origine[n] = Aucune BY DEF Init
<1>6. Remplaces
  <2>1. \A m \in Paires : <<"rafraichir", m>> # Aucune
    BY Rangees, JetonsAssumption DEF Lignes
  <2> QED BY <1>5, <2>1 DEF Remplaces
<1>7. UnSuccesseur
  <2>1. Aucune \notin JetonsDe({"rafraichir"}) BY Rangees, JetonsAssumption DEF Lignes
  <2> QED BY <1>5, <2>1 DEF UnSuccesseur
<1>8. Exclusion /\ Tenues BY DEF Init, Exclusion, Tenues
<1>9. Consenti BY <1>3 DEF Consenti
<1>10. \A p \in Requetes : Prise(p) /\ Note(p) BY DEF Init, Prise, Note
<1> QED BY <1>2, <1>4, <1>6, <1>7, <1>8, <1>9, <1>10 DEF Coherence

-----------------------------------------------------------------------------
(* The families: what a request may change is of the family it presents,   *)
(* and a family that is brought down by a request alone stays down.        *)

(* A request works in the family of what it presents, and a transaction    *)
(* that exchanges or rotates has inserted its pair when it commits.        *)
Filiation(p) ==
    /\ pc[p] = "attente" => tient[p] = {} /\ reste[p] = {}
    /\ cible[p] \in TousJetons => origine[cible[p][2]] # Aucune
    /\ \A l \in tient[p] : FamilleDe(l) = FamilleDe(cible[p])
    /\ \A l \in reste[p] : origine[l[2]] # Aucune /\ FamilleDe(l) = FamilleDe(cible[p])
    /\ pc[p] = "valider" =>
          /\ op[p] \in {"echanger", "tourner", "rejouer_jeton"}
          /\ op[p] # "rejouer_jeton" => neuve[p] # Aucune

(* The tokens of a family come from its code, which is used.               *)
CodesUses ==
    \A n \in Paires :
        /\ origine[n] = Aucune => famille[n] = Aucune
        /\ origine[n] # Aucune =>
              famille[n] \in Autorisations /\ etat[<<"code", famille[n]>>] \in {"inactive", "effacee"}

(* Alone on its family: by the history, or because nobody has the code.    *)
Seuls ==
    \A p, q \in Requetes :
        p # q /\ pc[p] # "attente" /\ (seul[p] \/ op[p] = "autoriser") =>
            ~EnCours(q, FamilleDe(cible[p]))

(* The family of a decision under way is empty. *)
Nouvelle(p) ==
    op[p] = "autoriser" =>
        /\ etat[<<"defi", cible[p][2]>>] = "jamais"
        /\ \A n \in Paires : famille[n] # cible[p][2]
        /\ pc[p] \in {"noter", "creer_code"} => etat[cible[p]] = "jamais"

(* A code that was replayed is used. *)
Rejoue(p) == op[p] = "rejouer_code" => etat[cible[p]] \in {"inactive", "effacee"}

(* A challenge follows its code, and a request that exchanges has one.     *)
Defies ==
    \A a \in Autorisations :
        etat[<<"code", a>>] = "jamais" => etat[<<"defi", a>>] = "jamais"

Connu(p) ==
    op[p] \in {"echanger", "rejouer_code"} \/ pc[p] = "creer_defi" => etat[cible[p]] # "jamais"

(* The tokens of one kind in the family are inactive, held or listed.      *)
Couvert(p, nature, lignes) ==
    \A l \in JetonsDe({nature}) :
        FamilleDe(l) = FamilleDe(cible[p]) => etat[l] # "active" \/ l \in tient[p] \cup lignes

Balaye(p) ==
    seul[p] =>
        /\ pc[p] = "rafraichir_verrous" => Couvert(p, "rafraichir", reste[p])
        /\ pc[p] = "acces_verrous" => Couvert(p, "acces", reste[p])
        /\ op[p] = "rejouer_code" /\ pc[p] \in {"rafraichir", "rafraichir_verrous"} =>
              Couvert(p, "acces", {})
        /\ op[p] # "rejouer_code" /\ pc[p] \in {"acces", "acces_verrous"} =>
              Couvert(p, "rafraichir", {})
        /\ op[p] = "rejouer_jeton" /\ pc[p] = "valider" =>
              Couvert(p, "rafraichir", {}) /\ Couvert(p, "acces", {})

(* A family that is down has no use left: its code, its tokens, and the    *)
(* requests that present them cannot issue anything.                       *)
Eteinte(a) ==
    /\ etat[<<"code", a>>] \in {"inactive", "effacee"}
    /\ \A l \in TousJetons : FamilleDe(l) = a => etat[l] # "active"
    /\ \A q \in Requetes :
          EnCours(q, a) => \/ op[q] \in {"revoquer", "rejouer_code", "rejouer_jeton"}
                          \/ pc[q] \in {"lire_code", "lire"}

Descendance ==
    /\ CodesUses /\ Seuls /\ Defies
    /\ \A p \in Requetes :
          Filiation(p) /\ Nouvelle(p) /\ Rejoue(p) /\ Connu(p) /\ Balaye(p)
    /\ \A a \in Autorisations : a \in chutes => Eteinte(a)

Ensemble == Formes /\ Coherence /\ Descendance

(* A row that exists keeps its family. *)
LEMMA FamilleFixe ==
    ASSUME Ensemble, NEW p \in Requetes, Etape(p) \/ Abandonner(p),
           NEW l, l \in TousJetons => origine[l[2]] # Aucune
    PROVE  FamilleDe(l)' = FamilleDe(l) /\ (l \in TousJetons => origine'[l[2]] # Aucune)
<1>1. CASE l \in TousJetons
  <2>1. l[2] \in Paires BY <1>1, Rangees
  <2>2. neuve[p] # l[2]
    <3>1. Prise(p) /\ origine[l[2]] # Aucune /\ l[2] # Aucune
      BY <1>1, <2>1, JetonsAssumption DEF Ensemble, Coherence
    <3> QED BY <3>1 DEF Prise
  <2>3. origine'[l[2]] = origine[l[2]] /\ famille'[l[2]] = famille[l[2]]
    BY <2>1, <2>2, Origines DEF Ensemble
  <2> QED BY <1>1, <2>3 DEF FamilleDe
<1>2. CASE l \notin TousJetons BY <1>2 DEF FamilleDe
<1> QED BY <1>1, <1>2

(* What every request presents keeps its family while it is served.        *)
LEMMA CiblesFixes ==
    ASSUME Ensemble, NEW p \in Requetes, Etape(p) \/ Abandonner(p), NEW q \in Requetes
    PROVE  cible'[q] = cible[q] => FamilleDe(cible[q])' = FamilleDe(cible[q])
<1>1. cible[q] \in TousJetons => origine[cible[q][2]] # Aucune
  BY DEF Ensemble, Descendance, Filiation
<1>2. \A l : l = cible[q] => FamilleDe(l)' = FamilleDe(l) BY <1>1, FamilleFixe
<1> QED BY <1>2

(* A request goes on with what it presents, or answers. *)
LEMMA Poursuite ==
    ASSUME Ensemble, NEW p \in Requetes, Etape(p) \/ Abandonner(p)
    PROVE  /\ pc[p] # "attente"
           /\ \/ Repondre(p)
              \/ /\ UNCHANGED cible /\ (seul'[p] => seul[p])
                 /\ op' = op \/ op' = [op EXCEPT ![p] = "rejouer_code"]
                             \/ op' = [op EXCEPT ![p] = "rejouer_jeton"]
           /\ \A q \in Requetes \ {p} : seul'[q] = seul[q]
<1> USE DEF tables, requete, transaction
<1>1. pc[p] # "attente"
  <2>1. reste[p] # {} => pc[p] # "attente" BY DEF Ensemble, Descendance, Filiation
  <2> QED BY <2>1, DeuxNatures DEF Etape, Abandonner, Echouer, Noter, CreerCode, CreerDefi,
     LireCode, LireDefi, EffacerDefi, RelireCode, Lire, Chercher, Consommer, Retirer, Effacer, Verrouiller, Balayer,
     Terminer, Emettre, Valider
<1>2. \/ Repondre(p)
      \/ /\ UNCHANGED cible
         /\ seul' = seul \/ seul' = [seul EXCEPT ![p] = FALSE]
         /\ op' = op \/ op' = [op EXCEPT ![p] = "rejouer_code"]
                     \/ op' = [op EXCEPT ![p] = "rejouer_jeton"]
  BY DEF Etape, Abandonner, Echouer, Noter, CreerCode, CreerDefi, LireCode, LireDefi, EffacerDefi,
     RelireCode, Lire, Chercher, Consommer, Retirer, Effacer, Verrouiller, Balayer, Terminer,
     Emettre, Valider
<1>3. \A q \in Requetes \ {p} : seul'[q] = seul[q]
  BY <1>2 DEF Repondre, Ensemble, Formes, TypeOK
<1>4. \/ Repondre(p)
      \/ seul'[p] => seul[p]
  BY <1>2 DEF Ensemble, Formes, TypeOK
<1> QED BY <1>1, <1>2, <1>3, <1>4

(* A token that is there has an origin. *)
LEMMA PresentesNees ==
    ASSUME Ensemble, NEW l \in TousJetons, etat[l] # "jamais"
    PROVE  l[2] \in Paires /\ origine[l[2]] # Aucune
<1>1. l[2] \in Paires /\ l \in {<<"acces", l[2]>>, <<"rafraichir", l[2]>>} BY Rangees
<1>2. \A n \in Paires : \A k \in {<<"acces", n>>, <<"rafraichir", n>>} :
        (etat[k] = "jamais") <=> (origine[n] = Aucune)
  BY DEF Ensemble, Coherence, Naissance
<1> QED BY <1>1, <1>2

(* What is held keeps its family. *)
LEMMA TenuesFixes ==
    ASSUME Ensemble, NEW p \in Requetes, Etape(p) \/ Abandonner(p), NEW l \in Presentes
    PROVE  FamilleDe(l)' = FamilleDe(l)
BY PresentesNees, FamilleFixe DEF Presentes

LEMMA FiliationDesAutres ==
    ASSUME Ensemble, NEW p \in Requetes, Etape(p) \/ Abandonner(p), NEW q \in Requetes \ {p}
    PROVE  Filiation(q)'
<1>1. /\ op'[q] = op[q] /\ cible'[q] = cible[q] /\ pc'[q] = pc[q]
      /\ tient'[q] = tient[q] /\ reste'[q] = reste[q] /\ neuve'[q] = neuve[q]
  BY Cadre DEF Ensemble
<1>2. Filiation(q) BY DEF Ensemble, Descendance
<1>3. FamilleDe(cible[q])' = FamilleDe(cible[q]) BY <1>1, CiblesFixes
<1>4. \A l : l = cible[q] => (l \in TousJetons => origine'[l[2]] # Aucune)
  BY <1>2, FamilleFixe DEF Filiation
<1>5. \A l \in tient[q] : FamilleDe(l)' = FamilleDe(l)
  BY TenuesFixes DEF Ensemble, Coherence, Tenues
<1>6. \A l \in reste[q] : FamilleDe(l)' = FamilleDe(l) /\ origine'[l[2]] # Aucune
  BY <1>2, FamilleFixe DEF Filiation, Ensemble, Formes, TypeOK
<1> QED BY <1>1, <1>2, <1>3, <1>4, <1>5, <1>6 DEF Filiation

LEMMA FiliationGardee ==
    ASSUME Ensemble, NEW p \in Requetes, Etape(p) \/ Abandonner(p)
    PROVE  Filiation(p)'
<1> USE DEF tables, requete, transaction, Aller
<1>0. Filiation(p) /\ Formes /\ Sorte(p) BY DEF Ensemble, Descendance, Formes
<1>1. CASE Repondre(p)
  BY <1>0, <1>1, JetonsAssumption, Rangees DEF Repondre, Formes, TypeOK, Filiation, Lignes
<1>2. CASE ~Repondre(p)
  <2>1. cible'[p] = cible[p] /\ FamilleDe(cible[p])' = FamilleDe(cible[p])
    BY <1>2, Poursuite, CiblesFixes
  <2>2. \A l : l = cible[p] => (l \in TousJetons => origine'[l[2]] # Aucune)
    BY <1>0, FamilleFixe DEF Filiation
  <2>3. pc'[p] # "attente"
    <3>1. CASE Verrouiller(p) BY <3>1, Poursuite DEF Verrouiller
    <3>2. CASE Balayer(p) BY <1>0, <3>2, DeuxNatures DEF Balayer, Formes, TypeOK
    <3>3. CASE Terminer(p) BY <1>0, <1>2, <3>3 DEF Terminer, Seconde, Formes, TypeOK
    <3>4. CASE ~Verrouiller(p) /\ ~Balayer(p) /\ ~Terminer(p) /\ ~Echouer(p)
      BY <1>0, <1>2, <3>4 DEF Formes, TypeOK, Etape, Abandonner, Noter, CreerCode, CreerDefi,
         LireCode, LireDefi, EffacerDefi, RelireCode, Lire, Chercher, Consommer, Retirer, Effacer,
         Emettre, Valider
    <3>5. CASE Echouer(p) BY <1>0, <3>5, Echec DEF Formes, TypeOK
    <3> QED BY <3>1, <3>2, <3>3, <3>4, <3>5
  <2>4. ASSUME NEW l \in tient'[p] PROVE FamilleDe(l)' = FamilleDe(cible[p])
    <3>1. l \in tient[p] \/ l = cible[p] \/ l \in reste[p]
      BY <1>0, <1>2, <2>4 DEF Etape, Abandonner, Echouer, Noter, CreerCode, CreerDefi, LireCode, LireDefi,
         EffacerDefi, RelireCode, Lire, Chercher, Consommer, Retirer, Effacer, Verrouiller,
         Balayer, Terminer, Emettre, Valider, Tenir, Formes, TypeOK
    <3>2. CASE l \in tient[p]
      <4>1. l \in Presentes BY <3>2 DEF Ensemble, Coherence, Tenues
      <4> QED BY <1>0, <3>2, <4>1, TenuesFixes DEF Filiation
    <3>3. CASE l = cible[p] BY <2>1, <3>3
    <3>4. CASE l \in reste[p]
      <4>1. origine[l[2]] # Aucune /\ FamilleDe(l) = FamilleDe(cible[p])
        BY <1>0, <3>4 DEF Filiation
      <4> QED BY <4>1, FamilleFixe
    <3> QED BY <3>1, <3>2, <3>3, <3>4
  <2>5. ASSUME NEW l \in reste'[p]
        PROVE  origine'[l[2]] # Aucune /\ FamilleDe(l)' = FamilleDe(cible[p])
    <3>1. l \in TousJetons
      <4>1. Formes' BY FormesEtape DEF Ensemble
      <4> QED BY <2>5, <4>1 DEF Formes, TypeOK
    <3>2. CASE l \in reste[p]
      <4>1. origine[l[2]] # Aucune /\ FamilleDe(l) = FamilleDe(cible[p])
        BY <1>0, <3>2 DEF Filiation
      <4> QED BY <3>1, <4>1, FamilleFixe
    <3>3. CASE l \notin reste[p]
      <4>1. Balayer(p)
        BY <1>0, <1>2, <2>5, <3>3 DEF Etape, Abandonner, Echouer, Noter, CreerCode, CreerDefi, LireCode,
           LireDefi, EffacerDefi, RelireCode, Lire, Chercher, Consommer, Retirer, Effacer,
           Verrouiller, Terminer, Emettre, Valider, Formes, TypeOK
      <4>2. l \in Presentes /\ FamilleDe(l) = FamilleDe(cible[p])
        BY <1>0, <2>5, <4>1 DEF Balayer, Formes, TypeOK
      <4>3. origine[l[2]] # Aucune BY <3>1, <4>2, PresentesNees DEF Presentes
      <4> QED BY <3>1, <4>2, <4>3, FamilleFixe
    <3> QED BY <3>2, <3>3
  <2>6. pc'[p] = "valider" =>
          /\ op'[p] \in {"echanger", "tourner", "rejouer_jeton"}
          /\ op'[p] # "rejouer_jeton" => neuve'[p] # Aucune
    <3>1. CASE Terminer(p)
      <4>1. EnTransaction(p) => op[p] \in {"tourner", "rejouer_jeton"}
        BY <1>0, <3>1 DEF Terminer, EnTransaction, Sorte
      <4> QED BY <1>0, <1>2, <3>1, <4>1 DEF Terminer, EnTransaction, Seconde, Formes, TypeOK
    <3>2. CASE Emettre(p)
      BY <1>0, <3>2, JetonsAssumption DEF Emettre, Sorte, Formes, TypeOK
    <3>3. CASE Verrouiller(p)
      BY <1>0, <3>3 DEF Verrouiller, Filiation
    <3>4. CASE ~Terminer(p) /\ ~Emettre(p) /\ ~Verrouiller(p) /\ ~Echouer(p)
      <4>1. pc'[p] # "valider"
        BY <1>0, <1>2, <3>4, DeuxNatures DEF Etape, Abandonner, Noter, CreerCode, CreerDefi,
           LireCode, LireDefi, EffacerDefi, RelireCode, Lire, Chercher, Consommer, Retirer,
           Effacer, Balayer, Valider, Formes, TypeOK
      <4> QED BY <4>1
    <3>5. CASE Echouer(p)
      <4>1. pc'[p] # "valider" BY <1>0, <3>5, Echec DEF Formes, TypeOK
      <4> QED BY <4>1
    <3> QED BY <3>1, <3>2, <3>3, <3>4, <3>5
  <2> QED BY <2>1, <2>2, <2>3, <2>4, <2>5, <2>6 DEF Filiation
<1> QED BY <1>1, <1>2

(* Who is still served after a step was before it, for the same thing. *)
LEMMA Restent ==
    ASSUME Ensemble, NEW p \in Requetes, Etape(p) \/ Abandonner(p), NEW q \in Requetes,
           pc'[q] # "attente"
    PROVE  /\ pc[q] # "attente" /\ cible'[q] = cible[q] /\ (seul'[q] => seul[q])
           /\ op'[q] = op[q] \/ op'[q] \in {"rejouer_code", "rejouer_jeton"}
           /\ FamilleDe(cible[q])' = FamilleDe(cible[q])
<1>1. CASE q # p
  BY <1>1, Cadre, Poursuite, CiblesFixes DEF Ensemble
<1>2. CASE q = p
  <2>1. ~Repondre(p) BY <1>2 DEF Repondre, Ensemble, Formes, TypeOK
  <2> QED BY <1>2, <2>1, Poursuite, CiblesFixes DEF Ensemble, Formes, TypeOK
<1> QED BY <1>1, <1>2

LEMMA SeulsGardes ==
    ASSUME Ensemble, NEW p \in Requetes, Etape(p) \/ Abandonner(p)
    PROVE  Seuls'
<1> SUFFICES ASSUME NEW r \in Requetes, NEW q \in Requetes, r # q, pc'[r] # "attente",
                    seul'[r] \/ op'[r] = "autoriser",
                    pc'[q] # "attente", FamilleDe(cible[q])' = FamilleDe(cible[r])'
             PROVE  FALSE
  BY DEF Seuls, EnCours
<1>1. /\ pc[r] # "attente" /\ FamilleDe(cible[r])' = FamilleDe(cible[r])
      /\ seul[r] \/ op[r] = "autoriser"
  BY Restent
<1>2. pc[q] # "attente" /\ FamilleDe(cible[q])' = FamilleDe(cible[q])
  BY Restent
<1> QED BY <1>1, <1>2 DEF Ensemble, Descendance, Seuls, EnCours

(* A code that is used stays so; nobody else works on the family of a      *)
(* decision.                                                               *)
LEMMA CodeUse ==
    ASSUME Ensemble, NEW p \in Requetes, Etape(p) \/ Abandonner(p),
           NEW c \in Codes, etat[c] \in {"inactive", "effacee"}
    PROVE  etat'[c] \in {"inactive", "effacee"}
<1>1. c \in Lignes /\ c \notin TousJetons /\ c \notin Defis BY Rangees DEF Lignes
<1>2. Nouvelle(p) /\ Sorte(p) BY DEF Ensemble, Descendance, Formes
<1>3. ~(c = cible[p] /\ pc[p] = "creer_code") BY <1>2 DEF Nouvelle, Sorte
<1> QED BY <1>1, <1>3, Ecriture DEF Ecrit, Ensemble

LEMMA RejoueGarde ==
    ASSUME Ensemble, NEW p \in Requetes, Etape(p) \/ Abandonner(p), NEW q \in Requetes
    PROVE  Rejoue(q)'
<1> SUFFICES ASSUME op'[q] = "rejouer_code" PROVE etat'[cible'[q]] \in {"inactive", "effacee"}
  BY DEF Rejoue
<1>1. pc'[q] # "attente"
  <2>1. Formes' BY FormesEtape DEF Ensemble
  <2> QED BY <2>1 DEF Formes, Sorte
<1>2. cible'[q] = cible[q] /\ (op'[q] = op[q] \/ op[q] # "rejouer_code") BY <1>1, Restent
<1>3. CASE op[q] = "rejouer_code"
  <2>1. etat[cible[q]] \in {"inactive", "effacee"} /\ cible[q] \in Codes
    BY <1>3 DEF Ensemble, Descendance, Rejoue, Formes, Sorte
  <2> QED BY <1>2, <2>1, CodeUse
<1>4. CASE op[q] # "rejouer_code"
  <2>1. q = p BY <1>4, Cadre DEF Ensemble
  <2>2. LireCode(p) /\ etat[cible[p]] = "inactive"
    BY <1>4, <2>1 DEF Etape, Abandonner, Echouer, Noter, CreerCode, CreerDefi, LireCode, LireDefi,
       EffacerDefi, RelireCode, Lire, Chercher, Consommer, Retirer, Effacer, Verrouiller, Balayer,
       Terminer, Emettre, Valider, Repondre, requete, Ensemble, Formes, TypeOK
  <2> QED BY <1>2, <2>1, <2>2 DEF LireCode, tables
<1> QED BY <1>3, <1>4

LEMMA CodesUsesGardes ==
    ASSUME Ensemble, NEW p \in Requetes, Etape(p) \/ Abandonner(p)
    PROVE  CodesUses'
<1> SUFFICES ASSUME NEW n \in Paires
             PROVE  /\ origine'[n] = Aucune => famille'[n] = Aucune
                    /\ origine'[n] # Aucune =>
                          /\ famille'[n] \in Autorisations
                          /\ etat'[<<"code", famille'[n]>>] \in {"inactive", "effacee"}
  BY DEF CodesUses
<1>1. ASSUME NEW m \in Paires, origine[m] # Aucune
      PROVE  /\ famille[m] \in Autorisations
             /\ etat'[<<"code", famille[m]>>] \in {"inactive", "effacee"}
  <2>1. /\ famille[m] \in Autorisations
        /\ etat[<<"code", famille[m]>>] \in {"inactive", "effacee"}
    BY <1>1 DEF Ensemble, Descendance, CodesUses
  <2> QED BY <2>1, CodeUse, Rangees
<1>2. CASE origine'[n] = origine[n] /\ famille'[n] = famille[n]
  BY <1>1, <1>2 DEF Ensemble, Descendance, CodesUses
<1>3. CASE /\ Valider(p) /\ n = neuve[p] /\ origine'[n] = cible[p]
           /\ famille'[n] = FamilleDe(cible[p]) /\ cible[p] \in Lignes
  <2>1. op[p] \in {"echanger", "tourner"} /\ pc[p] = "valider" /\ cible[p] # Aucune
    BY <1>3, JetonsAssumption DEF Ensemble, Formes, Sorte
  <2>2. CASE op[p] = "tourner"
    <3>1. cible[p] \in TousJetons /\ cible[p][2] \in Paires /\ origine[cible[p][2]] # Aucune
      BY <2>2, Rangees DEF Ensemble, Formes, Sorte, Descendance, Filiation
    <3> QED BY <1>1, <1>3, <2>1, <3>1 DEF FamilleDe
  <2>3. CASE op[p] = "echanger"
    <3>1. cible[p] \in Codes /\ cible[p] \in tient[p]
      BY <2>1, <2>3 DEF Ensemble, Formes, Sorte, Coherence, Prise
    <3>2. FamilleDe(cible[p]) = cible[p][2] /\ cible[p][2] \in Autorisations
          /\ cible[p] = <<"code", cible[p][2]>>
      BY <2>1, <3>1, Rangees DEF FamilleDe
    <3>3. etat'[cible[p]] = "inactive"
      BY <1>3, <2>3, <3>1 DEF Valider, Valide
    <3> QED BY <1>3, <2>1, <3>2, <3>3
  <2> QED BY <2>1, <2>2, <2>3
<1> QED BY <1>2, <1>3, Origines DEF Ensemble

(* A challenge is written by the requests of its code, and by no other.    *)
LEMMA DefisEcrits ==
    ASSUME Ensemble, NEW p \in Requetes, Etape(p) \/ Abandonner(p),
           NEW l \in Defis, etat'[l] # etat[l]
    PROVE  l = <<"defi", cible[p][2]>> /\ cible[p] \in Codes /\ (CreerDefi(p) \/ EffacerDefi(p))
<1> USE DEF tables
<1>0. Formes /\ Sorte(p) /\ l \in Lignes BY DEF Ensemble, Formes, Lignes
<1>1. CASE CreerDefi(p)
  BY <1>0, <1>1 DEF CreerDefi, Poser, Formes, TypeOK, Sorte
<1>2. CASE EffacerDefi(p)
  BY <1>0, <1>2 DEF EffacerDefi, Defi, Formes, TypeOK, Sorte
<1>3. CASE CreerCode(p)
  <2>1. l # cible[p] BY <1>0, <1>3, Rangees DEF CreerCode, Sorte
  <2> QED BY <1>0, <1>3, <2>1 DEF CreerCode, Poser, Formes, TypeOK
<1>4. CASE Terminer(p) \/ Valider(p)
  <2>1. l \notin tient[p] /\ l \notin TousJetons BY <1>0, Rangees DEF Formes, TypeOK
  <2> QED BY <1>0, <1>4, <2>1 DEF Terminer, Desactiver, Valider, Valide
<1>5. CASE UNCHANGED etat BY <1>5
<1> QED
  BY <1>1, <1>2, <1>3, <1>4, <1>5 DEF Etape, Abandonner, Echouer, Noter, LireCode, LireDefi, RelireCode,
     Lire, Chercher, Consommer, Retirer, Effacer, Verrouiller, Balayer, Emettre

LEMMA NouvelleGardee ==
    ASSUME Ensemble, NEW p \in Requetes, Etape(p) \/ Abandonner(p), NEW q \in Requetes
    PROVE  Nouvelle(q)'
<1> SUFFICES ASSUME op'[q] = "autoriser"
             PROVE  /\ etat'[<<"defi", cible'[q][2]>>] = "jamais"
                    /\ \A n \in Paires : famille'[n] # cible'[q][2]
                    /\ pc'[q] \in {"noter", "creer_code"} => etat'[cible'[q]] = "jamais"
  BY DEF Nouvelle
<1>1. pc'[q] # "attente"
  <2>1. Formes' BY FormesEtape DEF Ensemble
  <2> QED BY <2>1 DEF Formes, Sorte
<1>2. op[q] = "autoriser" /\ pc[q] # "attente" /\ cible'[q] = cible[q] BY <1>1, Restent
<1>3. Nouvelle(q) /\ Sorte(q) /\ Sorte(p) BY DEF Ensemble, Descendance, Formes
<1>4. cible[q] \in Codes /\ FamilleDe(cible[q]) = cible[q][2] /\ cible[q][2] \in Autorisations
  BY <1>2, <1>3, JetonsAssumption, Rangees DEF Sorte, FamilleDe, Lignes
<1>5. p # q => FamilleDe(cible[p]) # cible[q][2]
  BY <1>2, <1>4, Poursuite DEF Ensemble, Descendance, Seuls, EnCours
<1>6. p # q /\ cible[p] \in Codes => cible[p][2] # cible[q][2]
  BY <1>5, JetonsAssumption, Rangees DEF FamilleDe, Lignes
<1>7. etat'[<<"defi", cible[q][2]>>] = "jamais"
  <2>1. etat[<<"defi", cible[q][2]>>] = "jamais" BY <1>2, <1>3 DEF Nouvelle
  <2>2. <<"defi", cible[q][2]>> \in Defis BY <1>4, Rangees
  <2>3. ~CreerDefi(q) /\ ~EffacerDefi(q)
    BY <1>1, <1>2, <1>3 DEF CreerDefi, EffacerDefi, Repondre, Sorte, Ensemble, Formes, TypeOK
  <2>4. CASE p = q BY <2>1, <2>2, <2>3, <2>4, DefisEcrits
  <2>5. CASE p # q
    <3>1. cible[p] \in Codes => <<"defi", cible[p][2]>> # <<"defi", cible[q][2]>>
      BY <1>6, <2>5
    <3> QED BY <2>1, <2>2, <3>1, DefisEcrits
  <2> QED BY <2>4, <2>5
<1>8. ASSUME NEW n \in Paires PROVE famille'[n] # cible[q][2]
  <2>1. famille[n] # cible[q][2] BY <1>2, <1>3 DEF Nouvelle
  <2>2. Valider(p) => p # q
    BY <1>2 DEF Valider, Ensemble, Descendance, Filiation
  <2> QED BY <1>5, <2>1, <2>2, Origines DEF Ensemble
<1>9. ASSUME pc'[q] \in {"noter", "creer_code"} PROVE etat'[cible[q]] = "jamais"
  <2>1. pc[q] \in {"noter", "creer_code"} /\ (q = p => ~CreerCode(p))
    <3>1. CASE q # p
      BY <1>9, <3>1, Cadre DEF Ensemble
    <3>2. CASE q = p
      <4>1. pc[p] \in {"noter", "creer_code", "creer_defi"}
        BY <1>2, <1>3, <3>2 DEF Sorte, Pas, Ensemble, Formes, TypeOK, Descendance, Filiation
      <4>2. Noter(p) \/ CreerCode(p) \/ CreerDefi(p) \/ Verrouiller(p) \/ Abandonner(p)
        BY <4>1, DeuxNatures DEF Etape, Echouer, LireCode, LireDefi, EffacerDefi, RelireCode, Lire,
           Chercher, Consommer, Retirer, Effacer, Balayer, Terminer, Emettre, Valider
      <4> QED
        BY <1>9, <3>2, <4>1, <4>2 DEF Noter, CreerCode, CreerDefi, Verrouiller, Abandonner,
           Repondre, Aller, Ensemble, Formes, TypeOK
    <3> QED BY <3>1, <3>2
  <2>2. etat[cible[q]] = "jamais" BY <1>2, <1>3, <2>1 DEF Nouvelle
  <2>3. /\ cible[q] \in Lignes /\ cible[q] \notin tient[p] /\ cible[q] \notin TousJetons
        /\ cible[q] \notin Defis
    BY <1>4, <2>2, Rangees DEF Lignes, Ensemble, Coherence, Tenues, Presentes
  <2>4. CASE etat'[cible[q]] = etat[cible[q]] BY <2>2, <2>4
  <2>5. CASE cible[q] = cible[p] /\ pc[p] = "creer_code" /\ etat'[cible[q]] = "active"
    <3>1. p = q BY <1>4, <1>6, <2>5
    <3>2. CreerCode(p)
      BY <1>9, <2>2, <2>5, <3>1 DEF Etape, Abandonner, Echouer, Noter, CreerDefi, LireCode,
         LireDefi, EffacerDefi, RelireCode, Lire, Chercher, Consommer, Retirer, Effacer,
         Verrouiller, Balayer, Terminer, Emettre, Valider, tables
    <3> QED BY <2>1, <3>1, <3>2
  <2> QED BY <2>3, <2>4, <2>5, Ecriture DEF Ecrit, Ensemble
<1> QED BY <1>2, <1>7, <1>8, <1>9

(* A code that is written is never unwritten, nor its challenge before it. *)
LEMMA CodeEcrit ==
    ASSUME Ensemble, NEW p \in Requetes, Etape(p) \/ Abandonner(p),
           NEW c \in Codes, etat[c] # "jamais"
    PROVE  etat'[c] # "jamais"
<1>1. c \in Lignes /\ c \notin TousJetons /\ c \notin Defis BY Rangees DEF Lignes
<1> QED BY <1>1, Ecriture DEF Ecrit, Ensemble

LEMMA ConnuGarde ==
    ASSUME Ensemble, NEW p \in Requetes, Etape(p) \/ Abandonner(p)
    PROVE  Defies' /\ \A q \in Requetes : Connu(q)'
<1> USE DEF tables
<1>1. ASSUME NEW a \in Autorisations, etat'[<<"code", a>>] = "jamais"
      PROVE  etat'[<<"defi", a>>] = "jamais"
  <2>1. etat[<<"code", a>>] = "jamais" BY <1>1, CodeEcrit, Rangees
  <2>2. etat[<<"defi", a>>] = "jamais" BY <2>1 DEF Ensemble, Descendance, Defies
  <2>3. CASE etat'[<<"defi", a>>] # etat[<<"defi", a>>]
    <3>1. <<"defi", a>> = <<"defi", cible[p][2]>> /\ cible[p] \in Codes
          /\ (CreerDefi(p) \/ EffacerDefi(p))
      BY <2>3, DefisEcrits, Rangees
    <3>2. cible[p] = <<"code", a>> BY <3>1, Rangees
    <3>3. pc[p] = "creer_defi" \/ op[p] = "echanger"
      BY <3>1 DEF CreerDefi, EffacerDefi, Ensemble, Formes, Sorte
    <3> QED BY <2>1, <3>2, <3>3 DEF Ensemble, Descendance, Connu
  <2> QED BY <2>2, <2>3
<1>2. ASSUME NEW q \in Requetes,
             op'[q] \in {"echanger", "rejouer_code"} \/ pc'[q] = "creer_defi"
      PROVE  etat'[cible'[q]] # "jamais"
  <2>1. Formes' /\ Connu(q) /\ Sorte(q) /\ Formes
    BY FormesEtape DEF Ensemble, Descendance, Formes
  <2>2. pc'[q] # "attente" BY <1>2, <2>1 DEF Formes, Sorte
  <2>3. /\ cible'[q] = cible[q]
        /\ op'[q] = op[q] \/ op'[q] \in {"rejouer_code", "rejouer_jeton"}
    BY <2>2, Restent
  <2>4. cible[q] \in Codes BY <1>2, <2>1, <2>3 DEF Formes, Sorte
  <2>5. CASE op[q] \in {"echanger", "rejouer_code"} \/ pc[q] = "creer_defi"
    BY <2>1, <2>3, <2>4, <2>5, CodeEcrit DEF Connu
  <2>6. CASE ~(op[q] \in {"echanger", "rejouer_code"} \/ pc[q] = "creer_defi")
    <3>1. q = p BY <1>2, <2>6, Cadre DEF Ensemble
    <3>2. CreerCode(p)
      BY <1>2, <2>1, <2>2, <2>6, <3>1, DeuxNatures DEF Sorte, Etape, Abandonner, Echouer, Noter, CreerDefi,
         LireCode, LireDefi, EffacerDefi, RelireCode, Lire, Chercher, Consommer, Retirer, Effacer,
         Verrouiller, Balayer, Terminer, Seconde, Emettre, Valider, Repondre, Aller, requete,
         Formes, TypeOK
    <3> QED BY <2>1, <2>3, <2>4, <3>1, <3>2 DEF CreerCode, Poser, Formes, TypeOK, Lignes
  <2> QED BY <2>5, <2>6
<1> QED BY <1>1, <1>2 DEF Defies, Connu

(* Alone, only a commit in the family makes a token of it active. *)
LEMMA ResteInactif ==
    ASSUME Ensemble, NEW p \in Requetes, Etape(p) \/ Abandonner(p), NEW a \in Autorisations,
           ~(Valider(p) /\ neuve[p] # Aucune /\ FamilleDe(cible[p]) = a),
           NEW l \in TousJetons, FamilleDe(l)' = a
    PROVE  /\ FamilleDe(l) = a
           /\ etat'[l] = "active" => etat[l] = "active"
           /\ l \in tient[p] => etat'[l] = etat[l] \/ etat'[l] # "active"
<1>1. l[2] \in Paires /\ l \in Lignes /\ l \notin Defis /\ l \notin Codes /\ l[2] # Aucune
  BY Rangees, JetonsAssumption DEF Lignes
<1>2. FamilleDe(l) = famille[l[2]] /\ FamilleDe(l)' = famille'[l[2]] BY DEF FamilleDe
<1>3. ~(Valider(p) /\ l[2] = neuve[p])
  <2> SUFFICES ASSUME Valider(p), l[2] = neuve[p] PROVE FALSE
    OBVIOUS
  <2>1. Prise(p) /\ neuve[p] \in Paires /\ neuve[p] # Aucune
    BY <1>1 DEF Ensemble, Coherence
  <2>2. origine[neuve[p]] = Aucune BY <2>1 DEF Prise
  <2>3. famille[neuve[p]] = Aucune BY <2>1, <2>2 DEF Ensemble, Descendance, CodesUses
  <2>4. famille'[neuve[p]] = Aucune \/ famille'[neuve[p]] = FamilleDe(cible[p])
    BY <2>1, <2>3, Origines DEF Ensemble
  <2> QED BY <1>2, <2>1, <2>4, JetonsAssumption
<1>4. famille'[l[2]] = famille[l[2]] /\ origine'[l[2]] = origine[l[2]]
  BY <1>1, <1>3, Origines DEF Ensemble
<1>5. origine[l[2]] # Aucune
  <2>1. famille[l[2]] # Aucune BY <1>2, <1>4, JetonsAssumption
  <2> QED BY <1>1, <2>1 DEF Ensemble, Descendance, CodesUses
<1>6. etat'[l] = etat[l] \/ (l \in tient[p] /\ etat'[l] \in {"inactive", "effacee"})
  <2>1. l \in {<<"acces", l[2]>>, <<"rafraichir", l[2]>>} BY Rangees
  <2> QED BY <1>1, <1>5, <2>1, PasANaitre DEF Ensemble
<1> QED BY <1>2, <1>4, <1>6

(* A commit of another request is of another family. *)
LEMMA Ailleurs ==
    ASSUME Ensemble, NEW p \in Requetes, Etape(p) \/ Abandonner(p), NEW q \in Requetes \ {p},
           pc[q] # "attente", seul[q]
    PROVE  FamilleDe(cible[p]) # FamilleDe(cible[q])
BY Poursuite DEF Ensemble, Descendance, Seuls, EnCours

LEMMA BalayeDesAutres ==
    ASSUME Ensemble, NEW p \in Requetes, Etape(p) \/ Abandonner(p), NEW q \in Requetes \ {p}
    PROVE  Balaye(q)'
<1>1. /\ op'[q] = op[q] /\ cible'[q] = cible[q] /\ pc'[q] = pc[q] /\ seul'[q] = seul[q]
      /\ tient'[q] = tient[q] /\ reste'[q] = reste[q]
  BY Cadre, Poursuite DEF Ensemble
<1>2. CASE ~seul[q] \/ pc[q] = "attente" BY <1>1, <1>2 DEF Balaye
<1>3. CASE seul[q] /\ pc[q] # "attente"
  <2>1. FamilleDe(cible[p]) # FamilleDe(cible[q]) BY <1>3, Ailleurs
  <2>2. FamilleDe(cible[q])' = FamilleDe(cible[q]) BY <1>1, CiblesFixes
  <2>3. ASSUME NEW l \in TousJetons, FamilleDe(l)' = FamilleDe(cible[q])
        PROVE  FamilleDe(l) = FamilleDe(cible[q]) /\ (etat'[l] = "active" => etat[l] = "active")
    <3>1. CASE FamilleDe(cible[q]) \in Autorisations
      BY <2>1, <2>3, <3>1, ResteInactif
    <3>2. CASE FamilleDe(cible[q]) \notin Autorisations
      <4>1. FamilleDe(cible[q]) = Aucune BY <3>2, Familles DEF Ensemble, Formes, TypeOK
      <4>2. l[2] \in Paires /\ FamilleDe(l)' = famille'[l[2]] BY Rangees DEF FamilleDe
      <4>3. CodesUses' BY CodesUsesGardes
      <4>4. origine'[l[2]] = Aucune
        BY <2>3, <4>1, <4>2, <4>3, JetonsAssumption DEF CodesUses
      <4>5. etat'[l] = "jamais"
        <5>1. l \in {<<"acces", l[2]>>, <<"rafraichir", l[2]>>} BY Rangees
        <5>2. Naissance' BY NaissanceGardee DEF Ensemble
        <5>3. (etat'[l] = "jamais") <=> (origine'[l[2]] = Aucune)
          BY <4>2, <5>1, <5>2 DEF Naissance
        <5> QED BY <4>4, <5>3
      <4>6. origine[l[2]] = Aucune BY <4>2, <4>4, FamilleFixe
      <4>7. famille[l[2]] = Aucune BY <4>2, <4>6 DEF Ensemble, Descendance, CodesUses
      <4> QED BY <4>1, <4>5, <4>7 DEF FamilleDe
    <3> QED BY <3>1, <3>2
  <2>4. ASSUME NEW nature \in {"acces", "rafraichir"}, NEW lignes, Couvert(q, nature, lignes)
        PROVE  \A l \in JetonsDe({nature}) :
                  FamilleDe(l)' = FamilleDe(cible[q]) =>
                      etat'[l] # "active" \/ l \in tient[q] \cup lignes
    BY <2>3, <2>4, Rangees DEF Couvert
  <2>5. Balaye(q) BY DEF Ensemble, Descendance
  <2> QED BY <1>1, <1>3, <2>2, <2>4, <2>5 DEF Balaye, Couvert
<1> QED BY <1>2, <1>3

LEMMA BalayeGarde ==
    ASSUME Ensemble, NEW p \in Requetes, Etape(p) \/ Abandonner(p)
    PROVE  Balaye(p)'
<1> USE DEF tables, requete, transaction, Aller
<1>0. Balaye(p) /\ Formes /\ Sorte(p) BY DEF Ensemble, Descendance, Formes
<1>1. CASE Repondre(p) BY <1>0, <1>1 DEF Repondre, Formes, TypeOK, Balaye
<1>2. CASE Balayer(p)
  <2>1. UNCHANGED <<etat, famille, op, cible, seul, tient>> BY <1>2 DEF Balayer
  <2>2. pc[p] \in {"rafraichir", "acces"} BY <1>2, DeuxNatures DEF Balayer
  <2>3. pc'[p] = Verrous[pc[p]] BY <1>0, <1>2 DEF Balayer, Formes, TypeOK
  <2>5. ASSUME NEW l \in JetonsDe({pc[p]}), FamilleDe(l) = FamilleDe(cible[p])
        PROVE  etat[l] # "active" \/ l \in tient[p] \cup reste'[p]
    <3>1. l \in Lignes BY <2>2, <2>5, Rangees DEF Lignes
    <3> QED BY <1>0, <1>2, <2>5, <3>1 DEF Balayer, Presentes, Formes, TypeOK
  <2>6. \A l : FamilleDe(l)' = FamilleDe(l) BY <2>1 DEF FamilleDe
  <2> QED BY <1>0, <2>1, <2>2, <2>3, <2>5, <2>6, DeuxNatures DEF Balaye, Couvert
<1>3. CASE Verrouiller(p)
  <2>1. UNCHANGED <<etat, famille, op, cible, seul, pc>> BY <1>3 DEF Verrouiller
  <2>2. PICK l \in reste[p] :
            /\ reste' = [reste EXCEPT ![p] = @ \ {l}]
            /\ IF l \in Presentes THEN Tenir(p, l) ELSE UNCHANGED tient
    BY <1>3 DEF Verrouiller
  <2>3. /\ tient[p] \subseteq tient'[p] /\ reste'[p] = reste[p] \ {l}
        /\ l \in Presentes => l \in tient'[p]
    BY <1>0, <2>2 DEF Tenir, Formes, TypeOK
  <2>4. l \in Presentes \/ etat[l] # "active"
    BY <1>0, <2>2, Rangees DEF Presentes, Formes, TypeOK, Lignes
  <2>5. \A k : FamilleDe(k)' = FamilleDe(k) BY <2>1 DEF FamilleDe
  <2> QED BY <1>0, <2>1, <2>3, <2>4, <2>5 DEF Balaye, Couvert
<1>4. CASE Terminer(p) /\ ~Repondre(p)
  <2>1. UNCHANGED <<famille, op, cible, seul>> /\ reste[p] = {} BY <1>4 DEF Terminer
  <2>2. \A l : FamilleDe(l)' = FamilleDe(l) BY <2>1 DEF FamilleDe
  <2>3. ASSUME NEW nature \in {"acces", "rafraichir"}, Couvert(p, nature, {})
        PROVE  Couvert(p, nature, {})'
    <3>1. \A l \in JetonsDe({nature}) : l \in Lignes BY <2>3, Rangees DEF Lignes
    <3>2. CASE EnTransaction(p)
      <4>1. UNCHANGED <<etat, tient>> BY <1>4, <3>2 DEF Terminer
      <4> QED BY <2>1, <2>2, <2>3, <4>1 DEF Couvert
    <3>3. CASE ~EnTransaction(p)
      BY <1>4, <2>1, <2>2, <2>3, <3>1, <3>3 DEF Terminer, Desactiver, Couvert
    <3> QED BY <3>2, <3>3
  <2>4. \/ /\ op[p] # "rejouer_code" /\ pc[p] = "rafraichir_verrous" /\ pc'[p] = "acces"
        \/ /\ op[p] = "rejouer_code" /\ pc[p] = "acces_verrous" /\ pc'[p] = "rafraichir"
        \/ /\ op[p] \in {"tourner", "rejouer_jeton"} /\ pc[p] = "acces_verrous"
           /\ pc'[p] \in {"emettre", "valider"}
    BY <1>0, <1>4 DEF Terminer, EnTransaction, Premiere, Seconde, Nature, Sorte, Formes, TypeOK
  <2> QED BY <1>0, <2>1, <2>3, <2>4 DEF Balaye
<1>5. CASE ~Repondre(p) /\ ~Balayer(p) /\ ~Verrouiller(p) /\ ~Terminer(p) /\ ~Echouer(p)
  <2>1. /\ pc'[p] \notin {"rafraichir_verrous", "acces_verrous"}
        /\ pc'[p] = "rafraichir" => op'[p] # "rejouer_code"
        /\ pc'[p] = "acces" => op'[p] = "rejouer_code"
        /\ pc'[p] = "valider" => op'[p] # "rejouer_jeton"
    BY <1>0, <1>5 DEF Etape, Abandonner, Noter, CreerCode, CreerDefi, LireCode,
       LireDefi, EffacerDefi, RelireCode, Lire, Chercher, Consommer, Retirer, Effacer, Emettre,
       Valider, Sorte, Formes, TypeOK
  <2> QED BY <2>1 DEF Balaye
<1>6. CASE Echouer(p) BY <1>0, <1>6, Echec DEF Balaye, Formes, TypeOK
<1> QED BY <1>1, <1>2, <1>3, <1>4, <1>5, <1>6

(* A family that is down stays down. *)
LEMMA EteinteGardee ==
    ASSUME Ensemble, NEW p \in Requetes, Etape(p) \/ Abandonner(p),
           NEW a \in Autorisations, Eteinte(a)
    PROVE  Eteinte(a)'
<1> USE DEF tables, requete, transaction
<1>0. Sorte(p) /\ Filiation(p) /\ Formes BY DEF Ensemble, Descendance, Formes
<1>1. etat'[<<"code", a>>] \in {"inactive", "effacee"} BY CodeUse, Rangees DEF Eteinte
<1>2. ~(Valider(p) /\ neuve[p] # Aucune /\ FamilleDe(cible[p]) = a)
  BY <1>0 DEF Eteinte, EnCours, Valider, Sorte
<1>3. \A l \in TousJetons : FamilleDe(l)' = a => etat'[l] # "active"
  BY <1>2, ResteInactif DEF Eteinte
<1>4. ASSUME NEW q \in Requetes, pc'[q] # "attente", FamilleDe(cible[q])' = a
      PROVE  \/ op'[q] \in {"revoquer", "rejouer_code", "rejouer_jeton"}
             \/ pc'[q] \in {"lire_code", "lire"}
  <2>1. /\ pc[q] # "attente" /\ FamilleDe(cible[q]) = a
        /\ op'[q] = op[q] \/ op'[q] \in {"rejouer_code", "rejouer_jeton"}
    BY <1>4, Restent
  <2>2. \/ op[q] \in {"revoquer", "rejouer_code", "rejouer_jeton"}
        \/ pc[q] \in {"lire_code", "lire"}
    BY <2>1 DEF Eteinte, EnCours
  <2>3. CASE q # p BY <2>1, <2>2, <2>3, Cadre DEF Ensemble
  <2>4. CASE q = p /\ op[q] \in {"revoquer", "rejouer_code", "rejouer_jeton"} BY <2>1, <2>4
  <2>5. CASE q = p /\ pc[q] = "lire_code"
    <3>1. cible[p] \in Codes /\ cible[p] # Aucune /\ cible[p] \notin TousJetons
      BY <1>0, <2>5, JetonsAssumption, Rangees DEF Sorte, Lignes
    <3>2. cible[p] = <<"code", a>> BY <2>1, <2>5, <3>1, Rangees DEF FamilleDe
    <3>3. etat[cible[p]] # "active" BY <3>2 DEF Eteinte
    <3>4. LireCode(p) \/ Verrouiller(p) \/ Repondre(p)
      BY <2>5, DeuxNatures DEF Etape, Abandonner, Echouer, Noter, CreerCode, CreerDefi, LireDefi,
         EffacerDefi, RelireCode, Lire, Chercher, Consommer, Retirer, Effacer, Balayer, Terminer,
         Emettre, Valider
    <3>5. ~Repondre(p) BY <1>0, <1>4, <2>5 DEF Repondre, Formes, TypeOK
    <3> QED BY <1>0, <2>5, <3>3, <3>4, <3>5 DEF LireCode, Verrouiller, Formes, TypeOK
  <2>6. CASE q = p /\ pc[q] = "lire"
    <3>1. cible[p] \in TousJetons BY <1>0, <2>6, Rangees DEF Sorte
    <3>2. etat[cible[p]] # "active" BY <2>1, <2>6, <3>1 DEF Eteinte
    <3>3. Lire(p) \/ Verrouiller(p) \/ Repondre(p)
      BY <2>6, DeuxNatures DEF Etape, Abandonner, Echouer, Noter, CreerCode, CreerDefi, LireCode, LireDefi,
         EffacerDefi, RelireCode, Chercher, Consommer, Retirer, Effacer, Balayer, Terminer,
         Emettre, Valider
    <3>4. ~Repondre(p) BY <1>0, <1>4, <2>6 DEF Repondre, Formes, TypeOK
    <3> QED BY <1>0, <2>6, <3>2, <3>3, <3>4 DEF Lire, Verrouiller, Formes, TypeOK
  <2> QED BY <2>2, <2>3, <2>4, <2>5, <2>6
<1> QED BY <1>1, <1>3, <1>4 DEF Eteinte, EnCours

(* Whoever was alone until the end of a revocation brings the family down. *)
LEMMA Chute ==
    ASSUME Ensemble, NEW p \in Requetes, Etape(p) \/ Abandonner(p), NEW a \in Autorisations,
           a \notin chutes, a \in chutes'
    PROVE  Eteinte(a)'
<1> USE DEF tables, requete, transaction
<1>0. /\ Sorte(p) /\ Filiation(p) /\ Rejoue(p) /\ Balaye(p) /\ Formes /\ CodesUses /\ Seuls
  BY DEF Ensemble, Descendance, Formes
<1>1. /\ Chuter(p) /\ Repondre(p)
      /\ \/ Valider(p) /\ neuve[p] = Aucune
         \/ Terminer(p) /\ ~EnTransaction(p) /\ ~Premiere(p)
  <2>1. chutes' # chutes OBVIOUS
  <2> QED
    BY <2>1 DEF Etape, Abandonner, Echouer, Noter, CreerCode, CreerDefi, LireCode, LireDefi,
       EffacerDefi, RelireCode, Lire, Chercher, Consommer, Retirer, Effacer, Verrouiller, Balayer,
       Terminer, Emettre, Valider
<1>2. seul[p] /\ FamilleDe(cible[p]) = a
  BY <1>0, <1>1 DEF Chuter, Formes, TypeOK
<1>3. \/ op[p] = "rejouer_jeton" /\ pc[p] = "valider" /\ Valider(p) /\ neuve[p] = Aucune
      \/ op[p] = "revoquer" /\ pc[p] = "acces_verrous" /\ Terminer(p)
      \/ op[p] = "rejouer_code" /\ pc[p] = "rafraichir_verrous" /\ Terminer(p)
  <2>1. CASE Valider(p) /\ neuve[p] = Aucune
    BY <1>0, <2>1 DEF Valider, Filiation
  <2>2. CASE Terminer(p) /\ ~EnTransaction(p) /\ ~Premiere(p)
    <3>1. op[p] \in {"revoquer", "rejouer_code"} /\ pc[p] \in {"rafraichir_verrous", "acces_verrous"}
      BY <1>0, <2>2 DEF Terminer, EnTransaction, Sorte
    <3> QED BY <2>2, <3>1 DEF Premiere, Nature
  <2> QED BY <1>1, <2>1, <2>2
<1>4. etat'[<<"code", a>>] \in {"inactive", "effacee"}
  <2>1. etat[<<"code", a>>] \in {"inactive", "effacee"}
    <3>1. CASE op[p] = "rejouer_code"
      <4>1. cible[p] \in Codes /\ cible[p] # Aucune /\ cible[p] \notin TousJetons
        BY <1>0, <3>1, JetonsAssumption, Rangees DEF Sorte, Lignes
      <4>2. cible[p] = <<"code", a>> BY <1>2, <4>1, Rangees DEF FamilleDe
      <4> QED BY <1>0, <3>1, <4>2 DEF Rejoue
    <3>2. CASE op[p] # "rejouer_code"
      <4>1. cible[p] \in TousJetons BY <1>0, <1>3, <3>2, Rangees DEF Sorte
      <4>2. cible[p][2] \in Paires /\ famille[cible[p][2]] = a /\ origine[cible[p][2]] # Aucune
        BY <1>0, <1>2, <4>1, Rangees DEF Filiation, FamilleDe
      <4> QED BY <1>0, <4>2 DEF CodesUses
    <3> QED BY <3>1, <3>2
  <2> QED BY <2>1, CodeUse, Rangees
<1>5. ASSUME NEW l \in TousJetons, FamilleDe(l)' = a PROVE etat'[l] # "active"
  <2>1. pc[p] # "valider" \/ neuve[p] = Aucune BY <1>3
  <2>2. FamilleDe(l) = a /\ (etat'[l] = "active" => etat[l] = "active")
    BY <1>5, <2>1, ResteInactif DEF Valider
  <2>3. pc[p] # "valider" => reste[p] = {} BY <1>3 DEF Terminer
  <2>4. etat[l] # "active" \/ l \in tient[p]
    <3>1. l \in JetonsDe({"acces"}) \/ l \in JetonsDe({"rafraichir"}) BY Rangees
    <3> QED BY <1>0, <1>2, <1>3, <2>2, <2>3, <3>1 DEF Balaye, Couvert
  <2>5. l \in tient[p] => etat'[l] # "active"
    <3>1. l \in Lignes BY DEF Lignes
    <3>2. CASE Valider(p) BY <3>1, <3>2 DEF Valider, Valide
    <3>3. CASE Terminer(p) BY <1>1, <1>3, <3>1, <3>3 DEF Terminer, Desactiver, Valider
    <3> QED BY <1>3, <3>2, <3>3
  <2> QED BY <2>2, <2>4, <2>5
<1>6. ASSUME NEW q \in Requetes, pc'[q] # "attente", FamilleDe(cible[q])' = a PROVE FALSE
  <2>1. pc[q] # "attente" /\ FamilleDe(cible[q]) = a BY <1>6, Restent
  <2>2. q # p BY <1>0, <1>1, <1>6 DEF Repondre, Formes, TypeOK
  <2>3. pc[p] # "attente" BY Poursuite
  <2> QED BY <1>0, <1>2, <2>1, <2>2, <2>3 DEF Seuls, EnCours
<1> QED BY <1>4, <1>5, <1>6 DEF Eteinte, EnCours

(* Every step of a request keeps the families as they are said to be. *)
LEMMA DescendanceEtape ==
    ASSUME Ensemble, NEW p \in Requetes, Etape(p) \/ Abandonner(p)
    PROVE  Descendance'
<1>1. \A q \in Requetes : Filiation(q)' BY FiliationGardee, FiliationDesAutres
<1>2. \A q \in Requetes : Nouvelle(q)' /\ Rejoue(q)' BY NouvelleGardee, RejoueGarde
<1>3. \A q \in Requetes : Balaye(q)' BY BalayeGarde, BalayeDesAutres
<1>4. CodesUses' /\ Seuls' BY CodesUsesGardes, SeulsGardes
<1>6. Defies' /\ \A q \in Requetes : Connu(q)' BY ConnuGarde
<1>5. ASSUME NEW a \in Autorisations, a \in chutes' PROVE Eteinte(a)'
  <2>1. CASE a \in chutes
    <3>1. Eteinte(a) BY <2>1 DEF Ensemble, Descendance
    <3> QED BY <3>1, EteinteGardee
  <2>2. CASE a \notin chutes BY <1>5, <2>2, Chute
  <2> QED BY <2>1, <2>2
<1> QED BY <1>1, <1>2, <1>3, <1>4, <1>5, <1>6 DEF Descendance

(* A request comes in with what it was given, in a family that nobody is   *)
(* making.                                                                 *)
LEMMA DescendanceRecevoir ==
    ASSUME Ensemble, NEW p \in Requetes, NEW o, NEW l, NEW pas, Recevoir(p, o, l, pas),
           \/ /\ o = "autoriser" /\ l \in Codes /\ pas = "noter" /\ etat[l] = "jamais"
              /\ \A r \in Requetes : ~EnCours(r, l[2])
           \/ o = "echanger" /\ l \in Codes \cap Recus /\ pas = "lire_code"
           \/ o = "tourner" /\ l \in JetonsDe({"rafraichir"}) \cap Recus /\ pas = "lire"
           \/ o = "revoquer" /\ l \in TousJetons \cap Recus /\ pas = "chercher"
    PROVE  Descendance'
<1>1. UNCHANGED <<accords, etat, famille, origine, chutes, tient, reste, neuve>>
  BY DEF Recevoir, tables, transaction
<1>2. /\ pc[p] = "attente" /\ op'[p] = o /\ cible'[p] = l /\ pc'[p] = pas
      /\ \A q \in Requetes \ {p} : op'[q] = op[q] /\ cible'[q] = cible[q] /\ pc'[q] = pc[q]
  BY DEF Recevoir, Ensemble, Formes, TypeOK
<1>3. \A k : FamilleDe(k)' = FamilleDe(k) BY <1>1 DEF FamilleDe
<1>4. /\ seul'[p] => \A q \in Requetes : ~EnCours(q, FamilleDe(l))
      /\ \A q \in Requetes \ {p} : seul'[q] => seul[q] /\ ~EnCours(q, FamilleDe(l))
  BY DEF Recevoir
<1>5. l \in Codes => FamilleDe(l) = l[2] /\ l[2] \in Autorisations /\ l = <<"code", l[2]>>
  BY JetonsAssumption, Rangees DEF FamilleDe, Lignes
<1>6. l \in TousJetons => origine[l[2]] # Aucune /\ FamilleDe(l) = famille[l[2]] /\ l[2] \in Paires
  BY Rangees DEF Recus, FamilleDe
<1>7. l \in Codes /\ o # "autoriser" => etat[<<"defi", l[2]>>] # "jamais"
  <2> SUFFICES ASSUME l \in Codes, o # "autoriser" PROVE etat[<<"defi", l[2]>>] # "jamais"
    OBVIOUS
  <2>1. l \in Recus /\ l \notin TousJetons BY Rangees
  <2>2. PICK b \in Autorisations : l = <<"code", b>> /\ etat[<<"defi", b>>] # "jamais"
    BY <2>1 DEF Recus
  <2> QED BY <2>2
<1>8. o = "autoriser" => /\ etat[<<"defi", l[2]>>] = "jamais"
                         /\ \A n \in Paires : famille[n] # l[2]
  <2> SUFFICES ASSUME o = "autoriser"
               PROVE  etat[<<"defi", l[2]>>] = "jamais" /\ \A n \in Paires : famille[n] # l[2]
    OBVIOUS
  <2>1. etat[<<"defi", l[2]>>] = "jamais" BY <1>5 DEF Ensemble, Descendance, Defies
  <2>2. l[2] # Aucune BY <1>5, JetonsAssumption
  <2>3. ASSUME NEW n \in Paires, famille[n] = l[2] PROVE FALSE
    <3>1. etat[<<"code", famille[n]>>] \in {"inactive", "effacee"}
      BY <2>2, <2>3 DEF Ensemble, Descendance, CodesUses
    <3> QED BY <1>5, <2>3, <3>1
  <2> QED BY <2>1, <2>3
<1>9. \A q \in Requetes : Filiation(q)'
  <2>1. \A q \in Requetes \ {p} : Filiation(q)'
    BY <1>1, <1>2, <1>3 DEF Ensemble, Descendance, Filiation
  <2>2. tient[p] = {} /\ reste[p] = {} BY <1>2 DEF Ensemble, Descendance, Filiation
  <2> QED BY <1>1, <1>2, <1>6, <2>1, <2>2 DEF Filiation
<1>10. \A q \in Requetes : Nouvelle(q)'
  <2>1. \A q \in Requetes \ {p} : Nouvelle(q)'
    BY <1>1, <1>2 DEF Ensemble, Descendance, Nouvelle
  <2> QED BY <1>1, <1>2, <1>8, <2>1 DEF Nouvelle
<1>11. \A q \in Requetes : Rejoue(q)' /\ Connu(q)' /\ Balaye(q)'
  <2>1. \A q \in Requetes \ {p} : Rejoue(q)' /\ Connu(q)'
    BY <1>1, <1>2 DEF Ensemble, Descendance, Rejoue, Connu
  <2>2. \A q \in Requetes \ {p} : Balaye(q)'
    BY <1>1, <1>2, <1>3, <1>4 DEF Ensemble, Descendance, Balaye, Couvert
  <2>3. Rejoue(p)' /\ Balaye(p)' BY <1>2 DEF Rejoue, Balaye
  <2>4. l \in Codes /\ o # "autoriser" => etat[l] # "jamais"
    BY <1>5, <1>7 DEF Ensemble, Descendance, Defies
  <2>5. Connu(p)' BY <1>1, <1>2, <2>4 DEF Connu
  <2> QED BY <2>1, <2>2, <2>3, <2>5
<1>12. CodesUses' /\ Defies' BY <1>1 DEF Ensemble, Descendance, CodesUses, Defies
<1>13. Seuls'
  <2> SUFFICES ASSUME NEW r \in Requetes, NEW q \in Requetes, r # q, pc'[r] # "attente",
                      seul'[r] \/ op'[r] = "autoriser",
                      pc'[q] # "attente", FamilleDe(cible'[q]) = FamilleDe(cible'[r])
               PROVE  FALSE
    BY <1>1, <1>3 DEF Seuls, EnCours, FamilleDe
  <2>1. CASE r = p
    <3>1. pc[q] # "attente" /\ FamilleDe(cible[q]) = FamilleDe(l) BY <1>2, <2>1
    <3> QED BY <1>2, <1>4, <1>5, <2>1, <3>1 DEF EnCours
  <2>2. CASE q = p
    <3>1. pc[r] # "attente" /\ FamilleDe(cible[r]) = FamilleDe(l) BY <1>2, <2>2
    <3>2. EnCours(r, FamilleDe(l)) /\ op[r] = "autoriser" BY <1>2, <1>4, <2>2, <3>1 DEF EnCours
    <3>3. cible[r] \in Codes /\ Nouvelle(r) BY <3>2 DEF Ensemble, Formes, Sorte, Descendance
    <3>4. FamilleDe(cible[r]) = cible[r][2]
      BY <3>3, JetonsAssumption, Rangees DEF FamilleDe, Lignes
    <3> QED BY <1>5, <1>6, <1>7, <3>1, <3>2, <3>3, <3>4, Rangees DEF Nouvelle
  <2>3. CASE r # p /\ q # p
    BY <1>2, <1>4, <2>3 DEF Ensemble, Descendance, Seuls, EnCours
  <2> QED BY <2>1, <2>2, <2>3
<1>14. ASSUME NEW a \in Autorisations, a \in chutes' PROVE Eteinte(a)'
  <2>1. Eteinte(a) BY <1>1, <1>14 DEF Ensemble, Descendance
  <2>2. \A k \in TousJetons : FamilleDe(k)' = a => etat'[k] # "active"
    BY <1>1, <1>3, <2>1 DEF Eteinte
  <2>3. \A q \in Requetes \ {p} : pc'[q] # "attente" /\ FamilleDe(cible'[q]) = a =>
            \/ op'[q] \in {"revoquer", "rejouer_code", "rejouer_jeton"}
            \/ pc'[q] \in {"lire_code", "lire"}
    BY <1>2, <2>1 DEF Eteinte, EnCours
  <2>4. FamilleDe(l) = a => \/ o = "revoquer"
                            \/ pas \in {"lire_code", "lire"}
    BY <1>5, <2>1 DEF Eteinte
  <2>5. etat'[<<"code", a>>] \in {"inactive", "effacee"} BY <1>1, <2>1 DEF Eteinte
  <2>6. \A q \in Requetes : FamilleDe(cible[q])' = FamilleDe(cible'[q])
    BY <1>1 DEF FamilleDe
  <2> QED BY <1>2, <2>2, <2>3, <2>4, <2>5, <2>6 DEF Eteinte, EnCours
<1> QED BY <1>9, <1>10, <1>11, <1>12, <1>13, <1>14 DEF Descendance

LEMMA DescendanceArriver ==
    ASSUME Ensemble, NEW p \in Requetes, Arriver(p)
    PROVE  Descendance'
<1>1. CASE RecevoirDecision(p)
  <2>1. PICK a \in Autorisations :
            /\ etat[<<"code", a>>] = "jamais"
            /\ \A r \in Requetes : ~EnCours(r, a)
            /\ Recevoir(p, "autoriser", <<"code", a>>, "noter")
    BY <1>1 DEF RecevoirDecision
  <2>2. <<"code", a>> \in Codes /\ <<"code", a>>[2] = a BY Rangees
  <2> QED BY <2>1, <2>2, DescendanceRecevoir
<1>2. CASE RecevoirCode(p)
  <2>1. PICK l \in Recus \cap Codes : Recevoir(p, "echanger", l, "lire_code")
    BY <1>2 DEF RecevoirCode
  <2> QED BY <2>1, DescendanceRecevoir
<1>3. CASE RecevoirJeton(p)
  <2>1. PICK l \in Recus \cap JetonsDe({"rafraichir"}) : Recevoir(p, "tourner", l, "lire")
    BY <1>3 DEF RecevoirJeton
  <2> QED BY <2>1, DescendanceRecevoir
<1>4. CASE RecevoirRevocation(p)
  <2>1. PICK l \in Recus \cap TousJetons : Recevoir(p, "revoquer", l, "chercher")
    BY <1>4 DEF RecevoirRevocation
  <2> QED BY <2>1, DescendanceRecevoir
<1> QED BY <1>1, <1>2, <1>3, <1>4 DEF Arriver

LEMMA DescendancePurger ==
    ASSUME Ensemble, Purger
    PROVE  Descendance'
<1>1. PICK perimes :
          /\ perimes \subseteq Presentes
          /\ \A r \in Requetes : tient[r] \cap perimes = {}
          /\ etat' = [l \in Lignes |-> IF l \in perimes THEN "effacee" ELSE etat[l]]
  BY DEF Purger
<1>2. UNCHANGED <<famille, origine, chutes, op, cible, seul, pc, tient, reste, neuve>>
  BY DEF Purger, requete, transaction
<1>3. \A l \in Lignes : \/ etat'[l] = etat[l]
                        \/ etat[l] \in {"active", "inactive"} /\ etat'[l] = "effacee"
  BY <1>1 DEF Presentes
<1>4. \A k : FamilleDe(k)' = FamilleDe(k) BY <1>2 DEF FamilleDe
<1>5. /\ \A a \in Autorisations : <<"code", a>> \in Lignes /\ <<"defi", a>> \in Lignes
      /\ \A l \in Codes \cup TousJetons : l \in Lignes
  BY Rangees DEF Lignes
<1>6. CodesUses' BY <1>2, <1>3, <1>5 DEF Ensemble, Descendance, CodesUses
<1>7. Defies' BY <1>3, <1>5 DEF Ensemble, Descendance, Defies
<1>8. Seuls' BY <1>2, <1>4 DEF Ensemble, Descendance, Seuls, EnCours
<1>9. ASSUME NEW q \in Requetes
      PROVE  Filiation(q)' /\ Nouvelle(q)' /\ Rejoue(q)' /\ Connu(q)' /\ Balaye(q)'
  <2>1. Filiation(q) /\ Nouvelle(q) /\ Rejoue(q) /\ Connu(q) /\ Balaye(q) /\ Sorte(q) /\ Formes
    BY DEF Ensemble, Descendance, Formes
  <2>2. Filiation(q)' BY <1>2, <1>4, <2>1 DEF Filiation
  <2>3. op[q] \in {"autoriser", "echanger", "rejouer_code"} =>
            cible[q] \in Lignes /\ cible[q][2] \in Autorisations
    BY <1>5, <2>1, Rangees DEF Sorte
  <2>4. Nouvelle(q)' /\ Rejoue(q)' BY <1>2, <1>3, <1>5, <2>1, <2>3 DEF Nouvelle, Rejoue
  <2>5. pc[q] = "creer_defi" => op[q] = "autoriser" BY <2>1 DEF Sorte
  <2>6. Connu(q)' BY <1>2, <1>3, <2>1, <2>3, <2>5 DEF Connu
  <2>7. ASSUME NEW nature \in {"acces", "rafraichir"}, NEW lignes, Couvert(q, nature, lignes)
        PROVE  \A l \in JetonsDe({nature}) :
                  FamilleDe(l)' = FamilleDe(cible[q]) =>
                      etat'[l] # "active" \/ l \in tient[q] \cup lignes
    <3>1. \A l \in JetonsDe({nature}) : l \in Lignes BY <1>5, <2>7, Rangees
    <3> QED BY <1>3, <1>4, <2>7, <3>1 DEF Couvert
  <2>8. Balaye(q)' BY <1>2, <1>4, <2>1, <2>7 DEF Balaye, Couvert
  <2> QED BY <2>2, <2>4, <2>6, <2>8
<1>10. ASSUME NEW a \in Autorisations, a \in chutes' PROVE Eteinte(a)'
  <2>1. Eteinte(a) BY <1>2, <1>10 DEF Ensemble, Descendance
  <2> QED BY <1>2, <1>3, <1>4, <1>5, <2>1 DEF Eteinte, EnCours
<1> QED BY <1>6, <1>7, <1>8, <1>9, <1>10 DEF Descendance

LEMMA Suivant ==
    ASSUME Ensemble, [Next]_vars
    PROVE  Ensemble'
<1>1. Formes' /\ Coherence' BY FormesSuivant, CoherenceSuivante DEF Ensemble
<1>2. ASSUME UNCHANGED vars PROVE Descendance'
  <2>1. /\ UNCHANGED <<accords, etat, famille, origine, chutes>>
        /\ UNCHANGED <<op, cible, pc, tient, reste, neuve, seul>>
    BY <1>2 DEF vars, tables, transaction
  <2>2. \A k : FamilleDe(k)' = FamilleDe(k) BY <2>1 DEF FamilleDe
  <2>3. (CodesUses /\ Defies /\ Seuls)'
    BY <2>1, <2>2 DEF Ensemble, Descendance, CodesUses, Defies, Seuls, EnCours
  <2>4. ASSUME NEW q \in Requetes
        PROVE  Filiation(q)' /\ Nouvelle(q)' /\ Rejoue(q)' /\ Connu(q)' /\ Balaye(q)'
    <3>1. Filiation(q)' BY <2>1, <2>2 DEF Ensemble, Descendance, Filiation
    <3>2. Nouvelle(q)' /\ Rejoue(q)' /\ Connu(q)'
      BY <2>1 DEF Ensemble, Descendance, Nouvelle, Rejoue, Connu
    <3>3. Balaye(q)' BY <2>1, <2>2 DEF Ensemble, Descendance, Balaye, Couvert
    <3> QED BY <3>1, <3>2, <3>3
  <2>5. ASSUME NEW a \in Autorisations, a \in chutes' PROVE Eteinte(a)'
    BY <2>1, <2>2, <2>5 DEF Ensemble, Descendance, Eteinte, EnCours
  <2> QED BY <2>3, <2>4, <2>5 DEF Descendance
<1>3. Descendance'
  BY <1>2, DescendanceEtape, DescendanceArriver, DescendancePurger DEF Next, Repos, Arriver
<1> QED BY <1>1, <1>3 DEF Ensemble

LEMMA Debut ==
    ASSUME Init
    PROVE  Ensemble
<1>1. Formes /\ Coherence BY Commencement
<1>2. \A l \in Lignes : etat[l] = "jamais" BY DEF Init
<1>3. CodesUses /\ Defies BY <1>2, Rangees DEF Init, CodesUses, Defies, Lignes
<1>4. Seuls BY DEF Init, Seuls
<1>5. \A p \in Requetes : Filiation(p)
  BY JetonsAssumption DEF Init, Filiation, Lignes
<1>6. \A p \in Requetes : Nouvelle(p) /\ Rejoue(p) /\ Connu(p) /\ Balaye(p)
  BY DEF Init, Nouvelle, Rejoue, Connu, Balaye
<1>7. \A a \in Autorisations : a \notin chutes BY DEF Init
<1> QED BY <1>1, <1>3, <1>4, <1>5, <1>6, <1>7 DEF Ensemble, Descendance

-----------------------------------------------------------------------------
(* What is promised. *)

(* The state keeps its shape, whatever the requests do. *)
THEOREM TypeCorrect == Spec => []TypeOK
<1>1. Init => Formes BY Commencement
<1>2. Formes /\ [Next]_vars => Formes' BY FormesSuivant
<1>3. Formes => TypeOK BY DEF Formes
<1> QED BY <1>1, <1>2, <1>3, PTL DEF Spec

(* What each transaction holds and has seen is what the tables say, and    *)
(* every request works in the family of what it was given.                 *)
THEOREM Coherente == Spec => []Ensemble
<1>1. Init => Ensemble BY Debut
<1>2. Ensemble /\ [Next]_vars => Ensemble' BY Suivant
<1> QED BY <1>1, <1>2, PTL DEF Spec

(* A refresh token has one successor at most (RotateRefreshToken). *)
THEOREM Unique == Spec => []UnSuccesseur
<1>1. Ensemble => UnSuccesseur BY DEF Ensemble, Coherence
<1> QED BY <1>1, Coherente, PTL

(* No token is active beside the one that replaces it, nor is the access   *)
(* token that was issued with it (RotateRefreshToken).                     *)
THEOREM Stricte == Spec => []RotationStricte
<1>1. Ensemble => RotationStricte
  <2> SUFFICES ASSUME Remplaces, NEW m \in Paires, NEW n \in Paires,
                      origine[n] = <<"rafraichir", m>>
               PROVE  <<"rafraichir", m>> \notin Actives /\ <<"acces", m>> \notin Actives
    BY DEF Ensemble, Coherence, RotationStricte
  <2> QED BY DEF Remplaces, Epuise, Actives
<1> QED BY <1>1, Coherente, PTL

(* No code and no token exists that a recorded consent does not cover.     *)
THEOREM ToujoursConsenti == Spec => []Consenti
<1>1. Ensemble => Consenti BY DEF Ensemble, Coherence
<1> QED BY <1>1, Coherente, PTL

(* A revocation or a replay that nothing of the family crossed brings all  *)
(* of it down for ever (RevokeRefreshToken, RevokeAccessToken).            *)
THEOREM Tombee == Spec => []FamilleTombee
<1>1. Ensemble => FamilleTombee
  <2> SUFFICES ASSUME Ensemble, NEW l \in Actives, FamilleDe(l) \in chutes PROVE FALSE
    BY DEF FamilleTombee
  <2>1. l \in TousJetons /\ l \in Presentes BY Rangees DEF Actives, Presentes, Lignes
  <2>2. FamilleDe(l) \in Autorisations BY <2>1 DEF Ensemble, Coherence, Consenti
  <2> QED BY <2>1, <2>2 DEF Ensemble, Descendance, Eteinte, Actives
<1> QED BY <1>1, Coherente, PTL

-----------------------------------------------------------------------------
(* Rows only age: nobody ever makes active again what was not. *)
LEMMA Vieillit ==
    ASSUME Ensemble, [Next]_vars, NEW l \in Lignes
    PROVE  etat'[l] \in Devenirs[etat[l]]
<1> USE DEF Devenirs
<1>0. Formes /\ Coherence /\ etat[l] \in {"jamais", "active", "inactive", "effacee"}
  BY DEF Ensemble, Formes, TypeOK
<1>1. CASE etat'[l] = etat[l] BY <1>0, <1>1
<1>2. ASSUME NEW p \in Requetes, Etape(p) \/ Abandonner(p), etat'[l] # etat[l]
      PROVE  etat'[l] \in Devenirs[etat[l]]
  <2>0. Sorte(p) /\ Nouvelle(p) /\ Prise(p)
    BY <1>0 DEF Formes, Coherence, Ensemble, Descendance
  <2>1. CASE l \in tient[p] /\ etat'[l] \in {"inactive", "effacee"}
    BY <1>0, <2>1 DEF Coherence, Tenues, Presentes
  <2>2. CASE l \in TousJetons /\ l[2] = neuve[p] /\ etat'[l] = "active"
    <3>1. l[2] \in Paires /\ l \in {<<"acces", l[2]>>, <<"rafraichir", l[2]>>} BY <2>2, Rangees
    <3>2. origine[l[2]] = Aucune BY <2>0, <2>2, <3>1, JetonsAssumption DEF Prise
    <3>3. etat[l] = "jamais" BY <1>0, <3>1, <3>2 DEF Coherence, Naissance
    <3> QED BY <2>2, <3>3
  <2>3. CASE l = cible[p] /\ pc[p] = "creer_code" /\ etat'[l] = "active"
    BY <2>0, <2>3 DEF Sorte, Nouvelle
  <2>4. CASE l \in Defis
    <3>1. l = <<"defi", cible[p][2]>> /\ (CreerDefi(p) \/ EffacerDefi(p))
      BY <1>2, <2>4, DefisEcrits
    <3>2. CASE CreerDefi(p)
      BY <2>0, <3>1, <3>2 DEF CreerDefi, Poser, Sorte, Nouvelle, Formes, TypeOK, Ensemble
    <3>3. CASE EffacerDefi(p)
      BY <1>0, <3>1, <3>3 DEF EffacerDefi, Defi, Formes, TypeOK
    <3> QED BY <3>1, <3>2, <3>3
  <2> QED BY <1>0, <1>2, <2>1, <2>2, <2>3, <2>4, Ecriture DEF Ecrit
<1>3. CASE Purger
  <2>1. etat'[l] = etat[l] \/ etat'[l] = "effacee" BY <1>3 DEF Purger
  <2> QED BY <1>0, <2>1
<1>4. ASSUME NEW p \in Requetes, Arriver(p) PROVE etat'[l] = etat[l]
  BY <1>4 DEF Arriver, RecevoirDecision, RecevoirCode, RecevoirJeton, RecevoirRevocation, Recevoir,
     tables
<1>5. CASE UNCHANGED vars BY <1>1, <1>5 DEF vars, tables
<1> QED BY <1>1, <1>2, <1>3, <1>4, <1>5 DEF Next, Repos, Arriver

(* What is used, revoked or purged never comes back, whatever is rotated,  *)
(* replayed, revoked and purged at once (oauth.go, oauth_tx.go: no         *)
(* statement sets "active" to true but an INSERT of a new signature).      *)
THEOREM Irreversible == Spec => SansRetour
<1>1. Ensemble /\ [Next]_vars => [\A l \in Lignes : etat'[l] \in Devenirs[etat[l]]]_vars
  BY Vieillit
<1> QED BY <1>1, Coherente, PTL DEF Spec, SansRetour
=============================================================================

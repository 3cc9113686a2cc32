---------------------------- MODULE Acces_proofs ----------------------------
(* What TLAPS proves of Acces for any accounts, requests, commands and     *)
(* session tokens.                                                         *)
EXTENDS Acces, TLAPS

-----------------------------------------------------------------------------
(* Rows and commands. *)

DemandesPossibles ==
    [op : Operations, jeton : Jetons \cup {AucunJeton}, compte : Comptes \cup {Personne},
     mdp : MotsDePasse \cup {Personne}, besoin : Scopes, accordes : SUBSET Scopes]

LEMMA RienDemandeType == RienDemande \in DemandesPossibles
BY DEF RienDemande, DemandesPossibles, Operations, Scopes

LEMMA OrdreType ==
    ASSUME NEW o \in Ordres
    PROVE  /\ o.compte \in Comptes
           /\ o.op \in {"ajouter", "fermer", "rouvrir", "mot_de_passe", "role"}
           /\ o.op \in {"ajouter", "mot_de_passe"} => o.mdp \in MotsDePasse
           /\ o.op \in {"ajouter", "role"} => o.role \in Roles
BY DEF Ordres, Ordre

LEMMA InconnuAPart == Inconnu \notin Lignes
BY DEF Inconnu, Lignes, Roles

LEMMA ApresType ==
    ASSUME NEW o \in Ordres, NEW l, o.op = "ajouter" \/ l \in Lignes
    PROVE  Apres(o, l) \in Lignes
<1>1. CASE o.op = "ajouter"
  BY <1>1, OrdreType DEF Apres, Lignes
<1>2. CASE o.op = "fermer"
  BY <1>2 DEF Apres, Lignes
<1>3. CASE o.op = "rouvrir"
  BY <1>3 DEF Apres, Lignes
<1>4. CASE o.op = "mot_de_passe"
  BY <1>4, OrdreType DEF Apres, Lignes
<1>5. CASE o.op = "role"
  BY <1>5, OrdreType DEF Apres, Lignes
<1> QED
  BY <1>1, <1>2, <1>3, <1>4, <1>5, OrdreType

-----------------------------------------------------------------------------
LEMMA InitType == Init => TypeOK
BY RienDemandeType
DEF Init, TypeOK, RienCommande, Pas, DemandesPossibles

(* The part of the type that Repondre and Aller touch. *)
WebType ==
    /\ requete \in [Requetes -> DemandesPossibles]
    /\ session \in [Requetes -> Comptes \cup {Personne}]
    /\ jeton \in [Requetes -> Jetons \cup {AucunJeton}]
    /\ depuis \in [Requetes -> SUBSET (Lignes \cup {Inconnu})]
    /\ closeAvant \in [Requetes -> BOOLEAN]
    /\ pc \in [Requetes -> Pas]

TablesType ==
    /\ comptes \in [Comptes -> Lignes \cup {Inconnu}]
    /\ sessions \in [Jetons -> Comptes \cup {Personne}]
    /\ titulaire \in [Jetons -> Comptes \cup {Personne}]
    /\ close \in SUBSET Jetons

AdminType ==
    /\ commande \in [Commandes -> Ordres \cup {RienCommande}]
    /\ lue \in [Commandes -> Lignes \cup {Inconnu}]
    /\ etape \in [Commandes -> {"attente", "lire", "ecrire"}]

LEMMA TypeEnParts == TypeOK <=> WebType /\ TablesType /\ AdminType
BY DEF TypeOK, WebType, TablesType, AdminType, DemandesPossibles

LEMMA RepondreType == ASSUME WebType, NEW p \in Requetes, Repondre(p) PROVE WebType'
BY RienDemandeType DEF WebType, Repondre, Pas

LEMMA AllerType ==
    ASSUME WebType, NEW p \in Requetes, NEW pas \in Pas, Aller(p, pas) PROVE WebType'
BY DEF WebType, Aller

LEMMA ConclureType == ASSUME WebType, NEW p \in Requetes, Conclure(p) PROVE WebType'
<1> "sauver" \in Pas
  BY DEF Pas
<1> QED
  BY RepondreType, AllerType DEF Conclure

LEMMA RecevoirType ==
    ASSUME TypeOK, NEW p \in Requetes, NEW q \in DemandesPossibles, NEW pas \in Pas,
           Recevoir(p, q, pas)
    PROVE  WebType'
<1>1. q.jeton \in Jetons \cup {AucunJeton} /\ q.compte \in Comptes \cup {Personne}
  BY DEF DemandesPossibles
<1>2. RangDe(Vise(q)) \in SUBSET (Lignes \cup {Inconnu})
  BY DEF RangDe, TypeOK
<1> QED
  BY <1>1, <1>2, TypeEnParts DEF Recevoir, WebType

-----------------------------------------------------------------------------
(* The inductive invariant, request by request. *)

Droit(p) == pc[p] = "agir" =>
    /\ \E ligne \in depuis[p] : requete[p].besoin \in Droits(ligne)
    /\ requete[p].op = "page" => session[p] = Vise(requete[p])
    /\ requete[p].op = "agent" => {"mcp", requete[p].besoin} \subseteq requete[p].accordes

Connexion(p) == pc[p] = "sauver" /\ jeton[p] # requete[p].jeton =>
    /\ requete[p].op = "connexion"
    /\ session[p] = requete[p].compte
    /\ \E ligne \in depuis[p] : Reconnu(ligne, requete[p].mdp)
    /\ sessions[jeton[p]] = Personne
    /\ \A r \in Requetes \ {p} : jeton[r] # jeton[p]

Local(p) == SessionOk(p) /\ ParcoursOk(p) /\ TemoinOk(p) /\ Droit(p) /\ Connexion(p)

LEMMA CoherenceEnParts ==
    Coherence <=> /\ TitulaireSeul
                  /\ \A k \in Commandes : CommandeOk(k)
                  /\ \A p \in Requetes : Local(p)
BY DEF Coherence, Local, DroitsRecents, ConnexionFondee, Droit, Connexion

LEMMA InitCoherence == Init => Coherence
<1> SUFFICES ASSUME Init PROVE Coherence
  OBVIOUS
<1>1. ASSUME NEW p \in Requetes PROVE Local(p)
  <2>1. pc[p] = "attente" /\ session[p] = Personne /\ jeton[p] = AucunJeton /\ requete[p] = RienDemande
    BY DEF Init
  <2>2. RienDemande.op = "page" /\ RienDemande.jeton = AucunJeton
    BY DEF RienDemande
  <2> QED
    BY <2>1, <2>2 DEF Local, SessionOk, ParcoursOk, TemoinOk, Droit, Connexion
<1>2. TitulaireSeul
  BY DEF Init, TitulaireSeul
<1>3. \A k \in Commandes : CommandeOk(k)
  BY DEF Init, CommandeOk
<1> QED
  BY <1>1, <1>2, <1>3, CoherenceEnParts

(* What an action of p leaves to the other requests and to the commands.   *)
Discret(p) ==
    /\ \A r \in Requetes \ {p} :
          /\ requete'[r] = requete[r] /\ session'[r] = session[r] /\ jeton'[r] = jeton[r]
          /\ depuis'[r] = depuis[r] /\ pc'[r] = pc[r]
    /\ UNCHANGED <<comptes, admin>>
    /\ \A j \in Tires : titulaire'[j] = titulaire[j]
    /\ \A j \in Jetons : sessions'[j] \in {sessions[j], Personne} \/ j = jeton[p]
    /\ jeton'[p] \in {jeton[p], AucunJeton} \cup Cookies \cup (Jetons \ Tires)

LEMMA Cadre ==
    ASSUME TypeOK, Coherence, NEW p \in Requetes, Discret(p)
    PROVE  /\ \A r \in Requetes \ {p} : Local(r)'
           /\ \A k \in Commandes : CommandeOk(k)'
<1>1. ASSUME NEW k \in Commandes PROVE CommandeOk(k)'
  BY CoherenceEnParts DEF Discret, CommandeOk, admin
<1>2. ASSUME NEW r \in Requetes \ {p} PROVE Local(r)'
  <2> DEFINE q == requete[r]
  <2>1. /\ requete'[r] = q /\ session'[r] = session[r] /\ jeton'[r] = jeton[r]
        /\ depuis'[r] = depuis[r] /\ pc'[r] = pc[r] /\ comptes' = comptes
    BY DEF Discret
  <2>2. SessionOk(r) /\ ParcoursOk(r) /\ TemoinOk(r) /\ Droit(r) /\ Connexion(r)
    BY CoherenceEnParts DEF Local
  <2>3. \A j \in Jetons : titulaire[j] # Personne => titulaire'[j] = titulaire[j]
    BY DEF Discret, Tires
  <2>4. q \in DemandesPossibles /\ jeton[r] \in Jetons \cup {AucunJeton}
    BY DEF TypeOK, DemandesPossibles
  <2>5. q.jeton \in Jetons \cup {AucunJeton}
    BY <2>4 DEF DemandesPossibles
  <2>6. SessionOk(r)'
    BY <2>1, <2>2, <2>3, <2>5, AccesAssumption, PersonneAssumption DEF SessionOk
  <2>7. ParcoursOk(r)'
    BY <2>1, <2>2 DEF ParcoursOk
  <2>8. pc[r] # "attente" => Vise(q)' = Vise(q)
    BY <2>1, <2>2, <2>3, <2>5, AccesAssumption DEF Vise, SessionOk, ParcoursOk
  <2>9. TemoinOk(r)'
    BY <2>1, <2>2, <2>8 DEF TemoinOk, RangDe
  <2>10. Droit(r)'
    BY <2>1, <2>2, <2>8 DEF Droit
  <2>11. ASSUME pc[r] = "sauver", jeton[r] # q.jeton
         PROVE  /\ sessions'[jeton[r]] = Personne
                /\ \A s \in Requetes \ {r} : jeton'[s] # jeton[r]
    <3>1. /\ jeton[r] \in Jetons /\ titulaire[jeton[r]] # Personne
          /\ sessions[jeton[r]] = Personne
          /\ \A s \in Requetes \ {r} : jeton[s] # jeton[r]
      BY <2>2, <2>11 DEF SessionOk, ParcoursOk, Connexion
    <3>2. jeton[r] \in Tires /\ jeton[r] \notin Cookies
      BY <3>1, <2>11 DEF Tires, Cookies
    <3>3. jeton'[p] # jeton[r]
      BY <3>1, <3>2, AccesAssumption DEF Discret
    <3> QED
      BY <3>1, <3>3 DEF Discret
  <2>12. Connexion(r)'
    BY <2>1, <2>2, <2>11 DEF Connexion
  <2> QED
    BY <2>6, <2>7, <2>9, <2>10, <2>12 DEF Local
<1> QED
  BY <1>1, <1>2

LEMMA Suite ==
    ASSUME TypeOK, Coherence, NEW p \in Requetes, Discret(p), Local(p)', TitulaireSeul'
    PROVE  Coherence'
<1>1. ASSUME TitulaireSeul', \A k \in Commandes : CommandeOk(k)', \A r \in Requetes : Local(r)'
      PROVE  Coherence'
  BY <1>1 DEF Coherence, Local, DroitsRecents, ConnexionFondee, Droit, Connexion
<1>2. \A r \in Requetes : Local(r)'
  <2>1. ASSUME NEW r \in Requetes PROVE Local(r)'
    <3>1. CASE r = p
      BY <3>1
    <3>2. CASE r # p
      BY <3>2, Cadre
    <3> QED
      BY <3>1, <3>2
  <2> QED
    BY <2>1
<1> QED
  BY <1>1, <1>2, Cadre

-----------------------------------------------------------------------------
(* The type is preserved. *)

LEMMA TypeReuni == ASSUME WebType', TablesType', AdminType' PROVE TypeOK'
BY DEF TypeOK, WebType, TablesType, AdminType, DemandesPossibles

LEMMA DemandesType ==
    ASSUME NEW o \in {"page", "deconnexion"}, NEW j \in Jetons, NEW b \in {"devis", "finance"}
    PROVE  [RienDemande EXCEPT !.op = o, !.jeton = j, !.besoin = b] \in DemandesPossibles
BY DEF RienDemande, DemandesPossibles, Operations, Scopes

LEMMA ConnexionsType ==
    ASSUME NEW c \in Comptes, NEW m \in MotsDePasse, NEW j \in Jetons \cup {AucunJeton}
    PROVE  [RienDemande EXCEPT !.op = "connexion", !.jeton = j, !.compte = c, !.mdp = m]
               \in DemandesPossibles
BY DEF RienDemande, DemandesPossibles, Operations, Scopes

LEMMA AgentsType ==
    ASSUME NEW c \in Comptes, NEW b \in {"devis", "finance"}, NEW s \in SUBSET Scopes
    PROVE  [RienDemande EXCEPT !.op = "agent", !.compte = c, !.besoin = b, !.accordes = s]
               \in DemandesPossibles
BY DEF RienDemande, DemandesPossibles, Operations, Scopes

LEMMA FinirType == ASSUME AdminType, NEW k \in Commandes, Finir(k) PROVE AdminType'
BY DEF AdminType, Finir

LEMMA TypeRequete ==
    ASSUME TypeOK, Coherence, NEW p \in Requetes,
           RecevoirPage(p) \/ RecevoirConnexion(p) \/ RecevoirAgent(p)
             \/ Etape(p) \/ Echouer(p) \/ Abandonner(p)
    PROVE  TypeOK'
<1> /\ WebType /\ TablesType /\ AdminType
    /\ Local(p)
    /\ {"attente", "charger", "lire_compte", "agir", "authentifier", "renouveler",
        "detruire", "sauver", "introspecter"} \subseteq Pas
  BY TypeEnParts, CoherenceEnParts DEF Pas
<1>1. CASE RecevoirPage(p)
  <2>1. WebType'
    BY <1>1, DemandesType, RecevoirType DEF RecevoirPage, Cookies, Tires
  <2> QED
    BY <1>1, <2>1, TypeReuni DEF RecevoirPage, Recevoir, TablesType, AdminType, tables, admin
<1>2. CASE RecevoirConnexion(p)
  <2>1. WebType'
    BY <1>2, ConnexionsType, RecevoirType DEF RecevoirConnexion, Cookies, Tires
  <2> QED
    BY <1>2, <2>1, TypeReuni DEF RecevoirConnexion, Recevoir, TablesType, AdminType, tables, admin
<1>3. CASE RecevoirAgent(p)
  <2>1. WebType'
    BY <1>3, AgentsType, RecevoirType DEF RecevoirAgent
  <2> QED
    BY <1>3, <2>1, TypeReuni DEF RecevoirAgent, Recevoir, TablesType, AdminType, tables, admin
<1>4. ASSUME UNCHANGED <<tables, admin>>, WebType' PROVE TypeOK'
  BY <1>4, TypeReuni DEF TablesType, AdminType, tables, admin
<1>5. CASE Charger(p)
  <2> DEFINE lu == IF jeton[p] = AucunJeton THEN Personne ELSE sessions[jeton[p]]
  <2>1. lu \in Comptes \cup {Personne}
    BY DEF WebType, TablesType
  <2>2. CASE Repondre(p)
    BY <1>5, <2>2, <1>4, RepondreType DEF Charger
  <2>3. CASE ~Repondre(p)
    <3>1. /\ session' = [session EXCEPT ![p] = lu]
          /\ pc' = [pc EXCEPT ![p] = "authentifier"] \/ pc' = [pc EXCEPT ![p] = "lire_compte"]
          /\ UNCHANGED <<requete, jeton, depuis, closeAvant>>
      BY <1>5, <2>3 DEF Charger
    <3>2. WebType'
      BY <2>1, <3>1 DEF WebType
    <3> QED
      BY <1>5, <3>2, <1>4 DEF Charger
  <2> QED
    BY <2>2, <2>3
<1>6. CASE Introspecter(p)
  BY <1>6, <1>4, AllerType, RepondreType DEF Introspecter
<1>7. CASE LireCompte(p)
  BY <1>7, <1>4, AllerType, ConclureType DEF LireCompte
<1>8. CASE LireComptePorteur(p)
  BY <1>8, <1>4, AllerType, RepondreType DEF LireComptePorteur
<1>9. CASE Agir(p) \/ Bloquer(p) \/ Echouer(p)
  BY <1>9, <1>4, ConclureType DEF Agir, Bloquer, Echouer
<1>10. CASE Authentifier(p)
  BY <1>10, <1>4, AllerType, ConclureType DEF Authentifier
<1>11. CASE Abandonner(p)
  BY <1>11, <1>4, RepondreType DEF Abandonner
<1>12. CASE Renouveler(p)
  <2>1. requete[p].compte \in Comptes \cup {Personne}
    BY DEF WebType, DemandesPossibles
  <2>2. WebType'
    BY <1>12, <2>1 DEF Renouveler, WebType
  <2>3. TablesType'
    BY <1>12, <2>1 DEF Renouveler, TablesType, Tires
  <2> QED
    BY <1>12, <2>2, <2>3, TypeReuni DEF Renouveler, AdminType, admin
<1>13. CASE Detruire(p)
  <2>1. jeton[p] \in Jetons
    BY <1>13 DEF Detruire, Local, SessionOk, ParcoursOk
  <2>2. TablesType'
    BY <1>13, <2>1 DEF Detruire, TablesType
  <2> QED
    BY <1>13, <2>2, RepondreType, TypeReuni DEF Detruire, AdminType, admin
<1>14. CASE Sauver(p)
  <2>1. TablesType'
    BY <1>14 DEF Sauver, TablesType, WebType
  <2> QED
    BY <1>14, <2>1, RepondreType, TypeReuni DEF Sauver, AdminType, admin
<1> QED
  BY <1>1, <1>2, <1>3, <1>5, <1>6, <1>7, <1>8, <1>9, <1>10, <1>11, <1>12, <1>13, <1>14 DEF Etape

(* What a command writes is a row. *)
LEMMA CommandeEcrit ==
    ASSUME TypeOK, NEW k \in Commandes, CommandeOk(k), etape[k] = "ecrire"
    PROVE  /\ commande[k] \in Ordres
           /\ commande[k].compte \in Comptes
           /\ Apres(commande[k], lue[k]) \in Lignes
<1>1. commande[k] \in Ordres
  BY AccesAssumption DEF CommandeOk
<1>2. commande[k].op = "ajouter" \/ lue[k] \in Lignes
  BY DEF CommandeOk, TypeOK
<1> QED
  BY <1>1, <1>2, OrdreType, ApresType

LEMMA TemoignerType ==
    ASSUME WebType, TablesType', Temoigner,
           UNCHANGED <<requete, session, jeton, closeAvant, pc>>
    PROVE  WebType'
BY DEF WebType, TablesType, Temoigner

LEMMA TypeCommande ==
    ASSUME TypeOK, Coherence, NEW k \in Commandes,
           Commander(k) \/ LireCible(k) \/ Ecrire(k) \/ Interrompre(k)
    PROVE  TypeOK'
<1> WebType /\ TablesType /\ AdminType /\ CommandeOk(k)
  BY TypeEnParts, CoherenceEnParts
<1>1. ASSUME UNCHANGED <<tables, web>>, AdminType' PROVE TypeOK'
  BY <1>1, TypeReuni DEF TablesType, WebType, tables, web
<1>2. CASE Commander(k)
  <2>1. AdminType'
    BY <1>2, AccesAssumption DEF Commander, AdminType
  <2> QED
    BY <1>2, <1>1, <2>1 DEF Commander
<1>3. CASE LireCible(k)
  <2>1. commande[k] \in Ordres
    BY <1>3, AccesAssumption DEF LireCible, CommandeOk
  <2>2. comptes[commande[k].compte] \in Lignes \cup {Inconnu}
    BY <2>1, OrdreType DEF TablesType
  <2>3. AdminType'
    BY <1>3, <2>2, FinirType DEF LireCible, AdminType
  <2> QED
    BY <1>3, <1>1, <2>3 DEF LireCible
<1>4. CASE Ecrire(k)
  <2>1. TablesType'
    BY <1>4, CommandeEcrit DEF Ecrire, TablesType
  <2>2. WebType'
    BY <1>4, <2>1, TemoignerType DEF Ecrire, WebType
  <2> QED
    BY <1>4, <2>1, <2>2, FinirType, TypeReuni DEF Ecrire
<1>5. CASE Interrompre(k)
  BY <1>5, <1>1, FinirType DEF Interrompre
<1> QED
  BY <1>2, <1>3, <1>4, <1>5

LEMMA TypeSuivant == TypeOK /\ Coherence /\ [Next]_vars => TypeOK'
<1> SUFFICES ASSUME TypeOK, Coherence, [Next]_vars PROVE TypeOK'
  OBVIOUS
<1>1. ASSUME NEW j \in Jetons, Expirer(j) PROVE TypeOK'
  BY <1>1 DEF Expirer, TypeOK, web, admin
<1>2. CASE UNCHANGED vars
  BY <1>2 DEF TypeOK, vars, tables, web, admin
<1> QED
  BY <1>1, <1>2, TypeRequete, TypeCommande DEF Next

-----------------------------------------------------------------------------
(* Coherence is preserved by the requests. *)

LEMMA MemesTables == ASSUME Coherence, UNCHANGED tables PROVE TitulaireSeul'
BY DEF Coherence, TitulaireSeul, tables

(* A request that has been answered relies on nothing. *)
LEMMA AuRepos ==
    ASSUME TypeOK, NEW p \in Requetes, Repondre(p)
    PROVE  Local(p)'
<1>1. /\ pc'[p] = "attente" /\ session'[p] = Personne
      /\ jeton'[p] = AucunJeton /\ requete'[p] = RienDemande
  BY DEF TypeOK, Repondre
<1>2. RienDemande.op = "page" /\ RienDemande.jeton = AucunJeton
  BY DEF RienDemande
<1> QED
  BY <1>1, <1>2 DEF Local, SessionOk, ParcoursOk, TemoinOk, Droit, Connexion

LEMMA Fini ==
    ASSUME TypeOK, Coherence, NEW p \in Requetes, Repondre(p), TitulaireSeul',
           UNCHANGED <<comptes, titulaire, admin>>,
           \A j \in Jetons : sessions'[j] \in {sessions[j], Personne} \/ j = jeton[p]
    PROVE  Coherence'
<1>1. Discret(p)
  BY DEF Discret, Repondre, TypeOK
<1> QED
  BY <1>1, AuRepos, Suite

LEMMA FiniSansEcrire ==
    ASSUME TypeOK, Coherence, NEW p \in Requetes, Repondre(p), UNCHANGED <<tables, admin>>
    PROVE  Coherence'
BY Fini, MemesTables DEF tables

(* A step that only moves the program counter. *)
LEMMA Avance ==
    ASSUME TypeOK, Coherence, NEW p \in Requetes, NEW pas \in Pas, Aller(p, pas),
           UNCHANGED <<tables, admin>>, Local(p)'
    PROVE  Coherence'
<1>1. Discret(p)
  BY DEF Discret, Aller, TypeOK, tables
<1> QED
  BY <1>1, MemesTables, Suite

(* What Aller keeps for its own request. *)
LEMMA AllerGarde ==
    ASSUME TypeOK, NEW p \in Requetes, NEW pas \in Pas, Aller(p, pas), UNCHANGED tables
    PROVE  /\ pc'[p] = pas
           /\ requete'[p] = requete[p] /\ session'[p] = session[p] /\ jeton'[p] = jeton[p]
           /\ depuis'[p] = depuis[p] /\ comptes' = comptes /\ titulaire' = titulaire
           /\ Vise(requete[p])' = Vise(requete[p])
           /\ RangDe(Vise(requete[p]))' = RangDe(Vise(requete[p]))
<1>1. pc'[p] = pas /\ UNCHANGED <<requete, session, jeton, depuis, comptes, titulaire>>
  BY DEF Aller, TypeOK, tables
<1> QED
  BY <1>1 DEF Vise, RangDe

LEMMA Conclusion ==
    ASSUME TypeOK, Coherence, NEW p \in Requetes, pc[p] \notin {"attente", "sauver"},
           Conclure(p), UNCHANGED <<tables, admin>>
    PROVE  Coherence'
<1>1. CASE Repondre(p)
  BY <1>1, FiniSansEcrire
<1>2. CASE session[p] # Personne /\ Aller(p, "sauver")
  <2> "sauver" \in Pas
    BY DEF Pas
  <2>1. Local(p)
    BY CoherenceEnParts
  <2>2. Local(p)'
    BY <1>2, <2>1, AllerGarde DEF Local, SessionOk, ParcoursOk, TemoinOk, Droit, Connexion
  <2> QED
    BY <1>2, <2>2, Avance
<1> QED
  BY <1>1, <1>2 DEF Conclure

(* A request comes in, with no token or one of a cookie. *)
LEMMA Arrivee ==
    ASSUME TypeOK, Coherence, NEW p \in Requetes, NEW q \in DemandesPossibles,
           NEW pas \in {"charger", "introspecter"}, Recevoir(p, q, pas),
           q.jeton \in Cookies \cup {AucunJeton},
           pas = "introspecter" <=> q.op = "agent",
           q.op = "agent" => q.jeton = AucunJeton,
           IF q.op \in {"connexion", "agent"} THEN q.compte \in Comptes ELSE q.jeton \in Jetons
    PROVE  Coherence'
<1>1. Local(p) /\ session[p] = Personne
  BY CoherenceEnParts DEF Recevoir, Local, SessionOk
<1>2. /\ pc'[p] = pas /\ requete'[p] = q /\ session'[p] = Personne /\ jeton'[p] = q.jeton
      /\ depuis'[p] = RangDe(Vise(q)) /\ UNCHANGED <<comptes, sessions, titulaire>>
  BY <1>1 DEF Recevoir, TypeOK, tables
<1>3. RangDe(Vise(q))' = RangDe(Vise(q))
  BY <1>2 DEF RangDe, Vise
<1>4. q.jeton # AucunJeton => titulaire[q.jeton] # Personne
  BY DEF Cookies, Tires
<1>5. Local(p)'
  BY <1>2, <1>3, <1>4 DEF Local, SessionOk, ParcoursOk, TemoinOk, Droit, Connexion
<1>6. Discret(p)
  BY <1>2 DEF Discret, Recevoir, TypeOK
<1> QED
  BY <1>5, <1>6, MemesTables, Suite DEF Recevoir

LEMMA CoherenceRecevoir ==
    ASSUME TypeOK, Coherence, NEW p \in Requetes,
           RecevoirPage(p) \/ RecevoirConnexion(p) \/ RecevoirAgent(p)
    PROVE  Coherence'
<1>1. CASE RecevoirPage(p)
  <2>1. PICK o \in Demandes \cap {"page", "deconnexion"}, j \in Cookies, b \in {"devis", "finance"} :
           Recevoir(p, [RienDemande EXCEPT !.op = o, !.jeton = j, !.besoin = b], "charger")
    BY <1>1 DEF RecevoirPage
  <2> DEFINE q == [RienDemande EXCEPT !.op = o, !.jeton = j, !.besoin = b]
  <2>2. q \in DemandesPossibles /\ q.op = o /\ q.jeton = j /\ q.jeton \in Jetons
    BY DemandesType DEF Cookies, Tires, RienDemande
  <2> HIDE DEF q
  <2> QED
    BY <2>1, <2>2, Arrivee DEF q
<1>2. CASE RecevoirConnexion(p)
  <2>1. PICK c \in Comptes, m \in MotsDePasse, j \in Cookies \cup {AucunJeton} :
           Recevoir(p, [RienDemande EXCEPT !.op = "connexion", !.jeton = j,
                                           !.compte = c, !.mdp = m], "charger")
    BY <1>2 DEF RecevoirConnexion
  <2> DEFINE q == [RienDemande EXCEPT !.op = "connexion", !.jeton = j, !.compte = c, !.mdp = m]
  <2>2. q \in DemandesPossibles /\ q.op = "connexion" /\ q.jeton = j /\ q.compte = c
    BY ConnexionsType DEF Cookies, Tires, RienDemande
  <2> QED
    BY <2>1, <2>2, Arrivee
<1>3. CASE RecevoirAgent(p)
  <2>1. PICK c \in Comptes, b \in {"devis", "finance"}, s \in SUBSET Scopes :
           Recevoir(p, [RienDemande EXCEPT !.op = "agent", !.compte = c,
                                           !.besoin = b, !.accordes = s], "introspecter")
    BY <1>3 DEF RecevoirAgent
  <2> DEFINE q == [RienDemande EXCEPT !.op = "agent", !.compte = c, !.besoin = b, !.accordes = s]
  <2>2. q \in DemandesPossibles /\ q.op = "agent" /\ q.jeton = AucunJeton /\ q.compte = c
    BY AgentsType DEF RienDemande
  <2> QED
    BY <2>1, <2>2, Arrivee
<1> QED
  BY <1>1, <1>2, <1>3

LEMMA CoherenceCharger ==
    ASSUME TypeOK, Coherence, NEW p \in Requetes, Charger(p) PROVE Coherence'
<1> DEFINE lu == IF jeton[p] = AucunJeton THEN Personne ELSE sessions[jeton[p]]
<1>1. CASE Repondre(p)
  BY <1>1, FiniSansEcrire DEF Charger
<1>2. CASE ~Repondre(p)
  <2>1. /\ session' = [session EXCEPT ![p] = lu]
        /\ \/ requete[p].op = "connexion" /\ pc' = [pc EXCEPT ![p] = "authentifier"]
           \/ requete[p].op # "connexion" /\ lu # Personne /\ pc' = [pc EXCEPT ![p] = "lire_compte"]
        /\ UNCHANGED <<requete, jeton, depuis, closeAvant, tables, admin>>
    BY <1>2 DEF Charger
  <2>2. Local(p) /\ TitulaireSeul /\ pc[p] = "charger"
    BY CoherenceEnParts DEF Charger
  <2>3. jeton[p] \in Jetons \cup {AucunJeton} /\ jeton[p] = requete[p].jeton
    BY <2>2 DEF TypeOK, Local, SessionOk
  <2>4. lu # Personne => jeton[p] \in Jetons /\ titulaire[jeton[p]] = lu
    BY <2>2, <2>3 DEF TitulaireSeul
  <2>5. /\ session'[p] = lu /\ requete'[p] = requete[p] /\ jeton'[p] = jeton[p]
        /\ depuis'[p] = depuis[p] /\ comptes' = comptes /\ titulaire' = titulaire
        /\ \/ requete[p].op = "connexion" /\ pc'[p] = "authentifier"
           \/ requete[p].op # "connexion" /\ lu # Personne /\ pc'[p] = "lire_compte"
    BY <2>1 DEF TypeOK, tables
  <2>6. RangDe(Vise(requete[p]))' = RangDe(Vise(requete[p]))
    BY <2>1 DEF RangDe, Vise, tables
  <2>7. Local(p)'
    <3>1. SessionOk(p)'
      BY <2>2, <2>3, <2>4, <2>5 DEF Local, SessionOk
    <3>2. ParcoursOk(p)'
      BY <2>2, <2>5 DEF Local, ParcoursOk
    <3>3. TemoinOk(p)'
      BY <2>2, <2>5, <2>6 DEF Local, TemoinOk
    <3> QED
      BY <2>5, <3>1, <3>2, <3>3 DEF Local, Droit, Connexion
  <2>8. Discret(p)
    BY <2>1 DEF Discret, TypeOK, tables
  <2> QED
    BY <2>1, <2>7, <2>8, MemesTables, Suite
<1> QED
  BY <1>1, <1>2

(* The account a session names is the one its cookie was given to. *)
LEMMA MemeCompte ==
    ASSUME Coherence, NEW p \in Requetes, pc[p] = "lire_compte",
           requete[p].op \in {"page", "deconnexion"}
    PROVE  /\ session[p] # Personne /\ Vise(requete[p]) = session[p]
           /\ session[p] \in Comptes => comptes[session[p]] \in depuis[p]
<1>1. Local(p)
  BY CoherenceEnParts
<1>2. session[p] # Personne /\ jeton[p] = requete[p].jeton /\ titulaire[jeton[p]] = session[p]
      /\ jeton[p] \in Jetons
  BY <1>1 DEF Local, SessionOk, ParcoursOk
<1>3. Vise(requete[p]) = session[p]
  BY <1>2, AccesAssumption DEF Vise
<1> QED
  BY <1>1, <1>2, <1>3 DEF Local, TemoinOk, RangDe

LEMMA CoherenceLireCompte ==
    ASSUME TypeOK, Coherence, NEW p \in Requetes, LireCompte(p) PROVE Coherence'
<1> {"agir", "detruire"} \subseteq Pas
  BY DEF Pas
<1>1. Local(p) /\ pc[p] = "lire_compte" /\ requete[p].op \in {"page", "deconnexion"}
      /\ UNCHANGED <<tables, admin>>
  BY CoherenceEnParts DEF LireCompte
<1>2. CASE Conclure(p)
  BY <1>1, <1>2, Conclusion
<1>3. CASE Aller(p, "detruire")
  <2>1. Local(p)'
    BY <1>1, <1>3, AllerGarde, MemeCompte
       DEF Local, SessionOk, ParcoursOk, TemoinOk, Droit, Connexion
  <2> QED
    BY <1>1, <1>3, <2>1, Avance
<1>4. CASE requete[p].op = "page" /\ requete[p].besoin \in Droits(comptes[session[p]]) /\ Aller(p, "agir")
  <2>1. session[p] \in Comptes
    BY <1>1, MemeCompte DEF TypeOK
  <2>2. \E ligne \in depuis[p] : requete[p].besoin \in Droits(ligne)
    BY <1>1, <1>4, <2>1, MemeCompte
  <2>3. Local(p)'
    <3>1. SessionOk(p)' /\ ParcoursOk(p)' /\ TemoinOk(p)'
      BY <1>1, <1>4, AllerGarde DEF Local, SessionOk, ParcoursOk, TemoinOk
    <3>2. Droit(p)'
      BY <1>1, <1>4, <2>2, AllerGarde, MemeCompte DEF Droit
    <3>3. Connexion(p)'
      BY <1>1, <1>4, AllerGarde DEF Connexion
    <3> QED
      BY <3>1, <3>2, <3>3 DEF Local
  <2> QED
    BY <1>1, <1>4, <2>3, Avance
<1> QED
  BY <1>2, <1>3, <1>4 DEF LireCompte

LEMMA CoherencePorteur ==
    ASSUME TypeOK, Coherence, NEW p \in Requetes,
           Introspecter(p) \/ LireComptePorteur(p)
    PROVE  Coherence'
<1> {"agir", "lire_compte"} \subseteq Pas
  BY DEF Pas
<1>1. Local(p) /\ UNCHANGED <<tables, admin>>
  BY CoherenceEnParts DEF Introspecter, LireComptePorteur
<1>2. CASE Repondre(p)
  BY <1>1, <1>2, FiniSansEcrire
<1>3. CASE pc[p] = "introspecter" /\ Aller(p, "lire_compte")
  <2>1. Local(p)'
    BY <1>1, <1>3, AllerGarde DEF Local, SessionOk, ParcoursOk, TemoinOk, Droit, Connexion
  <2> QED
    BY <1>1, <1>3, <2>1, Avance
<1>4. CASE /\ pc[p] = "lire_compte" /\ requete[p].op = "agent" /\ Aller(p, "agir")
           /\ {"mcp", requete[p].besoin}
                \subseteq DroitsDuJeton(comptes[requete[p].compte], requete[p].accordes)
  <2>1. requete[p].compte \in Comptes /\ Vise(requete[p]) = requete[p].compte
    <3>1. requete[p].compte \in Comptes
      BY <1>1, <1>4 DEF Local, ParcoursOk
    <3> QED
      BY <1>4, <3>1 DEF Vise
  <2>2. comptes[requete[p].compte] \in depuis[p]
    BY <1>1, <1>4, <2>1 DEF Local, TemoinOk, RangDe
  <2>3. /\ \E ligne \in depuis[p] : requete[p].besoin \in Droits(ligne)
        /\ {"mcp", requete[p].besoin} \subseteq requete[p].accordes
    BY <1>4, <2>2 DEF DroitsDuJeton
  <2>4. SessionOk(p)' /\ ParcoursOk(p)' /\ TemoinOk(p)' /\ Connexion(p)'
    BY <1>1, <1>4, AllerGarde DEF Local, SessionOk, ParcoursOk, TemoinOk, Connexion
  <2>5. Droit(p)'
    BY <1>1, <1>4, <2>3, AllerGarde DEF Droit
  <2> QED
    BY <1>1, <1>4, <2>4, <2>5, Avance DEF Local
<1> QED
  BY <1>2, <1>3, <1>4 DEF Introspecter, LireComptePorteur

LEMMA CoherenceAuthentifier ==
    ASSUME TypeOK, Coherence, NEW p \in Requetes, Authentifier(p) PROVE Coherence'
<1> "renouveler" \in Pas
  BY DEF Pas
<1>1. Local(p) /\ pc[p] = "authentifier" /\ UNCHANGED <<tables, admin>>
  BY CoherenceEnParts DEF Authentifier
<1>2. CASE Conclure(p)
  BY <1>1, <1>2, Conclusion
<1>3. CASE Reconnu(comptes[requete[p].compte], requete[p].mdp) /\ Aller(p, "renouveler")
  <2>1. requete[p].compte \in Comptes /\ Vise(requete[p]) = requete[p].compte
    <3>1. requete[p].compte \in Comptes /\ requete[p].op = "connexion"
      BY <1>1 DEF Local, ParcoursOk
    <3> QED
      BY <3>1 DEF Vise
  <2>2. \E ligne \in depuis[p] : Reconnu(ligne, requete[p].mdp)
    BY <1>1, <1>3, <2>1 DEF Local, TemoinOk, RangDe
  <2>3. SessionOk(p)' /\ ParcoursOk(p)' /\ Droit(p)' /\ Connexion(p)'
    BY <1>1, <1>3, AllerGarde DEF Local, SessionOk, ParcoursOk, Droit, Connexion
  <2>4. TemoinOk(p)'
    BY <1>1, <1>3, <2>2, AllerGarde DEF Local, TemoinOk
  <2> QED
    BY <1>1, <1>3, <2>3, <2>4, Avance DEF Local
<1> QED
  BY <1>2, <1>3 DEF Authentifier

(* A request only carries a token that has been drawn. *)
LEMMA JetonTire ==
    ASSUME TypeOK, Coherence, NEW r \in Requetes
    PROVE  jeton[r] \in Tires \cup {AucunJeton}
<1>1. Local(r) /\ jeton[r] \in Jetons \cup {AucunJeton}
  BY CoherenceEnParts DEF TypeOK
<1>2. RienDemande.jeton = AucunJeton
  BY DEF RienDemande
<1>3. session[r] # Personne => titulaire[jeton[r]] # Personne
  BY <1>1 DEF Local, SessionOk
<1>4. session[r] = Personne => jeton[r] = requete[r].jeton
  BY <1>1 DEF Local, SessionOk, ParcoursOk
<1>5. session[r] = Personne /\ jeton[r] # AucunJeton => titulaire[jeton[r]] # Personne
  BY <1>1, <1>2, <1>4 DEF Local, SessionOk, ParcoursOk
<1> QED
  BY <1>1, <1>3, <1>5 DEF Tires

LEMMA CoherenceRenouveler ==
    ASSUME TypeOK, Coherence, NEW p \in Requetes, Renouveler(p) PROVE Coherence'
<1> DEFINE c == requete[p].compte
<1>1. PICK j \in Jetons \ Tires : /\ titulaire' = [titulaire EXCEPT ![j] = c]
                                  /\ jeton' = [jeton EXCEPT ![p] = j]
  BY DEF Renouveler
<1>2. Local(p) /\ TitulaireSeul /\ pc[p] = "renouveler"
  BY CoherenceEnParts DEF Renouveler
<1>3. c \in Comptes /\ c # Personne /\ requete[p].op = "connexion"
  BY <1>2, PersonneAssumption DEF Local, ParcoursOk
<1>4. /\ jeton'[p] = j /\ titulaire'[j] = c
      /\ \A i \in Jetons \ {j} : titulaire'[i] = titulaire[i]
  BY <1>1 DEF TypeOK
<1>5. /\ session'[p] = c /\ pc'[p] = "sauver"
      /\ UNCHANGED <<requete, depuis, comptes>>
  BY DEF Renouveler, TypeOK
<1>6. \A i \in Jetons : sessions'[i] = Personne \/ sessions'[i] = sessions[i]
  BY DEF Renouveler, TypeOK
<1>7. sessions'[j] = Personne
  BY <1>2, <1>6 DEF TitulaireSeul, Tires
<1>8. \A r \in Requetes \ {p} : jeton'[r] # j
  BY <1>1, JetonTire, AccesAssumption DEF TypeOK
<1>9. TitulaireSeul'
  BY <1>2, <1>4, <1>6, <1>7 DEF TitulaireSeul
<1>10. Discret(p)
  BY <1>1, <1>4, <1>6 DEF Discret, Renouveler, TypeOK, Tires
<1>11. Local(p)'
  <2>1. requete[p].jeton \in Jetons \cup {AucunJeton}
    BY DEF TypeOK
  <2>2. SessionOk(p)'
    BY <1>2, <1>3, <1>4, <1>5, <2>1 DEF Local, SessionOk
  <2>3. ParcoursOk(p)'
    BY <1>3, <1>5 DEF ParcoursOk
  <2>4. RangDe(Vise(requete[p]))' = RangDe(Vise(requete[p]))
    BY <1>3, <1>5 DEF Vise, RangDe
  <2>5. TemoinOk(p)'
    BY <1>2, <1>5, <2>4 DEF Local, TemoinOk
  <2>6. \E ligne \in depuis[p] : Reconnu(ligne, requete[p].mdp)
    BY <1>2 DEF Local, TemoinOk
  <2>7. Connexion(p)'
    BY <1>3, <1>4, <1>5, <1>7, <1>8, <2>6 DEF Connexion
  <2> QED
    BY <1>5, <2>2, <2>3, <2>5, <2>7 DEF Local, Droit
<1> QED
  BY <1>9, <1>10, <1>11, Suite

LEMMA CoherenceDetruire ==
    ASSUME TypeOK, Coherence, NEW p \in Requetes, Detruire(p) PROVE Coherence'
<1>1. TitulaireSeul'
  BY DEF Detruire, Coherence, TitulaireSeul, TypeOK
<1> QED
  BY <1>1, Fini DEF Detruire, TypeOK

LEMMA CoherenceSauver ==
    ASSUME TypeOK, Coherence, NEW p \in Requetes, Sauver(p) PROVE Coherence'
<1>1. Local(p) /\ TitulaireSeul
  BY CoherenceEnParts
<1>2. titulaire[jeton[p]] = session[p]
  BY <1>1 DEF Sauver, Local, SessionOk, ParcoursOk
<1>3. TitulaireSeul'
  BY <1>1, <1>2 DEF Sauver, TitulaireSeul, TypeOK
<1> QED
  BY <1>3, Fini DEF Sauver, TypeOK

LEMMA CoherenceRequete ==
    ASSUME TypeOK, Coherence, NEW p \in Requetes,
           RecevoirPage(p) \/ RecevoirConnexion(p) \/ RecevoirAgent(p)
             \/ Etape(p) \/ Echouer(p) \/ Abandonner(p)
    PROVE  Coherence'
<1>1. CASE Agir(p) \/ Bloquer(p) \/ Echouer(p)
  BY <1>1, Conclusion DEF Agir, Bloquer, Echouer
<1>2. CASE Abandonner(p)
  BY <1>2, FiniSansEcrire DEF Abandonner
<1> QED
  BY <1>1, <1>2, CoherenceRecevoir, CoherenceCharger, CoherenceLireCompte, CoherencePorteur,
     CoherenceAuthentifier, CoherenceRenouveler, CoherenceDetruire, CoherenceSauver DEF Etape

LEMMA CoherenceExpirer ==
    ASSUME TypeOK, Coherence, NEW i \in Jetons, Expirer(i) PROVE Coherence'
<1>1. \A j \in Jetons : sessions'[j] = sessions[j] \/ sessions'[j] = Personne
  BY DEF Expirer, TypeOK
<1>2. UNCHANGED <<comptes, titulaire, requete, session, jeton, depuis, pc, admin>>
  BY DEF Expirer, web
<1>3. ASSUME NEW r \in Requetes PROVE Local(r)'
  <2>1. Local(r)
    BY CoherenceEnParts
  <2>2. SessionOk(r)' /\ ParcoursOk(r)'
    BY <1>2, <2>1 DEF Local, SessionOk, ParcoursOk
  <2>3. TemoinOk(r)' /\ Droit(r)'
    BY <1>2, <2>1 DEF Local, TemoinOk, Droit, Vise, RangDe
  <2>4. Connexion(r)'
    BY <1>1, <1>2, <2>1 DEF Local, SessionOk, ParcoursOk, Connexion
  <2> QED
    BY <2>2, <2>3, <2>4 DEF Local
<1>4. TitulaireSeul'
  BY <1>1, <1>2 DEF Coherence, TitulaireSeul
<1>5. \A k \in Commandes : CommandeOk(k)'
  BY <1>2 DEF Coherence, CommandeOk, admin
<1> QED
  BY <1>3, <1>4, <1>5 DEF Coherence, Local, DroitsRecents, ConnexionFondee, Droit, Connexion

-----------------------------------------------------------------------------
(* Coherence is preserved by the commands. *)

(* What an action of k leaves to the other commands. *)
Seule(k) == \A m \in Commandes \ {k} :
    commande'[m] = commande[m] /\ lue'[m] = lue[m] /\ etape'[m] = etape[m]

LEMMA CommandeSansEcrire ==
    ASSUME TypeOK, Coherence, NEW k \in Commandes, Seule(k), CommandeOk(k)',
           UNCHANGED <<tables, web>>
    PROVE  Coherence'
<1>1. ASSUME NEW r \in Requetes PROVE Local(r)'
  <2>1. Local(r)
    BY CoherenceEnParts
  <2> QED
    BY <2>1 DEF Local, SessionOk, ParcoursOk, TemoinOk, Droit, Connexion, Vise, RangDe, tables, web
<1>2. \A m \in Commandes : CommandeOk(m)'
  BY DEF Seule, Coherence, CommandeOk, tables
<1> QED
  BY <1>1, <1>2, MemesTables
     DEF Coherence, Local, DroitsRecents, ConnexionFondee, Droit, Connexion

LEMMA FinirSeule ==
    ASSUME TypeOK, NEW k \in Commandes, Finir(k) PROVE Seule(k) /\ CommandeOk(k)'
BY DEF TypeOK, Finir, Seule, CommandeOk

LEMMA CoherenceCommande ==
    ASSUME TypeOK, Coherence, NEW k \in Commandes,
           Commander(k) \/ LireCible(k) \/ Interrompre(k)
    PROVE  Coherence'
<1>1. CASE Commander(k)
  <2>1. Seule(k) /\ CommandeOk(k)'
    BY <1>1 DEF Commander, Seule, CommandeOk, TypeOK
  <2> QED
    BY <1>1, <2>1, CommandeSansEcrire DEF Commander
<1>2. CASE Finir(k) /\ UNCHANGED <<tables, web>>
  BY <1>2, FinirSeule, CommandeSansEcrire
<1>3. CASE LireCible(k) /\ ~Finir(k)
  <2>1. Seule(k) /\ CommandeOk(k)'
    BY <1>3 DEF LireCible, Seule, Coherence, CommandeOk, TypeOK, tables
  <2> QED
    BY <1>3, <2>1, CommandeSansEcrire DEF LireCible
<1> QED
  BY <1>1, <1>2, <1>3 DEF LireCible, Interrompre

LEMMA CoherenceEcrire ==
    ASSUME TypeOK, Coherence, NEW k \in Commandes, Ecrire(k) PROVE Coherence'
<1> DEFINE c == commande[k].compte
<1>1. Seule(k) /\ CommandeOk(k)'
  BY FinirSeule DEF Ecrire
<1>2. CASE UNCHANGED <<comptes, close, depuis>>
  <2>1. UNCHANGED <<tables, web>>
    BY <1>2 DEF Ecrire, tables, web
  <2> QED
    BY <1>1, <2>1, CommandeSansEcrire
<1>3. CASE comptes' = [comptes EXCEPT ![c] = Apres(commande[k], lue[k])] /\ Temoigner
  <2>1. CommandeOk(k) /\ c \in Comptes /\ Apres(commande[k], lue[k]) \in Lignes
    BY CoherenceEnParts, CommandeEcrit DEF Ecrire
  <2>2. UNCHANGED <<sessions, titulaire, requete, session, jeton, pc>>
    BY DEF Ecrire
  <2>3. \A d \in Comptes : comptes[d] # Inconnu => comptes'[d] # Inconnu
    BY <1>3, <2>1, InconnuAPart DEF TypeOK
  <2>4. ASSUME NEW m \in Commandes PROVE CommandeOk(m)'
    <3>1. CASE m = k
      BY <1>1, <3>1
    <3>2. CASE m # k
      <4>1. CommandeOk(m)
        BY CoherenceEnParts
      <4>2. etape[m] # "attente" => commande[m].compte \in Comptes
        BY <4>1, OrdreType, AccesAssumption DEF CommandeOk
      <4> QED
        BY <1>1, <2>3, <3>2, <4>1, <4>2 DEF CommandeOk, Seule
    <3> QED
      BY <3>1, <3>2
  <2>5. ASSUME NEW r \in Requetes PROVE Local(r)'
    <3>1. Local(r)
      BY CoherenceEnParts
    <3>2. pc[r] # "attente" =>
            /\ depuis[r] \subseteq depuis'[r]
            /\ \A d \in {Vise(requete[r])} \cap Comptes : comptes'[d] \in depuis'[r]
      BY <1>3 DEF Temoigner
    <3>3. Vise(requete[r])' = Vise(requete[r])
      BY <2>2 DEF Vise
    <3>4. SessionOk(r)' /\ ParcoursOk(r)'
      BY <2>2, <3>1 DEF Local, SessionOk, ParcoursOk
    <3>5. TemoinOk(r)'
      BY <2>2, <3>1, <3>2, <3>3 DEF Local, TemoinOk, RangDe
    <3>6. Droit(r)'
      BY <2>2, <3>1, <3>2, <3>3 DEF Local, Droit
    <3>7. Connexion(r)'
      BY <2>2, <3>1, <3>2 DEF Local, Connexion
    <3> QED
      BY <3>4, <3>5, <3>6, <3>7 DEF Local
  <2>6. TitulaireSeul'
    BY <2>2 DEF Coherence, TitulaireSeul
  <2> QED
    BY <2>4, <2>5, <2>6 DEF Coherence, Local, DroitsRecents, ConnexionFondee, Droit, Connexion
<1> QED
  BY <1>2, <1>3 DEF Ecrire

LEMMA CoherenceSuivante == TypeOK /\ Coherence /\ [Next]_vars => Coherence'
<1> SUFFICES ASSUME TypeOK, Coherence, [Next]_vars PROVE Coherence'
  OBVIOUS
<1>1. CASE UNCHANGED vars
  <2>1. ASSUME NEW r \in Requetes PROVE Local(r)'
    <3>1. Local(r)
      BY CoherenceEnParts
    <3> QED
      BY <1>1, <3>1 DEF Local, SessionOk, ParcoursOk, TemoinOk, Droit, Connexion, Vise, RangDe,
                        vars, tables, web
  <2>2. TitulaireSeul' /\ \A k \in Commandes : CommandeOk(k)'
    BY <1>1 DEF Coherence, TitulaireSeul, CommandeOk, vars, tables, admin
  <2> QED
    BY <2>1, <2>2 DEF Coherence, Local, DroitsRecents, ConnexionFondee, Droit, Connexion
<1> QED
  BY <1>1, CoherenceRequete, CoherenceExpirer, CoherenceCommande, CoherenceEcrire DEF Next

-----------------------------------------------------------------------------
(* The state keeps its shape, for any accounts, requests and commands.     *)
THEOREM TypeCorrect == Spec => []TypeOK
<1>1. Init => TypeOK /\ Coherence
  BY InitType, InitCoherence
<1>2. TypeOK /\ Coherence /\ [Next]_vars => (TypeOK /\ Coherence)'
  BY TypeSuivant, CoherenceSuivante
<1> QED
  BY <1>1, <1>2, PTL DEF Spec

(* No session ever changes hands, and what a request or a command has read *)
(* stays linked to what it was read from: the inductive invariant.         *)
THEOREM Coherente == Spec => []Coherence
<1>1. Init => TypeOK /\ Coherence
  BY InitType, InitCoherence
<1>2. TypeOK /\ Coherence /\ [Next]_vars => (TypeOK /\ Coherence)'
  BY TypeSuivant, CoherenceSuivante
<1> QED
  BY <1>1, <1>2, PTL DEF Spec

(* Whoever acts, by a session or by a token, has held the scope since the  *)
(* request came in, whatever commands run meanwhile (actorFromSession,     *)
(* VerifyToken: the account is read again by every request).               *)
THEOREM DroitsToujoursRecents == Spec => []DroitsRecents
<1>1. Coherence => DroitsRecents
  BY DEF Coherence
<1> QED
  BY <1>1, Coherente, PTL

(* Every session that is opened was opened by the password of an open      *)
(* account, under a token nobody else holds (handleLogin, openSession).    *)
THEOREM Fondee == Spec => []ConnexionFondee
<1>1. Coherence => ConnexionFondee
  BY DEF Coherence
<1> QED
  BY <1>1, Coherente, PTL

-----------------------------------------------------------------------------
(* The refinement of RegistreAcces, when no two commands are under way on  *)
(* one account.                                                            *)

LEMMA MemesDefinitions ==
    /\ Promesse!Ordres = Ordres
    /\ Promesse!Lignes = Lignes
    /\ Promesse!Inconnu = Inconnu
    /\ \A o, l : Promesse!SansEffet(o, l) <=> SansEffet(o, l)
    /\ \A o, l : Promesse!Apres(o, l) = Apres(o, l)
<1>1. /\ Promesse!Ordres = Ordres
      /\ Promesse!Lignes = Lignes
      /\ Promesse!Inconnu = Inconnu
  BY DEF Promesse!Ordres, Promesse!Ordre, Promesse!Roles, Promesse!Lignes, Promesse!Inconnu,
         Ordres, Ordre, Roles, Lignes, Inconnu
<1>2. \A o, l : Promesse!SansEffet(o, l) <=> SansEffet(o, l)
  BY DEF Promesse!SansEffet, SansEffet
<1>3. \A o, l : Promesse!Apres(o, l) = Apres(o, l)
  BY DEF Promesse!Apres, Apres
<1> QED
  BY <1>1, <1>2, <1>3

(* No request writes an account. *)
LEMMA RequeteSansCompte ==
    ASSUME NEW p \in Requetes,
           RecevoirPage(p) \/ RecevoirConnexion(p) \/ RecevoirAgent(p)
             \/ Etape(p) \/ Echouer(p) \/ Abandonner(p)
    PROVE  UNCHANGED <<comptes, admin>>
BY DEF RecevoirPage, RecevoirConnexion, RecevoirAgent, Recevoir, Etape, Echouer,
   Abandonner, Charger, Introspecter, LireCompte, LireComptePorteur, Agir, Bloquer,
   Authentifier, Renouveler, Detruire, Sauver, tables

(* Only a command writes an account, and only the one it names. *)
LEMMA ComptesEcrits ==
    ASSUME TypeOK, Coherence, [Next]_vars
    PROVE  \/ UNCHANGED <<comptes, admin>>
           \/ \E k \in Commandes :
                 /\ Seule(k)
                 /\ \/ etape'[k] = "attente"
                    \/ Commander(k)
                    \/ LireCible(k) /\ ~Finir(k)
                 /\ \A c \in Comptes : comptes'[c] = comptes[c]
                        \/ (etape[k] = "ecrire" /\ commande[k].compte = c)
<1>1. CASE UNCHANGED vars
  BY <1>1 DEF vars, tables, admin
<1>3. ASSUME NEW j \in Jetons, Expirer(j) PROVE UNCHANGED <<comptes, admin>>
  BY <1>3 DEF Expirer
<1>4. ASSUME NEW k \in Commandes, Commander(k) \/ LireCible(k) \/ Interrompre(k)
      PROVE  Seule(k) /\ comptes' = comptes
               /\ (etape'[k] = "attente" \/ Commander(k) \/ (LireCible(k) /\ ~Finir(k)))
  <2>1. CASE Commander(k)
    BY <2>1 DEF Commander, Seule, TypeOK, tables
  <2>2. CASE Finir(k) /\ UNCHANGED tables
    BY <2>2, FinirSeule DEF Finir, TypeOK, tables
  <2>3. CASE LireCible(k) /\ ~Finir(k)
    BY <2>3 DEF LireCible, Seule, TypeOK, tables
  <2> QED
    BY <1>4, <2>1, <2>2, <2>3 DEF LireCible, Interrompre
<1>5. ASSUME NEW k \in Commandes, Ecrire(k)
      PROVE  /\ Seule(k) /\ etape'[k] = "attente"
             /\ \A c \in Comptes : comptes'[c] = comptes[c]
                    \/ (etape[k] = "ecrire" /\ commande[k].compte = c)
  <2>1. Finir(k) /\ etape[k] = "ecrire"
    BY <1>5 DEF Ecrire
  <2>2. Seule(k)
    BY <2>1, FinirSeule
  <2>3. etape'[k] = "attente"
    BY <2>1 DEF Finir, TypeOK
  <2>4. \A c \in Comptes : comptes'[c] = comptes[c] \/ commande[k].compte = c
    <3>1. \/ comptes' = comptes
          \/ comptes' = [comptes EXCEPT ![commande[k].compte] = Apres(commande[k], lue[k])]
      BY <1>5 DEF Ecrire
    <3> QED
      BY <3>1 DEF TypeOK
  <2> QED
    BY <2>1, <2>2, <2>3, <2>4
<1>6. ASSUME NEW k \in Commandes, Commander(k) \/ LireCible(k) \/ Ecrire(k) \/ Interrompre(k)
      PROVE  /\ Seule(k)
             /\ \/ etape'[k] = "attente"
                \/ Commander(k)
                \/ LireCible(k) /\ ~Finir(k)
             /\ \A c \in Comptes : comptes'[c] = comptes[c]
                    \/ (etape[k] = "ecrire" /\ commande[k].compte = c)
  <2>1. CASE Ecrire(k)
    BY <1>5, <2>1
  <2>2. CASE ~Ecrire(k)
    BY <1>4, <1>6, <2>2
  <2> QED
    BY <2>1, <2>2
<1> QED
  BY <1>1, <1>3, <1>6, RequeteSansCompte DEF Next

LEMMA InitFraiche == Init => LueFraiche
BY DEF Init, LueFraiche

LEMMA FraicheSuivante ==
    ASSUME TypeOK, Coherence, Serialises, LueFraiche, [Next]_vars
    PROVE  LueFraiche'
<1>1. CASE UNCHANGED <<comptes, admin>>
  BY <1>1 DEF LueFraiche, admin
<1>2. ASSUME NEW k \in Commandes, Seule(k),
             etape'[k] = "attente" \/ Commander(k) \/ (LireCible(k) /\ ~Finir(k)),
             \A c \in Comptes : comptes'[c] = comptes[c]
                 \/ (etape[k] = "ecrire" /\ commande[k].compte = c)
      PROVE  LueFraiche'
  <2> SUFFICES ASSUME NEW m \in Commandes, etape'[m] = "ecrire", commande'[m].op # "ajouter"
               PROVE  /\ lue'[m] = comptes'[commande'[m].compte]
                      /\ ~SansEffet(commande'[m], lue'[m])
    BY DEF LueFraiche
  <2>1. CASE m # k
    <3>1. /\ commande'[m] = commande[m] /\ lue'[m] = lue[m] /\ etape[m] = "ecrire"
          /\ CommandeOk(m)
      BY <1>2, <2>1, CoherenceEnParts DEF Seule
    <3>2. commande[m].compte \in Comptes
      BY <3>1, OrdreType, AccesAssumption DEF CommandeOk
    <3>3. etape[k] = "ecrire" => commande[k].compte # commande[m].compte
      BY <2>1, <3>1 DEF Serialises
    <3> QED
      BY <1>2, <3>1, <3>2, <3>3 DEF LueFraiche
  <2>2. CASE m = k
    <3>1. LireCible(k) /\ ~Finir(k)
      BY <1>2, <2>2 DEF Commander, TypeOK
    <3> QED
      BY <2>2, <3>1 DEF LireCible, TypeOK, tables
  <2> QED
    BY <2>1, <2>2
<1> QED
  BY <1>1, <1>2, ComptesEcrits

(* A command that writes is one command of RegistreAcces, or is refused.   *)
LEMMA PasEcrire ==
    ASSUME TypeOK, Coherence, LueFraiche, NEW k \in Commandes, Ecrire(k)
    PROVE  [Promesse!Next]_(Promesse!vars)
<1> DEFINE o == commande[k]
<1>1. CASE UNCHANGED comptes
  BY <1>1 DEF Ecrire, Promesse!vars
<1>2. CASE ~(o.op = "ajouter" /\ comptes[o.compte] # Inconnu)
  <2>1. CommandeOk(k) /\ o \in Ordres /\ o.compte \in Comptes
    BY CoherenceEnParts, CommandeEcrit DEF Ecrire
  <2>2. /\ comptes' = [comptes EXCEPT ![o.compte] = Apres(o, lue[k])]
        /\ UNCHANGED <<sessions, titulaire>>
    BY <1>2 DEF Ecrire
  <2>3. /\ o.op = "ajouter" <=> comptes[o.compte] = Inconnu
        /\ ~SansEffet(o, comptes[o.compte])
    <3>1. CASE o.op = "ajouter"
      BY <1>2, <3>1 DEF SansEffet
    <3>2. CASE o.op # "ajouter"
      BY <2>1, <3>2 DEF Ecrire, CommandeOk, LueFraiche
    <3> QED
      BY <3>1, <3>2
  <2>4. Apres(o, lue[k]) = Apres(o, comptes[o.compte])
    <3>1. CASE o.op = "ajouter"
      BY <3>1 DEF Apres
    <3>2. CASE o.op # "ajouter"
      BY <3>2 DEF Ecrire, LueFraiche
    <3> QED
      BY <3>1, <3>2
  <2>5. comptes' = [comptes EXCEPT ![o.compte] = Apres(o, @)]
    BY <2>2, <2>4
  <2>6. Promesse!Commander(o)
    BY <2>2, <2>3, <2>5, MemesDefinitions DEF Promesse!Commander
  <2> QED
    BY <2>1, <2>6, MemesDefinitions DEF Promesse!Next
<1> QED
  BY <1>1, <1>2 DEF Ecrire

(* A request draws, saves or deletes the row of its own token. *)
LEMMA PasRequete ==
    ASSUME TypeOK, Coherence, NEW p \in Requetes,
           RecevoirPage(p) \/ RecevoirConnexion(p) \/ RecevoirAgent(p)
             \/ Etape(p) \/ Echouer(p) \/ Abandonner(p)
    PROVE  [Promesse!Next]_(Promesse!vars)
<1> Local(p)
  BY CoherenceEnParts
<1>1. CASE Renouveler(p)
  <2> DEFINE c == requete[p].compte
  <2>1. PICK j \in Jetons \ Tires : titulaire' = [titulaire EXCEPT ![j] = c]
    BY <1>1 DEF Renouveler
  <2>2. c \in Comptes /\ titulaire[j] = Personne
    BY <1>1, <2>1 DEF Renouveler, Local, ParcoursOk, Tires
  <2>3. \E ancien \in Jetons : sessions' \in {sessions, [sessions EXCEPT ![ancien] = Personne]}
    <3>1. CASE session[p] = Personne
      BY <1>1, <2>1, <3>1 DEF Renouveler
    <3>2. CASE session[p] # Personne
      BY <1>1, <3>2 DEF Renouveler, Local, SessionOk
    <3> QED
      BY <3>1, <3>2
  <2>4. Promesse!Tirer(j, c)
    BY <1>1, <2>1, <2>2, <2>3 DEF Renouveler, Promesse!Tirer
  <2> QED
    BY <2>1, <2>2, <2>4 DEF Promesse!Next
<1>2. CASE Detruire(p)
  <2>1. jeton[p] \in Jetons
    BY <1>2 DEF Detruire, Local, SessionOk, ParcoursOk
  <2>2. Promesse!Effacer(jeton[p])
    BY <1>2 DEF Detruire, Promesse!Effacer
  <2> QED
    BY <2>1, <2>2 DEF Promesse!Next
<1>3. CASE Sauver(p)
  <2>1. jeton[p] \in Jetons /\ titulaire[jeton[p]] = session[p] /\ session[p] # Personne
    BY <1>3 DEF Sauver, Local, SessionOk, ParcoursOk
  <2>2. Promesse!Sauver(jeton[p])
    BY <1>3, <2>1 DEF Sauver, Promesse!Sauver
  <2> QED
    BY <2>1, <2>2 DEF Promesse!Next
<1>4. CASE UNCHANGED tables
  BY <1>4 DEF tables, Promesse!vars
<1> QED
  BY <1>1, <1>2, <1>3, <1>4 DEF RecevoirPage, RecevoirConnexion, RecevoirAgent, Recevoir,
     Etape, Echouer, Abandonner, Charger, Introspecter, LireCompte, LireComptePorteur, Agir,
     Bloquer, Authentifier

LEMMA PasPromesse ==
    TypeOK /\ Coherence /\ LueFraiche /\ [Next]_vars => [Promesse!Next]_(Promesse!vars)
<1> SUFFICES ASSUME TypeOK, Coherence, LueFraiche, [Next]_vars
             PROVE  [Promesse!Next]_(Promesse!vars)
  OBVIOUS
<1>1. CASE UNCHANGED vars
  BY <1>1 DEF vars, tables, Promesse!vars
<1>2. ASSUME NEW j \in Jetons, Expirer(j) PROVE [Promesse!Next]_(Promesse!vars)
  BY <1>2 DEF Expirer, Promesse!Effacer, Promesse!Next
<1>3. ASSUME NEW k \in Commandes, Commander(k) \/ LireCible(k) \/ Interrompre(k)
      PROVE  UNCHANGED Promesse!vars
  BY <1>3 DEF Commander, LireCible, Interrompre, tables, Promesse!vars
<1> QED
  BY <1>1, <1>2, <1>3, PasEcrire, PasRequete DEF Next

(* PromesseTenue: any number of requests and of commands together          *)
(* implement RegistreAcces as long as no two commands are under way on one *)
(* account.  The hypothesis is what UserRepo.Update leaves to whoever      *)
(* types the commands: FermetureTenue fails without it.                    *)
THEOREM Implemente == Spec /\ []Serialises => PromesseTenue
<1>1. Init => LueFraiche /\ Promesse!Init
  BY InitFraiche, MemesDefinitions DEF Init, Promesse!Init
<1>2. TypeOK /\ Coherence /\ Serialises /\ LueFraiche /\ [Next]_vars => LueFraiche'
  BY FraicheSuivante
<1>3. TypeOK /\ Coherence /\ LueFraiche /\ [Next]_vars => [Promesse!Next]_(Promesse!vars)
  BY PasPromesse
<1> QED
  BY <1>1, <1>2, <1>3, TypeCorrect, Coherente, PTL DEF Spec, PromesseTenue, Promesse!Spec

(* A machine where avanti user runs once at a time needs no hypothesis on  *)
(* the behaviour: run acces_droits.                                        *)
COROLLARY ImplementeSeul ==
    ASSUME \A k, l \in Commandes : k = l
    PROVE  Spec => PromesseTenue
<1>1. Serialises
  BY DEF Serialises
<1> QED
  BY <1>1, Implemente, PTL

-----------------------------------------------------------------------------
(* What opens an account again. *)

(* FermetureTenue, which fails in run acces_fermeture, holds as long as no *)
(* two commands are under way on one account: only "user enable" opens a   *)
(* closed account again.  What two commands lose is all there is to lose.  *)
THEOREM FermeeSerialisee == Spec /\ []Serialises => FermetureTenue
<1> DEFINE Rouverte(c) == comptes[c] # Inconnu /\ ~comptes[c].actif /\ comptes'[c].actif
           Rouvre(k, c) == Ecrire(k) /\ commande[k] = Ordre("rouvrir", c, Personne, "aucun")
<1>1. ASSUME TypeOK, Coherence, LueFraiche, NEW k \in Commandes, Ecrire(k),
             NEW c \in Comptes, Rouverte(c)
      PROVE  Rouvre(k, c)
  <2> DEFINE o == commande[k]
  <2>1. CommandeOk(k) /\ o \in Ordres /\ etape[k] = "ecrire"
    BY <1>1, CoherenceEnParts, CommandeEcrit DEF Ecrire
  <2>2. \/ comptes' = comptes
        \/ comptes' = [comptes EXCEPT ![o.compte] = Apres(o, lue[k])]
    BY <1>1 DEF Ecrire
  <2>3. o.compte = c /\ Apres(o, lue[k]).actif /\ comptes' # comptes
    BY <1>1, <2>2 DEF TypeOK
  <2>4. o.op # "ajouter"
    BY <1>1, <2>3 DEF Ecrire
  <2>5. lue[k] = comptes[c] /\ lue[k] \in Lignes
    BY <1>1, <2>1, <2>3, <2>4 DEF LueFraiche, TypeOK
  <2>6. o.op = "rouvrir"
    <3>1. lue[k].actif = FALSE
      BY <1>1, <2>5 DEF Lignes
    <3>2. o.op # "fermer"
      BY <2>3, <2>5 DEF Apres, Lignes
    <3>3. o.op # "mot_de_passe"
      BY <2>3, <2>5, <3>1 DEF Apres, Lignes
    <3>4. o.op # "role"
      BY <2>3, <2>5, <3>1 DEF Apres, Lignes
    <3> QED
      BY <2>1, <2>4, <3>2, <3>3, <3>4, OrdreType
  <2>7. o = Ordre("rouvrir", c, Personne, "aucun")
    BY <2>1, <2>3, <2>6 DEF Ordres, Ordre
  <2> QED
    BY <1>1, <2>7
<1>2. ASSUME TypeOK, Coherence, LueFraiche, [Next]_vars
      PROVE  [\A c \in Comptes : Rouverte(c) => \E k \in Commandes : Rouvre(k, c)]_comptes
  <2> SUFFICES ASSUME NEW c \in Comptes, Rouverte(c) PROVE \E k \in Commandes : Rouvre(k, c)
    OBVIOUS
  <2>1. comptes' # comptes
    OBVIOUS
  <2>2. \E k \in Commandes : Ecrire(k)
    <3>1. \A j \in Jetons : ~Expirer(j)
      BY <2>1 DEF Expirer
    <3>2. \A k \in Commandes : ~Commander(k) /\ ~LireCible(k) /\ ~Interrompre(k)
      BY <2>1 DEF Commander, LireCible, Interrompre, tables
    <3>3. ~UNCHANGED vars
      BY <2>1 DEF vars, tables
    <3> QED
      BY <1>2, <2>1, <3>1, <3>2, <3>3, RequeteSansCompte DEF Next
  <2> QED
    BY <1>1, <1>2, <2>2
<1>3. TypeOK /\ Coherence /\ LueFraiche /\ [Next]_vars =>
        [\A c \in Comptes : comptes[c] # Inconnu /\ ~comptes[c].actif /\ comptes'[c].actif =>
           \E k \in Commandes : Ecrire(k) /\ commande[k] = Ordre("rouvrir", c, Personne, "aucun")
        ]_comptes
  BY <1>2
<1>4. TypeOK /\ Coherence /\ Serialises /\ LueFraiche /\ [Next]_vars => LueFraiche'
  BY FraicheSuivante
<1> QED
  BY InitFraiche, <1>3, <1>4, TypeCorrect, Coherente, PTL DEF Spec, FermetureTenue

-----------------------------------------------------------------------------
(* What keeps a session closed. *)

(* A logout is over: its session has no row, and whoever still carries its *)
(* token holds nothing that scs would write back.                          *)
ClosOk ==
    \A j \in close :
        /\ titulaire[j] # Personne
        /\ sessions[j] = Personne
        /\ \A p \in Requetes : jeton[p] = j => session[p] = Personne

CloseAvantOk == \A p \in Requetes : closeAvant[p] => requete[p].jeton \in close

LEMMA InitClos == Init => ClosOk /\ CloseAvantOk
BY DEF Init, ClosOk, CloseAvantOk

(* A step that adds nothing to close, draws no token and saves no session. *)
LEMMA ClosAilleurs ==
    ASSUME TypeOK, Coherence, ClosOk, CloseAvantOk, NEW p \in Requetes,
           close' = close, titulaire' = titulaire,
           \A j \in Jetons : sessions'[j] \in {sessions[j], Personne},
           \A r \in Requetes \ {p} :
              /\ requete'[r] = requete[r] /\ session'[r] = session[r]
              /\ jeton'[r] = jeton[r] /\ closeAvant'[r] = closeAvant[r],
           session'[p] = Personne
              \/ (jeton'[p] = jeton[p] /\ session'[p] \in {session[p], sessions[jeton[p]]}),
           closeAvant'[p] => requete'[p].jeton \in close
    PROVE  ClosOk' /\ CloseAvantOk'
<1>1. close \subseteq Jetons
  BY DEF TypeOK
<1>2. ClosOk'
  BY <1>1 DEF ClosOk
<1>3. CloseAvantOk'
  BY DEF CloseAvantOk
<1> QED
  BY <1>2, <1>3

(* No two requests that carry one session are under way at once. *)
UneALaFois ==
    \A p, r \in Requetes :
        /\ pc[p] # "attente" /\ pc[r] # "attente"
        /\ requete[p].jeton = requete[r].jeton /\ requete[p].jeton # AucunJeton
        => p = r

LEMMA ClosRequete ==
    ASSUME TypeOK, Coherence, ClosOk, CloseAvantOk, UneALaFois, NEW p \in Requetes,
           RecevoirPage(p) \/ RecevoirConnexion(p) \/ RecevoirAgent(p)
             \/ Etape(p) \/ Echouer(p) \/ Abandonner(p)
    PROVE  ClosOk' /\ CloseAvantOk'
<1> Local(p) /\ close \subseteq Jetons
  BY CoherenceEnParts DEF TypeOK
<1>1. ASSUME NEW q, NEW pas, Recevoir(p, q, pas) PROVE ClosOk' /\ CloseAvantOk'
  <2>1. session[p] = Personne
    BY <1>1 DEF Recevoir, Local, SessionOk
  <2> QED
    BY <1>1, <2>1, ClosAilleurs DEF Recevoir, TypeOK, tables
<1>2. CASE RecevoirPage(p) \/ RecevoirConnexion(p) \/ RecevoirAgent(p)
  BY <1>1, <1>2 DEF RecevoirPage, RecevoirConnexion, RecevoirAgent
<1>3. CASE Repondre(p) /\ UNCHANGED tables
  BY <1>3, ClosAilleurs DEF Repondre, TypeOK, tables
<1>4. ASSUME NEW pas, Aller(p, pas), UNCHANGED tables PROVE ClosOk' /\ CloseAvantOk'
  BY <1>4, ClosAilleurs DEF Aller, CloseAvantOk, TypeOK, tables
<1>5. CASE Conclure(p) /\ UNCHANGED tables
  BY <1>3, <1>4, <1>5 DEF Conclure
<1>6. CASE Charger(p) /\ ~Repondre(p)
  <2>1. jeton[p] = AucunJeton \/ session'[p] = sessions[jeton[p]]
    BY <1>6 DEF Charger, TypeOK
  <2>2. session'[p] = Personne \/ session'[p] = sessions[jeton[p]]
    BY <1>6, <2>1 DEF Charger, TypeOK
  <2>3. UNCHANGED <<tables, requete, jeton, closeAvant>>
    BY <1>6 DEF Charger
  <2>4. \A r \in Requetes \ {p} : session'[r] = session[r]
    BY <1>6 DEF Charger, TypeOK
  <2> QED
    BY <2>2, <2>3, <2>4, ClosAilleurs DEF CloseAvantOk, tables
<1>7. CASE Renouveler(p)
  <2>1. PICK j \in Jetons \ Tires : /\ titulaire' = [titulaire EXCEPT ![j] = requete[p].compte]
                                     /\ jeton' = [jeton EXCEPT ![p] = j]
    BY <1>7 DEF Renouveler
  <2>2. j \notin close
    BY <2>1 DEF ClosOk, Tires
  <2>3. /\ UNCHANGED <<close, requete, closeAvant>>
        /\ \A i \in Jetons : sessions'[i] \in {sessions[i], Personne}
        /\ \A r \in Requetes \ {p} : session'[r] = session[r] /\ jeton'[r] = jeton[r]
        /\ jeton'[p] = j
        /\ \A i \in Jetons \ {j} : titulaire'[i] = titulaire[i]
    BY <1>7, <2>1 DEF Renouveler, TypeOK
  <2> QED
    BY <2>2, <2>3 DEF ClosOk, CloseAvantOk
<1>8. CASE Detruire(p)
  <2> DEFINE j == jeton[p]
  <2>1. /\ j \in Jetons /\ titulaire[j] # Personne /\ requete[p].jeton = j /\ j # AucunJeton
        /\ pc[p] # "attente"
    BY <1>8, AccesAssumption DEF Detruire, Local, SessionOk, ParcoursOk
  <2>2. ASSUME NEW r \in Requetes \ {p}, jeton[r] = j PROVE session[r] = Personne
    <3> SUFFICES ASSUME session[r] # Personne PROVE FALSE
      OBVIOUS
    <3>1. Local(r)
      BY CoherenceEnParts
    <3>2. pc[r] # "attente"
      BY <3>1 DEF Local, SessionOk
    <3>3. CASE requete[r].jeton = j
      BY <2>1, <3>2, <3>3 DEF UneALaFois
    <3>4. CASE requete[r].jeton # j
      BY <2>2, <3>1, <3>4 DEF Local, SessionOk, Connexion
    <3> QED
      BY <3>3, <3>4
  <2>3. /\ close \subseteq close' /\ close' \subseteq close \cup {j} /\ titulaire' = titulaire
        /\ sessions'[j] = Personne /\ \A i \in Jetons \ {j} : sessions'[i] = sessions[i]
    BY <1>8, <2>1 DEF Detruire, TypeOK
  <2>4. /\ session'[p] = Personne /\ closeAvant'[p] = FALSE
        /\ \A r \in Requetes \ {p} :
              /\ requete'[r] = requete[r] /\ session'[r] = session[r]
              /\ jeton'[r] = jeton[r] /\ closeAvant'[r] = closeAvant[r]
    BY <1>8 DEF Detruire, Repondre, TypeOK
  <2>5. ClosOk'
    BY <2>1, <2>2, <2>3, <2>4 DEF ClosOk
  <2>6. CloseAvantOk'
    BY <2>3, <2>4 DEF CloseAvantOk
  <2> QED
    BY <2>5, <2>6
<1>9. CASE Sauver(p)
  <2>1. session[p] # Personne /\ jeton[p] \in Jetons \ close
    BY <1>9 DEF Sauver, Local, SessionOk, ParcoursOk, ClosOk
  <2>2. /\ close' = close /\ titulaire' = titulaire
        /\ \A i \in close : sessions'[i] = sessions[i]
    BY <1>9, <2>1 DEF Sauver, TypeOK
  <2>3. /\ session'[p] = Personne /\ closeAvant'[p] = FALSE
        /\ \A r \in Requetes \ {p} :
              /\ requete'[r] = requete[r] /\ session'[r] = session[r]
              /\ jeton'[r] = jeton[r] /\ closeAvant'[r] = closeAvant[r]
    BY <1>9 DEF Sauver, Repondre, TypeOK
  <2> QED
    BY <2>2, <2>3 DEF ClosOk, CloseAvantOk
<1>10. CASE LireCompte(p) \/ LireComptePorteur(p) \/ Introspecter(p) \/ Authentifier(p)
              \/ (Charger(p) /\ Repondre(p))
  BY <1>3, <1>4, <1>5, <1>10 DEF LireCompte, LireComptePorteur, Introspecter, Authentifier, Charger
<1>11. CASE Agir(p) \/ Bloquer(p) \/ Echouer(p) \/ Abandonner(p)
  BY <1>3, <1>5, <1>11 DEF Agir, Bloquer, Echouer, Abandonner
<1> QED
  BY <1>2, <1>6, <1>7, <1>8, <1>9, <1>10, <1>11 DEF Etape

LEMMA ClosSuivant ==
    TypeOK /\ Coherence /\ ClosOk /\ CloseAvantOk /\ UneALaFois /\ [Next]_vars
        => ClosOk' /\ CloseAvantOk'
<1> SUFFICES ASSUME TypeOK, Coherence, ClosOk, CloseAvantOk, UneALaFois, [Next]_vars
             PROVE  ClosOk' /\ CloseAvantOk'
  OBVIOUS
<1>1. CASE UNCHANGED vars
  BY <1>1 DEF ClosOk, CloseAvantOk, vars, tables, web
<1>2. ASSUME NEW j \in Jetons, Expirer(j) PROVE ClosOk' /\ CloseAvantOk'
  <2>1. close \subseteq Jetons
    BY DEF TypeOK
  <2> QED
    BY <1>2, <2>1 DEF Expirer, ClosOk, CloseAvantOk, TypeOK, web
<1>3. ASSUME NEW k \in Commandes,
             Commander(k) \/ LireCible(k) \/ Ecrire(k) \/ Interrompre(k)
      PROVE  ClosOk' /\ CloseAvantOk'
  <2>1. UNCHANGED <<sessions, titulaire, close, requete, session, jeton, closeAvant>>
    BY <1>3 DEF Commander, LireCible, Ecrire, Interrompre, tables, web
  <2> QED
    BY <2>1 DEF ClosOk, CloseAvantOk
<1> QED
  BY <1>1, <1>2, <1>3, ClosRequete DEF Next

(* DeconnexionTenue, which fails in run acces_deconnexion, holds as long   *)
(* as no two requests of one session are under way at once: what undoes a  *)
(* logout is the session that the other request saves back, and nothing    *)
(* else - no login, no expiry, no command, no other session.               *)
THEOREM DeconnexionSeule == Spec /\ []UneALaFois => []DeconnexionTenue
<1>1. TypeOK /\ Coherence /\ ClosOk /\ CloseAvantOk => DeconnexionTenue
  <2> SUFFICES ASSUME TypeOK, Coherence, ClosOk, CloseAvantOk,
                      NEW p \in Requetes, pc[p] = "agir", closeAvant[p]
               PROVE  FALSE
    BY DEF DeconnexionTenue
  <2>1. Local(p)
    BY CoherenceEnParts
  <2>2. jeton[p] = requete[p].jeton /\ jeton[p] \in close
    BY <2>1 DEF Local, SessionOk, CloseAvantOk
  <2>3. session[p] = Personne /\ requete[p].jeton # AucunJeton
    BY <2>2, AccesAssumption DEF ClosOk, TypeOK
  <2> QED
    BY <2>1, <2>3 DEF Local, ParcoursOk
<1> QED
  BY <1>1, InitClos, ClosSuivant, TypeCorrect, Coherente, PTL DEF Spec
=============================================================================

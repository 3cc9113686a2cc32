-------------------------------- MODULE Acces --------------------------------
(***************************************************************************)
(* Who may act, as it runs: the web server and its sessions (adapters/web: *)
(* session.go, login.go, authorize.go), the verification of agents' tokens *)
(* (oauth_verifier.go, adapters/mcp) and the commands of "avanti user",    *)
(* which is another process, all of them over AccountService and UserRepo. *)
(*                                                                         *)
(* Web requests and commands advance one database round trip at a time, in *)
(* READ COMMITTED.  The session manager scs reads the session when a       *)
(* request comes in and, since it has an idle timeout, writes it back when *)
(* the answer starts, unless the handler has destroyed it.                 *)
(***************************************************************************)
EXTENDS Identite

CONSTANTS
    Requetes,     \* goroutines of the server
    Commandes,    \* processes running "avanti user"
    Jetons,       \* session tokens, never drawn twice
    AucunJeton,   \* no cookie
    Demandes,     \* kinds of requests, and ...
    OrdresPermis  \* ... commands: all, or a bound of a run

ASSUME AccesAssumption ==
    /\ AucunJeton \notin Jetons
    /\ OrdresPermis \subseteq Ordres

VARIABLES
    comptes,      \* table users
    sessions,     \* table sessions: the account, Personne: no row
    titulaire,    \* history: the account each token was drawn for
    close,        \* history: the sessions a logout has destroyed
    requete,      \* what each request asks
    session,      \* the account its session names, as scs holds it
    jeton,        \* the token under which scs will save it
    depuis,       \* history: the rows of its account since it came in
    closeAvant,   \* history: whether its session was one of them when it came in
    pc,           \* where it is
    commande,     \* what each command asks
    lue,          \* the row it has read
    etape         \* where it is

tables == <<comptes, sessions, titulaire, close>>
web == <<requete, session, jeton, depuis, closeAvant, pc>>
admin == <<commande, lue, etape>>
vars == <<tables, web, admin>>

Operations == {"page", "deconnexion", "connexion", "agent"}
Pas == {"attente", "charger", "lire_compte", "agir", "authentifier", "renouveler",
        "detruire", "sauver", "introspecter"}

RienDemande == [op |-> "page", jeton |-> AucunJeton, compte |-> Personne,
                mdp |-> Personne, besoin |-> "devis", accordes |-> {}]
RienCommande == Ordre("fermer", Personne, Personne, "aucun")

(* The account a request is about: the one that was typed or for which its *)
(* token was issued, else the one its cookie was given to.                 *)
Vise(q) ==
    IF q.op \in {"connexion", "agent"} THEN q.compte ELSE titulaire[q.jeton]

RangDe(c) == IF c \in Comptes THEN {comptes[c]} ELSE {}

Init ==
    /\ comptes \in [Comptes -> Lignes \cup {Inconnu}]
    /\ sessions = [j \in Jetons |-> Personne]
    /\ titulaire = [j \in Jetons |-> Personne]
    /\ close = {}
    /\ requete = [p \in Requetes |-> RienDemande]
    /\ session = [p \in Requetes |-> Personne]
    /\ jeton = [p \in Requetes |-> AucunJeton]
    /\ depuis = [p \in Requetes |-> {}]
    /\ closeAvant = [p \in Requetes |-> FALSE]
    /\ pc = [p \in Requetes |-> "attente"]
    /\ commande = [k \in Commandes |-> RienCommande]
    /\ lue = [k \in Commandes |-> Inconnu]
    /\ etape = [k \in Commandes |-> "attente"]

Aller(p, pas) ==
    /\ pc' = [pc EXCEPT ![p] = pas]
    /\ UNCHANGED <<requete, session, jeton, depuis, closeAvant>>

(* The answer has left; the goroutine serves another request. *)
Repondre(p) ==
    /\ pc' = [pc EXCEPT ![p] = "attente"]
    /\ requete' = [requete EXCEPT ![p] = RienDemande]
    /\ session' = [session EXCEPT ![p] = Personne]
    /\ jeton' = [jeton EXCEPT ![p] = AucunJeton]
    /\ depuis' = [depuis EXCEPT ![p] = {}]
    /\ closeAvant' = [closeAvant EXCEPT ![p] = FALSE]

(* The handler starts to answer: scs saves a session that it has loaded,   *)
(* whatever the answer is (sessions.LoadAndSave with IdleTimeout).         *)
Conclure(p) ==
    \/ session[p] # Personne /\ Aller(p, "sauver")
    \/ session[p] = Personne /\ Repondre(p)

-----------------------------------------------------------------------------
Recevoir(p, q, pas) ==
    /\ pc[p] = "attente"
    /\ requete' = [requete EXCEPT ![p] = q]
    /\ jeton' = [jeton EXCEPT ![p] = q.jeton]
    /\ depuis' = [depuis EXCEPT ![p] = RangDe(Vise(q))]
    /\ closeAvant' = [closeAvant EXCEPT ![p] = q.jeton \in close]
    /\ pc' = [pc EXCEPT ![p] = pas]
    /\ UNCHANGED <<tables, session, admin>>

Tires == {j \in Jetons : titulaire[j] # Personne}

(* A browser has the token only when the answer that sets it has left. *)
Cookies == {j \in Tires : \A r \in Requetes : jeton[r] = j => requete[r].jeton = j}

(* A page or an action of the site, behind a scope. *)
RecevoirPage(p) ==
    \E o \in Demandes \cap {"page", "deconnexion"}, j \in Cookies, b \in {"devis", "finance"} :
        Recevoir(p, [RienDemande EXCEPT !.op = o, !.jeton = j, !.besoin = b], "charger")

(* The login form, from a browser that may have a session already. *)
RecevoirConnexion(p) ==
    \E c \in Comptes, m \in MotsDePasse, j \in Cookies \cup {AucunJeton} :
        /\ "connexion" \in Demandes
        /\ Recevoir(p, [RienDemande EXCEPT !.op = "connexion", !.jeton = j,
                                           !.compte = c, !.mdp = m], "charger")

(* A tool called with a token, which was granted some scopes. *)
RecevoirAgent(p) ==
    \E c \in Comptes, b \in {"devis", "finance"}, s \in SUBSET Scopes :
        /\ "agent" \in Demandes
        /\ Recevoir(p, [RienDemande EXCEPT !.op = "agent", !.compte = c,
                                           !.besoin = b, !.accordes = s], "introspecter")

-----------------------------------------------------------------------------
(* sessions.LoadAndSave, Load.  An empty session is not saved.  The form of *)
(* login is public, the rest goes through requireAuth.                     *)
Charger(p) ==
    /\ pc[p] = "charger"
    /\ LET lu == IF jeton[p] = AucunJeton THEN Personne ELSE sessions[jeton[p]]
       IN /\ session' = [session EXCEPT ![p] = lu]
          /\ \/ /\ requete[p].op = "connexion"
                /\ pc' = [pc EXCEPT ![p] = "authentifier"]
                /\ UNCHANGED <<requete, jeton, depuis, closeAvant>>
             \/ /\ requete[p].op # "connexion" /\ lu # Personne
                /\ pc' = [pc EXCEPT ![p] = "lire_compte"]
                /\ UNCHANGED <<requete, jeton, depuis, closeAvant>>
             \/ /\ requete[p].op # "connexion" /\ lu = Personne
                /\ Repondre(p)
    /\ UNCHANGED <<tables, admin>>

(* oauthVerifier.VerifyToken: the OAuth store knows the token, or not.     *)
Introspecter(p) ==
    /\ pc[p] = "introspecter"
    /\ Aller(p, "lire_compte") \/ Repondre(p)
    /\ UNCHANGED <<tables, admin>>

(* actorFromSession and requireScope, from the account as it is now: a     *)
(* closed or unknown account loses its session, a scope that is missing is *)
(* a page of refusal.  Every role allows to log out.                       *)
LireCompte(p) ==
    /\ pc[p] = "lire_compte"
    /\ requete[p].op \in {"page", "deconnexion"}
    /\ LET droits == Droits(comptes[session[p]])
       IN \/ droits = {} /\ Aller(p, "detruire")
          \/ droits # {} /\ requete[p].op = "deconnexion" /\ Aller(p, "detruire")
          \/ /\ droits # {} /\ requete[p].op = "page"
             /\ \/ requete[p].besoin \in droits /\ Aller(p, "agir")
                \/ requete[p].besoin \notin droits /\ Conclure(p)
    /\ UNCHANGED <<tables, admin>>

(* VerifyToken, then RequireBearerToken of the SDK, which wants scope mcp, *)
(* then requireScope of the tool.                                          *)
LireComptePorteur(p) ==
    /\ pc[p] = "lire_compte"
    /\ requete[p].op = "agent"
    /\ LET droits == DroitsDuJeton(comptes[requete[p].compte], requete[p].accordes)
       IN \/ {"mcp", requete[p].besoin} \subseteq droits /\ Aller(p, "agir")
          \/ ~({"mcp", requete[p].besoin} \subseteq droits) /\ Repondre(p)
    /\ UNCHANGED <<tables, admin>>

(* The handler works, on one of the other components. *)
Agir(p) ==
    /\ pc[p] = "agir"
    /\ Conclure(p)
    /\ UNCHANGED <<tables, admin>>

(* handleLogin: the limiter (module Limiteur) refuses, ... *)
Bloquer(p) ==
    /\ pc[p] = "authentifier"
    /\ Conclure(p)
    /\ UNCHANGED <<tables, admin>>

(* Mutation: Authenticate does not look at Active. *)
AuthentifierMemeFerme(p) ==
    /\ pc[p] = "authentifier"
    /\ LET ligne == comptes[requete[p].compte]
       IN \/ ligne.mdp = requete[p].mdp /\ Aller(p, "renouveler")
          \/ ligne.mdp # requete[p].mdp /\ Conclure(p)
    /\ UNCHANGED <<tables, admin>>

(* ... or Authenticate reads the account and verifies. *)
Authentifier(p) ==
    /\ pc[p] = "authentifier"
    /\ LET reconnu == Reconnu(comptes[requete[p].compte], requete[p].mdp)
       IN \/ reconnu /\ Aller(p, "renouveler")
          \/ ~reconnu /\ Conclure(p)
    /\ UNCHANGED <<tables, admin>>

(* openSession: RenewToken deletes the session the cookie had, if it was   *)
(* found, and draws a new token; the account is put in it.                 *)
Renouveler(p) ==
    /\ pc[p] = "renouveler"
    /\ \E j \in Jetons \ Tires :
          /\ titulaire' = [titulaire EXCEPT ![j] = requete[p].compte]
          /\ jeton' = [jeton EXCEPT ![p] = j]
    /\ sessions' = IF session[p] = Personne THEN sessions
                   ELSE [sessions EXCEPT ![jeton[p]] = Personne]
    /\ session' = [session EXCEPT ![p] = requete[p].compte]
    /\ pc' = [pc EXCEPT ![p] = "sauver"]
    /\ UNCHANGED <<comptes, close, requete, depuis, closeAvant, admin>>

(* dropSession: of a closed account, or on logout. *)
Detruire(p) ==
    /\ pc[p] = "detruire"
    /\ sessions' = [sessions EXCEPT ![jeton[p]] = Personne]
    /\ close' = IF requete[p].op = "deconnexion" THEN close \cup {jeton[p]} ELSE close
    /\ Repondre(p)
    /\ UNCHANGED <<comptes, titulaire, admin>>

(* scs, Commit: INSERT ... ON CONFLICT DO UPDATE. *)
Sauver(p) ==
    /\ pc[p] = "sauver"
    /\ sessions' = [sessions EXCEPT ![jeton[p]] = session[p]]
    /\ Repondre(p)
    /\ UNCHANGED <<comptes, titulaire, close, admin>>

(* A statement fails: the page of error is an answer like another.         *)
Echouer(p) ==
    /\ pc[p] \in {"lire_compte", "authentifier", "renouveler", "detruire"}
    /\ Conclure(p)
    /\ UNCHANGED <<tables, admin>>

(* The client hangs up or the process dies. *)
Abandonner(p) ==
    /\ pc[p] # "attente"
    /\ Repondre(p)
    /\ UNCHANGED <<tables, admin>>

(* Lifetime, idle timeout, cleanup of expired sessions. *)
Expirer(j) ==
    /\ sessions[j] # Personne
    /\ sessions' = [sessions EXCEPT ![j] = Personne]
    /\ UNCHANGED <<comptes, titulaire, close, web, admin>>

-----------------------------------------------------------------------------
(* "avanti user", one process per command. *)

Finir(k) ==
    /\ etape' = [etape EXCEPT ![k] = "attente"]
    /\ commande' = [commande EXCEPT ![k] = RienCommande]
    /\ lue' = [lue EXCEPT ![k] = Inconnu]

Commander(k) ==
    /\ etape[k] = "attente"
    /\ \E o \in OrdresPermis :
          /\ commande' = [commande EXCEPT ![k] = o]
          /\ etape' = [etape EXCEPT ![k] = IF o.op = "ajouter" THEN "ecrire" ELSE "lire"]
    /\ UNCHANGED <<tables, web, lue>>

(* ByEmail, then ByID: no account is ever deleted, so the second read      *)
(* finds what the first one has found and is the one that is used.         *)
LireCible(k) ==
    /\ etape[k] = "lire"
    /\ LET ligne == comptes[commande[k].compte]
           rien == ligne = Inconnu \/ SansEffet(commande[k], ligne)
       IN \/ rien /\ Finir(k)
          \/ ~rien /\ lue' = [lue EXCEPT ![k] = ligne]
                   /\ etape' = [etape EXCEPT ![k] = "ecrire"]
                   /\ UNCHANGED commande
    /\ UNCHANGED <<tables, web>>

(* The rows every request in flight has been able to see. *)
Temoigner ==
    depuis' = [p \in Requetes |->
        IF pc[p] = "attente" THEN {}
        ELSE depuis[p] \cup {comptes'[c] : c \in {Vise(requete[p])} \cap Comptes}]

(* Mutation: no unique index on the email, a creation replaces.            *)
EcrireSansUnicite(k) ==
    /\ etape[k] = "ecrire"
    /\ comptes' = [comptes EXCEPT ![commande[k].compte] = Apres(commande[k], lue[k])]
    /\ Temoigner /\ Finir(k)
    /\ UNCHANGED <<sessions, titulaire, close, requete, session, jeton, closeAvant, pc>>

(* UserRepo.Create, refused by users_email_unique if the email is taken;   *)
(* UserRepo.Update rewrites the whole row as it was read.                  *)
Ecrire(k) ==
    /\ etape[k] = "ecrire"
    /\ LET c == commande[k].compte
           pris == commande[k].op = "ajouter" /\ comptes[c] # Inconnu
       IN \/ pris /\ UNCHANGED <<comptes, depuis>>
          \/ /\ ~pris
             /\ comptes' = [comptes EXCEPT ![c] = Apres(commande[k], lue[k])]
             /\ Temoigner
    /\ Finir(k)
    /\ UNCHANGED <<sessions, titulaire, close, requete, session, jeton, closeAvant, pc>>

(* Ctrl-C, or a query that fails. *)
Interrompre(k) ==
    /\ etape[k] # "attente"
    /\ Finir(k)
    /\ UNCHANGED <<tables, web>>

-----------------------------------------------------------------------------
Etape(p) ==
    \/ Charger(p) \/ Introspecter(p) \/ LireCompte(p) \/ LireComptePorteur(p)
    \/ Agir(p) \/ Bloquer(p) \/ Authentifier(p) \/ Renouveler(p)
    \/ Detruire(p) \/ Sauver(p)

Next ==
    \/ \E p \in Requetes :
          \/ RecevoirPage(p) \/ RecevoirConnexion(p) \/ RecevoirAgent(p)
          \/ Etape(p)
          \/ Echouer(p) \/ Abandonner(p)
    \/ \E j \in Jetons : Expirer(j)
    \/ \E k \in Commandes :
          Commander(k) \/ LireCible(k) \/ Ecrire(k) \/ Interrompre(k)

Spec == Init /\ [][Next]_vars

(* The Go scheduler and PostgreSQL let every request advance; nobody has   *)
(* to come, nor to administer.                                             *)
FairSpec == Spec /\ \A p \in Requetes : WF_vars(Etape(p))

-----------------------------------------------------------------------------
TypeOK ==
    /\ comptes \in [Comptes -> Lignes \cup {Inconnu}]
    /\ sessions \in [Jetons -> Comptes \cup {Personne}]
    /\ titulaire \in [Jetons -> Comptes \cup {Personne}]
    /\ close \in SUBSET Jetons
    /\ requete \in [Requetes ->
          [op : Operations, jeton : Jetons \cup {AucunJeton}, compte : Comptes \cup {Personne},
           mdp : MotsDePasse \cup {Personne}, besoin : Scopes, accordes : SUBSET Scopes]]
    /\ session \in [Requetes -> Comptes \cup {Personne}]
    /\ jeton \in [Requetes -> Jetons \cup {AucunJeton}]
    /\ depuis \in [Requetes -> SUBSET (Lignes \cup {Inconnu})]
    /\ closeAvant \in [Requetes -> BOOLEAN]
    /\ pc \in [Requetes -> Pas]
    /\ commande \in [Commandes -> Ordres \cup {RienCommande}]
    /\ lue \in [Commandes -> Lignes \cup {Inconnu}]
    /\ etape \in [Commandes -> {"attente", "lire", "ecrire"}]

(* "Une desactivation ou un changement de role prend donc effet            *)
(* immediatement" (docs/ARCHITECTURE.md): whoever acts, by a session or by *)
(* a token, has held the scope at some moment since the request came in;   *)
(* and it is the account the cookie or the token was given to, whatever    *)
(* logins crossed on the same browser.                                     *)
DroitsRecents ==
    \A p \in Requetes : pc[p] = "agir" =>
        /\ \E ligne \in depuis[p] : requete[p].besoin \in Droits(ligne)
        /\ requete[p].op = "page" => session[p] = Vise(requete[p])
        /\ requete[p].op = "agent" => {"mcp", requete[p].besoin} \subseteq requete[p].accordes

(* A login about to open a session has seen its account open, and with     *)
(* that very password, since it came in; the token is one nobody else has. *)
ConnexionFondee ==
    \A p \in Requetes : pc[p] = "sauver" /\ jeton[p] # requete[p].jeton =>
        /\ requete[p].op = "connexion"
        /\ session[p] = requete[p].compte
        /\ \E ligne \in depuis[p] : Reconnu(ligne, requete[p].mdp)
        /\ sessions[jeton[p]] = Personne
        /\ \A r \in Requetes \ {p} : jeton[r] # jeton[p]

(* Closing an account ends there: once it stays closed, a moment comes     *)
(* after which nobody acts for it any more, by a session or a token.       *)
FermetureEffective ==
    \A c \in Comptes :
        <>[](~comptes[c].actif) =>
            <>[](\A p \in Requetes : pc[p] = "agir" => Vise(requete[p]) # c)

(* "user disable" is the way to close an access: only "user enable" opens  *)
(* it again.                                                               *)
FermetureTenue ==
    [][\A c \in Comptes : comptes[c] # Inconnu /\ ~comptes[c].actif /\ comptes'[c].actif =>
          \E k \in Commandes : Ecrire(k) /\ commande[k] = Ordre("rouvrir", c, Personne, "aucun")
      ]_comptes

(* "handleLogout detruit la session" (adapters/web/login.go): it does not  *)
(* serve afterwards.                                                       *)
DeconnexionTenue ==
    \A p \in Requetes : pc[p] = "agir" => ~closeAvant[p]

-----------------------------------------------------------------------------
(* What holds between the steps: an inductive invariant, in parts.         *)

(* A session never changes hands. *)
TitulaireSeul == \A j \in Jetons : sessions[j] \in {Personne, titulaire[j]}

(* What scs holds for a request is the session of its token. *)
SessionOk(p) ==
    /\ session[p] # Personne => jeton[p] \in Jetons /\ titulaire[jeton[p]] = session[p]
    /\ pc[p] \in {"attente", "charger", "introspecter"} => session[p] = Personne
    /\ pc[p] # "attente" /\ requete[p].jeton # AucunJeton => titulaire[requete[p].jeton] # Personne
    /\ pc[p] # "sauver" => jeton[p] = requete[p].jeton

(* A request only goes through the steps of its own kind. *)
ParcoursOk(p) ==
    /\ pc[p] = "attente" => requete[p] = RienDemande
    /\ pc[p] = "introspecter" => requete[p].op = "agent"
    /\ pc[p] \in {"authentifier", "renouveler"} => requete[p].op = "connexion"
    /\ pc[p] = "charger" => requete[p].op # "agent"
    /\ pc[p] \in {"lire_compte", "agir"} => requete[p].op # "connexion"
    /\ pc[p] = "agir" => requete[p].op # "deconnexion"
    /\ requete[p].op = "agent" => session[p] = Personne /\ requete[p].jeton = AucunJeton
    /\ pc[p] \in {"lire_compte", "agir"} /\ requete[p].op # "agent" => session[p] # Personne
    /\ pc[p] \in {"detruire", "sauver"} => session[p] # Personne
    /\ pc[p] = "detruire" => requete[p].op \in {"page", "deconnexion"}
    /\ pc[p] # "attente" =>
          IF requete[p].op \in {"connexion", "agent"} THEN requete[p].compte \in Comptes
          ELSE requete[p].jeton \in Jetons

(* The witnesses of a request hold the row as it is. *)
TemoinOk(p) ==
    /\ pc[p] # "attente" => RangDe(Vise(requete[p])) \subseteq depuis[p]
    /\ pc[p] = "renouveler" =>
          \E ligne \in depuis[p] : Reconnu(ligne, requete[p].mdp)

(* A command that writes was asked for, and has read what it rewrites. *)
CommandeOk(k) ==
    /\ etape[k] # "attente" => commande[k] \in OrdresPermis
    /\ etape[k] = "lire" => commande[k].op # "ajouter"
    /\ etape[k] = "ecrire" /\ commande[k].op # "ajouter" =>
          lue[k] # Inconnu /\ comptes[commande[k].compte] # Inconnu

Coherence ==
    /\ TitulaireSeul
    /\ \A k \in Commandes : CommandeOk(k)
    /\ \A p \in Requetes : SessionOk(p) /\ ParcoursOk(p) /\ TemoinOk(p)
    /\ DroitsRecents
    /\ ConnexionFondee

-----------------------------------------------------------------------------
(* No two commands are under way on one account. *)
Serialises ==
    \A k, l \in Commandes :
        /\ etape[k] # "attente" /\ etape[l] # "attente"
        /\ commande[k].compte = commande[l].compte
        => k = l

(* What holds then: a command that writes has the row as it still is, and  *)
(* would change it.                                                        *)
LueFraiche ==
    \A k \in Commandes :
        etape[k] = "ecrire" /\ commande[k].op # "ajouter" =>
            /\ lue[k] = comptes[commande[k].compte]
            /\ ~SansEffet(commande[k], lue[k])

(* With one command at a time on an account, the component implements      *)
(* RegistreAcces.                                                          *)
Promesse == INSTANCE RegistreAcces
PromesseTenue == Promesse!Spec
=============================================================================

-------------------------------- MODULE Jetons --------------------------------
(***************************************************************************)
(* The OAuth server of an instance: consents, codes, rotation, replays and *)
(* revocation of tokens (adapters/web: oauth_authorize.go, oauth_token.go) *)
(* over OAuthStore (adapters/postgres: oauth.go, oauth_tx.go,              *)
(* oauth_grants.go).  Between the two, fosite decides which method of the  *)
(* store is called and when; it is modelled from the calls the store       *)
(* answers.                                                                *)
(*                                                                         *)
(* A process is one goroutine of the server that serves a request after    *)
(* another, one statement at a time, in READ COMMITTED: a statement sees   *)
(* the rows committed when it starts, waits for those that another         *)
(* transaction has changed, and looks at each again when it gets it.       *)
(* Every update of these tables makes rows inactive (or deletes one), so a *)
(* transaction is the set of rows it holds, and the pair it inserts.       *)
(***************************************************************************)
EXTENDS Naturals, FiniteSets

CONSTANTS
    Requetes,        \* goroutines of the server
    Autorisations,   \* request_id: one decision of one person each
    Paires,          \* an access token and its refresh token; a higher one is younger
    Couple,          \* the account and the client of each authorization
    Aucune,          \* no row
    Demandes         \* the requests people send: all, or a bound of a run

Codes == {"code"} \X Autorisations
Defis == {"defi"} \X Autorisations
JetonsDe(natures) == natures \X Paires
TousJetons == JetonsDe({"acces", "rafraichir"})
Lignes == Codes \cup Defis \cup TousJetons

ASSUME JetonsAssumption ==
    /\ Paires \subseteq Nat
    /\ Aucune \notin Paires \cup Autorisations \cup Lignes

VARIABLES
    accords,    \* table oauth_grants
    etat,       \* table oauth_tokens: column active, or no row
    famille,    \* its column request_id, for the tokens
    origine,    \* history: the code or the refresh token each pair replaced
    chutes,     \* history: the families revoked by a request that nothing crossed
    op,         \* what each request is
    cible,      \* the row it presents
    pc,         \* where it is
    tient,      \* the rows its transaction or its statement has changed
    reste,      \* those its statement still has to change
    neuve,      \* the pair its transaction has inserted
    seul        \* history: no other request on the family since it came in

tables == <<accords, etat, famille, origine, chutes>>
transaction == <<tient, reste, neuve>>
vars == <<tables, op, cible, pc, transaction, seul>>

Operations == {"aucune", "autoriser", "echanger", "tourner", "revoquer",
               "rejouer_code", "rejouer_jeton"}
Pas == {"attente", "noter", "creer_code", "creer_defi",
        "lire_code", "lire_defi", "effacer_defi", "relire_code", "consommer",
        "lire", "retirer", "effacer", "chercher",
        "rafraichir", "rafraichir_verrous", "acces", "acces_verrous", "emettre", "valider"}

EnTransaction(p) == op[p] \in {"echanger", "tourner", "rejouer_jeton"}

(* The family of a row: its column request_id. *)
FamilleDe(l) ==
    IF l \in TousJetons THEN famille[l[2]] ELSE IF l = Aucune THEN Aucune ELSE l[2]

Presentes == {l \in Lignes : etat[l] \in {"active", "inactive"}}
Actives == {l \in TousJetons : etat[l] = "active"}
Vierge(n) == etat[<<"acces", n>>] = "jamais" /\ \A r \in Requetes : neuve[r] # n

Init ==
    /\ accords = {}
    /\ etat = [l \in Lignes |-> "jamais"]
    /\ famille = [n \in Paires |-> Aucune]
    /\ origine = [n \in Paires |-> Aucune]
    /\ chutes = {}
    /\ op = [p \in Requetes |-> "aucune"]
    /\ cible = [p \in Requetes |-> Aucune]
    /\ pc = [p \in Requetes |-> "attente"]
    /\ tient = [p \in Requetes |-> {}]
    /\ reste = [p \in Requetes |-> {}]
    /\ neuve = [p \in Requetes |-> Aucune]
    /\ seul = [p \in Requetes |-> FALSE]

Aller(p, pas) == pc' = [pc EXCEPT ![p] = pas]

(* The answer leaves.  fosite rolls an open transaction back on its way.   *)
Repondre(p) ==
    /\ pc' = [pc EXCEPT ![p] = "attente"]
    /\ op' = [op EXCEPT ![p] = "aucune"]
    /\ cible' = [cible EXCEPT ![p] = Aucune]
    /\ tient' = [tient EXCEPT ![p] = {}]
    /\ reste' = [reste EXCEPT ![p] = {}]
    /\ neuve' = [neuve EXCEPT ![p] = Aucune]
    /\ seul' = [seul EXCEPT ![p] = FALSE]

(* The locals that most steps leave alone. *)
requete == <<op, cible, seul>>

-----------------------------------------------------------------------------
EnCours(r, a) == pc[r] # "attente" /\ FamilleDe(cible[r]) = a

Recevoir(p, o, l, pas) ==
    /\ pc[p] = "attente"
    /\ op' = [op EXCEPT ![p] = o]
    /\ cible' = [cible EXCEPT ![p] = l]
    /\ pc' = [pc EXCEPT ![p] = pas]
    /\ seul' = [r \in Requetes |->
                  IF r = p THEN \A q \in Requetes : ~EnCours(q, FamilleDe(l))
                  ELSE seul[r] /\ ~EnCours(r, FamilleDe(l))]
    /\ UNCHANGED <<tables, transaction>>

(* A person allows a client: POST /oauth/authorize, behind the login, is   *)
(* checked again from the start and its scopes against her rights.  The    *)
(* request draws its own request_id.                                       *)
RecevoirDecision(p) ==
    \E a \in Autorisations :
        /\ "autoriser" \in Demandes
        /\ etat[<<"code", a>>] = "jamais"
        /\ \A r \in Requetes : ~EnCours(r, a)
        /\ Recevoir(p, "autoriser", <<"code", a>>, "noter")

(* What clients hold: the codes that left with an answer, the tokens that  *)
(* were committed.  Of those whose answer was lost nobody presents any,    *)
(* which is one of the behaviours.                                         *)
Recus ==
    {<<"code", a>> : a \in {b \in Autorisations : etat[<<"defi", b>>] # "jamais"}}
    \cup {l \in TousJetons : origine[l[2]] # Aucune}

(* The bound of a run: a pair is left for each request that may issue one. *)
Reste ==
    Cardinality({n \in Paires : Vierge(n)}) > Cardinality({r \in Requetes : pc[r] # "attente"})

(* POST /oauth/token and /oauth/revoke, with what the client was given.    *)
RecevoirCode(p) ==
    \E l \in Recus \cap Codes :
        "echanger" \in Demandes /\ Reste /\ Recevoir(p, "echanger", l, "lire_code")

RecevoirJeton(p) ==
    \E l \in Recus \cap JetonsDe({"rafraichir"}) :
        "tourner" \in Demandes /\ Reste /\ Recevoir(p, "tourner", l, "lire")

RecevoirRevocation(p) ==
    \E l \in Recus \cap TousJetons :
        "revoquer" \in Demandes /\ Recevoir(p, "revoquer", l, "chercher")

-----------------------------------------------------------------------------
(* Mutation: a consent that could not be recorded is logged, and the code  *)
(* leaves all the same.                                                    *)
NoterSiPossible(p) ==
    /\ pc[p] = "noter"
    /\ accords' \in {accords, accords \cup {Couple[cible[p][2]]}}
    /\ Aller(p, "creer_code")
    /\ UNCHANGED <<etat, famille, origine, chutes, requete, transaction>>

(* handleOAuthAuthorizeDecision: RecordGrant, before the code exists; a    *)
(* second consent of the same couple changes nothing.                      *)
Noter(p) ==
    /\ pc[p] = "noter"
    /\ accords' = accords \cup {Couple[cible[p][2]]}
    /\ Aller(p, "creer_code")
    /\ UNCHANGED <<etat, famille, origine, chutes, requete, transaction>>

Poser(l) == etat' = [etat EXCEPT ![l] = "active"]

(* NewAuthorizeResponse: the code, then the PKCE challenge under the same  *)
(* signature, in two statements that no transaction holds together; the    *)
(* code leaves with the answer.                                            *)
CreerCode(p) ==
    /\ pc[p] = "creer_code"
    /\ Poser(cible[p])
    /\ Aller(p, "creer_defi")
    /\ UNCHANGED <<accords, famille, origine, chutes, requete, transaction>>

CreerDefi(p) ==
    /\ pc[p] = "creer_defi"
    /\ Poser(<<"defi", cible[p][2]>>)
    /\ Repondre(p)
    /\ UNCHANGED <<accords, famille, origine, chutes>>

-----------------------------------------------------------------------------
(* NewAccessRequest of a code.  One that has been used is a replay: the    *)
(* access tokens of the family fall, then the refresh tokens, without a    *)
(* transaction.                                                            *)
LireCode(p) ==
    /\ pc[p] = "lire_code"
    /\ \/ /\ etat[cible[p]] = "active"
          /\ Aller(p, "lire_defi")
          /\ UNCHANGED <<requete, transaction>>
       \/ /\ etat[cible[p]] = "inactive"
          /\ op' = [op EXCEPT ![p] = "rejouer_code"]
          /\ Aller(p, "acces")
          /\ UNCHANGED <<cible, seul, transaction>>
       \/ cible[p] \notin Presentes /\ Repondre(p)
    /\ UNCHANGED tables

Defi(p) == <<"defi", cible[p][2]>>

(* The PKCE handler: the challenge is read, ... *)
LireDefi(p) ==
    /\ pc[p] = "lire_defi"
    /\ \/ /\ etat[Defi(p)] = "active"
          /\ Aller(p, "effacer_defi")
          /\ UNCHANGED <<requete, transaction>>
       \/ etat[Defi(p)] # "active" /\ Repondre(p)
    /\ UNCHANGED tables

(* ... deleted (no row is no error), and only then compared with the       *)
(* verifier; checkResource comes after it.                                 *)
EffacerDefi(p) ==
    /\ pc[p] = "effacer_defi"
    /\ etat' = [etat EXCEPT ![Defi(p)] = "effacee"]
    /\ \/ Aller(p, "relire_code") /\ UNCHANGED <<requete, transaction>>
       \/ Repondre(p)
    /\ UNCHANGED <<accords, famille, origine, chutes>>

(* NewAccessResponse looks at the code again. *)
RelireCode(p) ==
    /\ pc[p] = "relire_code"
    /\ \/ /\ etat[cible[p]] = "active"
          /\ Aller(p, "consommer")
          /\ UNCHANGED <<requete, transaction>>
       \/ etat[cible[p]] # "active" /\ Repondre(p)
    /\ UNCHANGED tables

-----------------------------------------------------------------------------
(* Row locks.  A statement that needs a row waits for it to be free.       *)
Libre(p, l) == \A r \in Requetes \ {p} : l \notin tient[r]

Tenir(p, l) == tient' = [tient EXCEPT ![p] = @ \cup {l}]

(* BeginTX, then InvalidateAuthorizeCodeSession, whatever "active" is: two *)
(* requests that have both read the code active both consume it.           *)
Consommer(p) ==
    /\ pc[p] = "consommer"
    /\ Libre(p, cible[p])
    /\ \/ /\ cible[p] \in Presentes
          /\ Tenir(p, cible[p])
          /\ Aller(p, "emettre")
          /\ UNCHANGED <<requete, reste, neuve>>
       \/ cible[p] \notin Presentes /\ Repondre(p)
    /\ UNCHANGED tables

(* NewAccessRequest of a refresh token, outside of any transaction.  An    *)
(* inactive one is a replay; an active one may have expired.               *)
Lire(p) ==
    /\ pc[p] = "lire"
    /\ \/ /\ etat[cible[p]] = "active"
          /\ Aller(p, "retirer")
          /\ UNCHANGED <<requete, transaction>>
       \/ /\ etat[cible[p]] = "inactive"
          /\ op' = [op EXCEPT ![p] = "rejouer_jeton"]
          /\ Aller(p, "effacer")
          /\ UNCHANGED <<cible, seul, transaction>>
       \/ cible[p] \notin Presentes /\ Repondre(p)
    /\ UNCHANGED tables

(* Mutation: UPDATE ... WHERE kind = $1 AND signature = $2, as for a code. *)
RetirerSansCondition(p) ==
    /\ pc[p] = "retirer"
    /\ Libre(p, cible[p])
    /\ \/ /\ cible[p] \in Presentes
          /\ Tenir(p, cible[p])
          /\ Aller(p, "rafraichir")
          /\ UNCHANGED <<requete, reste, neuve>>
       \/ cible[p] \notin Presentes /\ Repondre(p)
    /\ UNCHANGED tables

(* BeginTX, then rotatePresentedToken: the row must still be active when   *)
(* the statement gets it, else the whole transaction is rolled back.       *)
Retirer(p) ==
    /\ pc[p] = "retirer"
    /\ Libre(p, cible[p])
    /\ \/ /\ etat[cible[p]] = "active"
          /\ Tenir(p, cible[p])
          /\ Aller(p, "rafraichir")
          /\ UNCHANGED <<requete, reste, neuve>>
       \/ etat[cible[p]] # "active" /\ Repondre(p)
    /\ UNCHANGED tables

(* The replay of a refresh token: BeginTX, DeleteRefreshTokenSession.      *)
Effacer(p) ==
    /\ pc[p] = "effacer"
    /\ Libre(p, cible[p])
    /\ IF cible[p] \in Presentes THEN Tenir(p, cible[p]) ELSE UNCHANGED tient
    /\ Aller(p, "rafraichir")
    /\ UNCHANGED <<tables, requete, reste, neuve>>

(* NewRevocationRequest: a token that is not active revokes nothing, and   *)
(* the answer is the same.                                                 *)
Chercher(p) ==
    /\ pc[p] = "chercher"
    /\ \/ /\ etat[cible[p]] = "active"
          /\ Aller(p, "rafraichir")
          /\ UNCHANGED <<requete, transaction>>
       \/ etat[cible[p]] # "active" /\ Repondre(p)
    /\ UNCHANGED tables

-----------------------------------------------------------------------------
(* RevokeRefreshToken, RevokeAccessToken: one UPDATE of all the rows of a  *)
(* kind in the family, those of its snapshot.                              *)
Verrous == [rafraichir |-> "rafraichir_verrous", acces |-> "acces_verrous"]
Nature(p) == IF pc[p] \in {"rafraichir", "rafraichir_verrous"} THEN "rafraichir" ELSE "acces"

(* Mutation: only the row that was presented. *)
BalayerPresentee(p) ==
    /\ pc[p] \in DOMAIN Verrous
    /\ reste' = [reste EXCEPT ![p] = ({cible[p]} \cap Presentes \cap JetonsDe({pc[p]})) \ tient[p]]
    /\ Aller(p, Verrous[pc[p]])
    /\ UNCHANGED <<tables, requete, tient, neuve>>

Balayer(p) ==
    /\ pc[p] \in DOMAIN Verrous
    /\ reste' = [reste EXCEPT ![p] =
            {l \in Presentes \cap JetonsDe({pc[p]}) :
                FamilleDe(l) = FamilleDe(cible[p])} \ tient[p]]
    /\ Aller(p, Verrous[pc[p]])
    /\ UNCHANGED <<tables, requete, tient, neuve>>

(* One row of the statement, when it is free and if it is still there.     *)
Verrouiller(p) ==
    /\ \E l \in reste[p] :
          /\ Libre(p, l)
          /\ reste' = [reste EXCEPT ![p] = @ \ {l}]
          /\ IF l \in Presentes THEN Tenir(p, l) ELSE UNCHANGED tient
    /\ UNCHANGED <<tables, requete, neuve, pc>>

Desactiver(lignes) ==
    etat' = [l \in Lignes |-> IF l \in lignes THEN "inactive" ELSE etat[l]]

Chuter(p) == chutes' = chutes \cup {a \in Autorisations : seul[p] /\ a = FamilleDe(cible[p])}

(* The statement is over.  Outside of a transaction it is committed.       *)
Premiere(p) == Nature(p) = IF op[p] = "rejouer_code" THEN "acces" ELSE "rafraichir"
Seconde(p) == IF op[p] = "rejouer_code" THEN "rafraichir" ELSE "acces"

Terminer(p) ==
    /\ pc[p] \in {"rafraichir_verrous", "acces_verrous"}
    /\ reste[p] = {}
    /\ \/ /\ EnTransaction(p)
          /\ Aller(p, IF Premiere(p) THEN Seconde(p)
                      ELSE IF op[p] = "tourner" THEN "emettre" ELSE "valider")
          /\ UNCHANGED <<tables, requete, transaction>>
       \/ /\ ~EnTransaction(p)
          /\ Desactiver(tient[p])
          /\ \/ /\ Premiere(p)
                /\ tient' = [tient EXCEPT ![p] = {}]
                /\ Aller(p, Seconde(p))
                /\ UNCHANGED <<chutes, requete, reste, neuve>>
             \/ /\ ~Premiere(p)
                /\ Chuter(p)
                /\ Repondre(p)
          /\ UNCHANGED <<accords, famille, origine>>

(* Outside of a transaction, a first statement that fails does not prevent *)
(* the second: the family is left half standing, and does not count as     *)
(* brought down.                                                           *)
Echouer(p) ==
    /\ op[p] \in {"rejouer_code", "revoquer"}
    /\ pc[p] \in {"rafraichir", "rafraichir_verrous", "acces", "acces_verrous"} /\ Premiere(p)
    /\ Aller(p, Seconde(p))
    /\ tient' = [tient EXCEPT ![p] = {}]
    /\ reste' = [reste EXCEPT ![p] = {}]
    /\ seul' = [seul EXCEPT ![p] = FALSE]
    /\ UNCHANGED <<tables, op, cible, neuve>>

(* CreateAccessTokenSession and CreateRefreshTokenSession, of the next     *)
(* pair; nobody else sees these rows yet.                                  *)
Emettre(p) ==
    /\ pc[p] = "emettre"
    /\ \E n \in Paires :
          /\ Vierge(n) /\ \A m \in Paires : Vierge(m) => n <= m
          /\ neuve' = [neuve EXCEPT ![p] = n]
    /\ Aller(p, "valider")
    /\ UNCHANGED <<tables, requete, tient, reste>>

(* The table once the transaction of p is committed. *)
Valide(p) ==
    [l \in Lignes |->
        CASE l \in tient[p] /\ op[p] = "rejouer_jeton" /\ l = cible[p] -> "effacee"
          [] l \in tient[p] /\ ~(op[p] = "rejouer_jeton" /\ l = cible[p]) -> "inactive"
          [] l \notin tient[p] /\ l \in TousJetons /\ l[2] = neuve[p] -> "active"
          [] OTHER -> etat[l]]

(* COMMIT; the client may never receive the answer. *)
Valider(p) ==
    LET n == neuve[p]
    IN /\ pc[p] = "valider"
       /\ etat' = Valide(p)
       /\ \/ /\ n = Aucune
             /\ Chuter(p)
             /\ UNCHANGED <<famille, origine>>
          \/ /\ n # Aucune
             /\ famille' = [famille EXCEPT ![n] = FamilleDe(cible[p])]
             /\ origine' = [origine EXCEPT ![n] = cible[p]]
             /\ UNCHANGED chutes
       /\ Repondre(p)
       /\ UNCHANGED accords

-----------------------------------------------------------------------------
(* The client hangs up, a statement fails, what it presents has expired,   *)
(* belongs to another client or asks for too much; or PostgreSQL chooses   *)
(* the request to end a deadlock.                                          *)
Abandonner(p) ==
    /\ pc[p] # "attente"
    /\ Repondre(p)
    /\ UNCHANGED tables

(* PurgeExpired, in the background.  Refresh tokens expire in the order    *)
(* they were issued, access tokens before them, and the code of a family   *)
(* before all its tokens.                                                  *)
Purger ==
    \E i, j \in Paires \cup {0}, codes \in SUBSET Autorisations :
        LET perimes ==
                Presentes \cap
                    ({<<"rafraichir", n>> : n \in {m \in Paires : m <= i}} \cup
                     {<<"acces", n>> : n \in {m \in Paires : m <= j}} \cup
                     ({"code", "defi"} \X codes))
        IN /\ i <= j
           /\ perimes # {}
           /\ \A l \in perimes \cap TousJetons : FamilleDe(l) \in codes
           /\ \A r \in Requetes : tient[r] \cap perimes = {}
           /\ etat' = [l \in Lignes |-> IF l \in perimes THEN "effacee" ELSE etat[l]]
           /\ UNCHANGED <<accords, famille, origine, chutes,
                          requete, pc, transaction>>

Etape(p) ==
    \/ Noter(p) \/ CreerCode(p) \/ CreerDefi(p)
    \/ LireCode(p) \/ LireDefi(p) \/ EffacerDefi(p) \/ RelireCode(p)
    \/ Lire(p) \/ Chercher(p)
    \/ Consommer(p) \/ Retirer(p) \/ Effacer(p) \/ Verrouiller(p)
    \/ Balayer(p) \/ Terminer(p) \/ Echouer(p) \/ Emettre(p) \/ Valider(p)

(* Nobody asks anything. *)
Repos ==
    /\ \A p \in Requetes : pc[p] = "attente"
    /\ UNCHANGED vars

Next ==
    \/ Repos
    \/ \E p \in Requetes :
          \/ RecevoirDecision(p)
          \/ RecevoirCode(p) \/ RecevoirJeton(p) \/ RecevoirRevocation(p)
          \/ Etape(p) \/ Abandonner(p)
    \/ Purger

Spec == Init /\ [][Next]_vars

-----------------------------------------------------------------------------
TypeOK ==
    /\ accords \subseteq {Couple[a] : a \in Autorisations}
    /\ etat \in [Lignes -> {"jamais", "active", "inactive", "effacee"}]
    /\ famille \in [Paires -> Autorisations \cup {Aucune}]
    /\ origine \in [Paires -> Codes \cup JetonsDe({"rafraichir"}) \cup {Aucune}]
    /\ chutes \subseteq Autorisations
    /\ op \in [Requetes -> Operations]
    /\ cible \in [Requetes -> Codes \cup TousJetons \cup {Aucune}]
    /\ pc \in [Requetes -> Pas]
    /\ tient \in [Requetes -> SUBSET (Codes \cup TousJetons)]
    /\ reste \in [Requetes -> SUBSET TousJetons]
    /\ neuve \in [Requetes -> Paires \cup {Aucune}]
    /\ seul \in [Requetes -> BOOLEAN]

(* Two rotations of the same refresh token never both succeed, whatever    *)
(* they have read before: it gets one successor at most (the reasoning     *)
(* written over RotateRefreshToken).                                       *)
UnSuccesseur ==
    \A m, n \in Paires :
        origine[m] = origine[n] /\ origine[m] \in JetonsDe({"rafraichir"}) => m = n

(* "Le jeton présenté et le jeton d'accès qu'il accompagnait cessent tous  *)
(* deux de valoir, à l'instant où leurs remplaçants sont émis": no state   *)
(* shows a token active beside its replacement.                            *)
RotationStricte ==
    \A m, n \in Paires :
        origine[n] = <<"rafraichir", m>> =>
            <<"rafraichir", m>> \notin Actives /\ <<"acces", m>> \notin Actives

(* A revocation, or the replay of a code or of a refresh token, that       *)
(* nothing else of the family crossed brings all of it down for ever: no   *)
(* token of it is active any more, and none will be issued.                *)
FamilleTombee ==
    \A l \in Actives : FamilleDe(l) \notin chutes

(* Nothing is given that a person has not consented to: the consent of the *)
(* couple is recorded before any code or token, whichever step fails.      *)
Consenti ==
    \A l \in Presentes : FamilleDe(l) \in Autorisations /\ Couple[FamilleDe(l)] \in accords

(* What is used, revoked or purged never comes back, by any statement of   *)
(* any request: what the detection of replays rests on.                    *)
Devenirs == [jamais   |-> {"jamais", "active", "effacee"},
             active   |-> {"active", "inactive", "effacee"},
             inactive |-> {"inactive", "effacee"},
             effacee  |-> {"effacee"}]

SansRetour == [][\A l \in Lignes : etat'[l] \in Devenirs[etat[l]]]_vars
=============================================================================

------------------------------ MODULE Identite ------------------------------
(***************************************************************************)
(* Accounts and what they allow (internal/identity): a row of table users, *)
(* the scopes of a role, and what each command of "avanti user" makes of   *)
(* a row.                                                                  *)
(*                                                                         *)
(* Of the nine scopes the model keeps three: "devis" stands for devis:*    *)
(* and planning:*, which every role has, "finance" for finance:* and       *)
(* document:*, which owners have, and "mcp".                               *)
(***************************************************************************)

CONSTANTS
    Comptes,       \* accounts, by their email
    MotsDePasse,
    Personne       \* no account

ASSUME PersonneAssumption == Personne \notin Comptes \cup MotsDePasse

Roles == {"proprietaire", "collaborateur"}
Scopes == {"devis", "finance", "mcp"}
ScopesDe == [proprietaire |-> Scopes, collaborateur |-> {"devis"}]

Lignes == [mdp : MotsDePasse, role : Roles, actif : BOOLEAN]

(* No row for this email. *)
Inconnu == [mdp |-> Personne, role |-> "aucun", actif |-> FALSE]

(* Mutation: User.Actor forgets to look at Active. *)
DroitsMemeFerme(ligne) == IF ligne = Inconnu THEN {} ELSE ScopesDe[ligne.role]

(* User.Actor: a closed account is anonymous, it has no scope at all. *)
Droits(ligne) == IF ligne.actif THEN ScopesDe[ligne.role] ELSE {}

(* Mutation: a token gives the scopes of the role too. *)
DroitsDuJetonReunis(ligne, accordes) ==
    Droits(ligne) \cup (IF ligne.actif THEN accordes ELSE {})

(* User.ActorWithScopes: never more than what the token was granted.       *)
DroitsDuJeton(ligne, accordes) == Droits(ligne) \cap accordes

(* AccountService.Authenticate *)
Reconnu(ligne, mdp) == ligne.mdp = mdp /\ ligne.actif

-----------------------------------------------------------------------------
(* The commands of "avanti user" that write. *)
Ordre(o, c, m, r) == [op |-> o, compte |-> c, mdp |-> m, role |-> r]

Ordres ==
    {Ordre("ajouter", c, m, r) : c \in Comptes, m \in MotsDePasse, r \in Roles}
    \cup {Ordre(o, c, Personne, "aucun") : o \in {"fermer", "rouvrir"}, c \in Comptes}
    \cup {Ordre("mot_de_passe", c, m, "aucun") : c \in Comptes, m \in MotsDePasse}
    \cup {Ordre("role", c, Personne, r) : c \in Comptes, r \in Roles}

(* Idempotence: the use case returns without writing. *)
SansEffet(k, ligne) ==
    \/ k.op = "fermer" /\ ~ligne.actif
    \/ k.op = "rouvrir" /\ ligne.actif
    \/ k.op = "role" /\ ligne.role = k.role

(* Create, Deactivate, Reactivate, ResetPassword, ChangeRole *)
Apres(k, ligne) ==
    CASE k.op = "ajouter" -> [mdp |-> k.mdp, role |-> k.role, actif |-> TRUE]
      [] k.op = "fermer" -> [ligne EXCEPT !.actif = FALSE]
      [] k.op = "rouvrir" -> [ligne EXCEPT !.actif = TRUE]
      [] k.op = "mot_de_passe" -> [ligne EXCEPT !.mdp = k.mdp]
      [] k.op = "role" -> [ligne EXCEPT !.role = k.role]
=============================================================================

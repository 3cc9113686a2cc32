--------------------------- MODULE RegistreAcces ---------------------------
(***************************************************************************)
(* What accounts and sessions promise to who administers them: a command   *)
(* changes what it names in the row as it is, and nothing else; a session  *)
(* token belongs to one account for ever, whoever saves or destroys the    *)
(* session and in whatever order.  Acces shows when the program implements *)
(* this.                                                                   *)
(***************************************************************************)
EXTENDS Identite

CONSTANT Jetons

VARIABLES
    comptes,     \* table users: [Comptes -> Lignes \cup {Inconnu}]
    sessions,    \* table sessions: [Jetons -> Comptes \cup {Personne}]
    titulaire    \* the account each token was drawn for

vars == <<comptes, sessions, titulaire>>

Init ==
    /\ comptes \in [Comptes -> Lignes \cup {Inconnu}]
    /\ sessions = [j \in Jetons |-> Personne]
    /\ titulaire = [j \in Jetons |-> Personne]

(* A command of "avanti user": creation for an unknown email, the others   *)
(* for an account that exists.                                             *)
Commander(k) ==
    /\ k.op = "ajouter" <=> comptes[k.compte] = Inconnu
    /\ ~SansEffet(k, comptes[k.compte])
    /\ comptes' = [comptes EXCEPT ![k.compte] = Apres(k, @)]
    /\ UNCHANGED <<sessions, titulaire>>

(* A login draws a token nobody ever had, in place of that of the cookie.  *)
Tirer(j, c) ==
    /\ titulaire[j] = Personne
    /\ titulaire' = [titulaire EXCEPT ![j] = c]
    /\ \E ancien \in Jetons : sessions' \in {sessions, [sessions EXCEPT ![ancien] = Personne]}
    /\ UNCHANGED comptes

Sauver(j) ==
    /\ titulaire[j] # Personne
    /\ sessions' = [sessions EXCEPT ![j] = titulaire[j]]
    /\ UNCHANGED <<comptes, titulaire>>

Effacer(j) ==
    /\ sessions' = [sessions EXCEPT ![j] = Personne]
    /\ UNCHANGED <<comptes, titulaire>>

Next ==
    \/ \E k \in Ordres : Commander(k)
    \/ \E j \in Jetons :
          \/ \E c \in Comptes : Tirer(j, c)
          \/ Sauver(j)
          \/ Effacer(j)

Spec == Init /\ [][Next]_vars
=============================================================================

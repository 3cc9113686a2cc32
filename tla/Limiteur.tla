------------------------------ MODULE Limiteur ------------------------------
(***************************************************************************)
(* The login limiter (adapters/web/ratelimit.go) and the form that calls   *)
(* it three times (handleLogin): blocked before the password is verified,  *)
(* failure or success after.  Each call holds the mutex; the verification, *)
(* slow on purpose, is between two of them, and other requests are too.    *)
(*                                                                         *)
(* Time is counted in ticks since the last failure of each key and stops   *)
(* at Fenetre, where nothing changes any more.  Keys whose last failures   *)
(* fall in the same tick may have come in any order.                       *)
(***************************************************************************)
EXTENDS Integers, FiniteSets

CONSTANTS
    Cles,       \* an account and an address
    Requetes,   \* goroutines
    AucuneCle,
    Seuil,      \* failuresBeforeBlock
    Fenetre,    \* blockWindow
    Plafond     \* trackedCap

ASSUME LimiteurAssumption ==
    /\ AucuneCle \notin Cles
    /\ IsFiniteSet(Cles) /\ IsFiniteSet(Requetes)
    /\ Seuil \in Nat \ {0} /\ Fenetre \in Nat \ {0} /\ Plafond \in Nat \ {0}

VARIABLES
    echecs,    \* attempts: failures of each key, 0 for a key out of the map
    age,       \* ticks since its last failure, in the map or not
    rates,     \* history: failures, up to Seuil, without a success nor a window of silence
    cle,       \* the key of each request
    pc         \* where it is

carte == <<echecs, age, rates>>
vars == <<carte, cle, pc>>

Pas == {"attente", "consulter", "verifier", "rater", "reussir"}

Suivies == {k \in Cles : echecs[k] > 0}
Perimees == {k \in Suivies : age[k] = Fenetre}
Bloquee(k) == echecs[k] >= Seuil /\ age[k] < Fenetre
Essais(k) == {p \in Requetes : cle[p] = k /\ pc[p] \in {"verifier", "rater", "reussir"}}

Init ==
    /\ echecs = [k \in Cles |-> 0]
    /\ age = [k \in Cles |-> Fenetre]
    /\ rates = [k \in Cles |-> 0]
    /\ cle = [p \in Requetes |-> AucuneCle]
    /\ pc = [p \in Requetes |-> "attente"]

Aller(p, pas) ==
    /\ pc' = [pc EXCEPT ![p] = pas]
    /\ UNCHANGED cle

Repondre(p) ==
    /\ pc' = [pc EXCEPT ![p] = "attente"]
    /\ cle' = [cle EXCEPT ![p] = AucuneCle]

-----------------------------------------------------------------------------
Recevoir(p) ==
    /\ pc[p] = "attente"
    /\ pc' = [pc EXCEPT ![p] = "consulter"]
    /\ \E k \in Cles : cle' = [cle EXCEPT ![p] = k]
    /\ UNCHANGED carte

(* Mutation: an attempt that is refused starts the window again. *)
ConsulterProlonge(p) ==
    /\ pc[p] = "consulter"
    /\ LET k == cle[p]
       IN \/ /\ Bloquee(k)
             /\ age' = [age EXCEPT ![k] = 0]
             /\ UNCHANGED <<echecs, rates>> /\ Repondre(p)
          \/ /\ ~Bloquee(k)
             /\ UNCHANGED carte
             /\ Aller(p, "verifier")

(* Mutation: off by one, the threshold itself is let through. *)
ConsulterTrop(p) ==
    /\ pc[p] = "consulter"
    /\ LET k == cle[p]
       IN \/ Bloquee(k) /\ echecs[k] > Seuil /\ UNCHANGED echecs /\ Repondre(p)
          \/ /\ ~(Bloquee(k) /\ echecs[k] > Seuil)
             /\ echecs' = IF echecs[k] <= Seuil THEN echecs ELSE [echecs EXCEPT ![k] = 0]
             /\ Aller(p, "verifier")
    /\ UNCHANGED <<age, rates>>

(* blocked: refuses, or forgets a counter whose window has passed. *)
Consulter(p) ==
    /\ pc[p] = "consulter"
    /\ LET k == cle[p]
       IN \/ Bloquee(k) /\ UNCHANGED echecs /\ Repondre(p)
          \/ /\ ~Bloquee(k)
             /\ echecs' = IF echecs[k] < Seuil THEN echecs ELSE [echecs EXCEPT ![k] = 0]
             /\ Aller(p, "verifier")
    /\ UNCHANGED <<age, rates>>

(* Authenticate: a refusal, an account that is recognised, or a breakdown  *)
(* that the limiter is not told about.  openSession may break down too.    *)
Verifier(p) ==
    /\ pc[p] = "verifier"
    /\ Aller(p, "rater") \/ Aller(p, "reussir") \/ Repondre(p)
    /\ UNCHANGED carte

(* Mutations: the most recent key leaves; only expired ones do. *)
EvincerLaDerniere ==
    LET restent == Suivies \ Perimees
    IN IF Cardinality(Suivies) < Plafond THEN {{}}
       ELSE IF Cardinality(restent) < Plafond THEN {Perimees}
       ELSE {Perimees \cup {k} : k \in {x \in restent : \A y \in restent : age[x] <= age[y]}}
EvincerPerimees == IF Cardinality(Suivies) < Plafond THEN {{}} ELSE {Perimees}

(* evict: what leaves the map before a key is added.                       *)
Evincer ==
    LET restent == Suivies \ Perimees
    IN IF Cardinality(Suivies) < Plafond THEN {{}}
       ELSE IF Cardinality(restent) < Plafond THEN {Perimees}
       ELSE {Perimees \cup {k} : k \in {x \in restent : \A y \in restent : age[y] <= age[x]}}

(* A counter that is out of date starts again. *)
Compter(k) == IF age[k] = Fenetre THEN 1 ELSE echecs[k] + 1

(* failure: a key that is not in the map makes room for itself.            *)
Rater(p) ==
    /\ pc[p] = "rater"
    /\ LET k == cle[p]
       IN /\ \E sortent \in IF k \in Suivies THEN {{}} ELSE Evincer :
                echecs' = [x \in Cles |-> IF x = k THEN Compter(k)
                                          ELSE IF x \in sortent THEN 0 ELSE echecs[x]]
          /\ age' = [age EXCEPT ![k] = 0]
          /\ rates' = [rates EXCEPT ![k] = IF age[k] = Fenetre THEN 1
                                           ELSE IF @ < Seuil THEN @ + 1 ELSE @]
    /\ Repondre(p)

(* Mutation: a login that succeeds keeps the failures that came before. *)
ReussirSansEffacer(p) ==
    /\ pc[p] = "reussir"
    /\ rates' = [rates EXCEPT ![cle[p]] = 0]
    /\ Repondre(p)
    /\ UNCHANGED <<echecs, age>>

(* success *)
Reussir(p) ==
    /\ pc[p] = "reussir"
    /\ echecs' = [echecs EXCEPT ![cle[p]] = 0]
    /\ rates' = [rates EXCEPT ![cle[p]] = 0]
    /\ Repondre(p)
    /\ UNCHANGED age

Tic ==
    /\ \E k \in Cles : age[k] < Fenetre
    /\ age' = [k \in Cles |-> IF age[k] < Fenetre THEN age[k] + 1 ELSE Fenetre]
    /\ UNCHANGED <<echecs, rates, cle, pc>>

-----------------------------------------------------------------------------
Etape(p) == Consulter(p) \/ Verifier(p) \/ Rater(p) \/ Reussir(p)

Next ==
    \/ \E p \in Requetes : Recevoir(p) \/ Etape(p)
    \/ Tic

Spec == Init /\ [][Next]_vars

(* Time passes and every request advances. *)
FairSpec == Spec /\ WF_vars(Tic) /\ \A p \in Requetes : WF_vars(Etape(p))

-----------------------------------------------------------------------------
(* A key fails once more than the threshold for every other request that   *)
(* was through already.                                                    *)
EchecsMax == Seuil + Cardinality(Requetes) - 1

TypeOK ==
    /\ echecs \in [Cles -> 0..EchecsMax]
    /\ age \in [Cles -> 0..Fenetre]
    /\ rates \in [Cles -> 0..Seuil]
    /\ cle \in [Requetes -> Cles \cup {AucuneCle}]
    /\ pc \in [Requetes -> Pas]
    /\ \A p \in Requetes : pc[p] # "attente" <=> cle[p] \in Cles

(* Nobody waits without a reason: a blocked key has failed Seuil times     *)
(* since its last success, with never a window of silence between two      *)
(* failures, whatever was evicted or forgotten in between.                 *)
BlocageFonde ==
    \A k \in Cles :
        age[k] < Fenetre => echecs[k] <= rates[k] \/ rates[k] = Seuil

(* Whatever the number of addresses, the map keeps its size. *)
CarteBornee == Cardinality(Suivies) <= Plafond

(* The check before and the count after are not atomic: a key fails at     *)
(* most once more than the threshold for every request that was already    *)
(* through when it got blocked, and never more.                            *)
EssaisBornes ==
    \A k \in Cles : echecs[k] >= Seuil =>
        echecs[k] + Cardinality(Essais(k)) < Seuil + Cardinality(Requetes)

(* A key is only forgotten by a success, by its window, or, the map being  *)
(* full of counters that still matter, because it is the oldest.           *)
OubliJustifie ==
    [][\A k \in Suivies : echecs'[k] < echecs[k] =>
          \/ age[k] = Fenetre
          \/ \E p \in Requetes : cle[p] = k /\ Reussir(p)
          \/ /\ Cardinality(Suivies \ Perimees) >= Plafond
             /\ \A y \in Suivies \ Perimees : age[y] <= age[k]
      ]_vars

(* Who tries while a key is blocked prolongs nothing: no attempt is added  *)
(* to those that were through already, and only one of these, which is     *)
(* over then, starts the window again.                                     *)
SansRallonge ==
    [][\A k \in Cles : Bloquee(k) =>
          /\ Essais(k)' \subseteq Essais(k)
          /\ age'[k] < age[k] => \E p \in Essais(k) \ Essais(k)' : Rater(p)
      ]_vars

(* A key that is blocked does not stay so, however hard one tries.         *)
BlocageFini == \A k \in Cles : []<>(~Bloquee(k))
=============================================================================

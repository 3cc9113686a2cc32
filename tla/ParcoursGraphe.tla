--------------------------- MODULE ParcoursGraphe ---------------------------
(***************************************************************************)
(* planning.CheckAcyclic (internal/planning/etape.go): a depth-first walk  *)
(* in three colours of the graph of the prerequisites, step by step.  The  *)
(* Go stack of visit is chemin (its parameter trail); reste holds, for     *)
(* each step being visited, the prerequisites its loop has not looked at.  *)
(* The order of the slices is arbitrary, the model takes any.              *)
(***************************************************************************)
EXTENDS Integers, Sequences, GrapheEtapes

CONSTANT Noms       \* identifiers of the steps of the works

VARIABLES
    etapes,         \* the steps given to CheckAcyclic
    prerequis,      \* their DependsOn
    couleurs,       \* colors; "blanc" also stands for an absent key
    chemin,         \* trail
    reste,          \* what each loop over DependsOn has left
    verdict,        \* what CheckAcyclic returns, "aucun" until then
    boucle          \* what cycleLabel names: a part of the trail

donnees == <<etapes, prerequis>>
vars == <<donnees, couleurs, chemin, reste, verdict, boucle>>

Sommet == chemin[Len(chemin)]

Init ==
    /\ etapes \in SUBSET Noms
    /\ prerequis \in [etapes -> SUBSET Noms]
    /\ couleurs = [e \in etapes |-> "blanc"]
    /\ chemin = <<>>
    /\ reste = [e \in etapes |-> {}]
    /\ verdict = "aucun"
    /\ boucle = <<>>

(* The head of visit(e, trail). *)
Visiter(e, autres) ==
    /\ couleurs' = [couleurs EXCEPT ![e] = "gris"]
    /\ chemin' = Append(chemin, e)
    /\ reste' = [autres EXCEPT ![e] = prerequis[e]]

(* The outer loop finds a step never visited. *)
Commencer ==
    /\ verdict = "aucun" /\ chemin = <<>>
    /\ \E e \in etapes : couleurs[e] = "blanc" /\ Visiter(e, reste)
    /\ UNCHANGED <<donnees, verdict, boucle>>

(* cycleLabel: the part of the trail that loops. *)
Nommer(dep) ==
    LET debut == CHOOSE i \in 1..Len(chemin) : chemin[i] = dep
    IN SubSeq(chemin, debut, Len(chemin))

(* Mutation: any step met twice is taken for a loop. *)
SuivreSansNoir(dep) ==
    LET autres == [reste EXCEPT ![Sommet] = @ \ {dep}]
    IN \/ /\ dep \notin etapes
          /\ reste' = autres
          /\ UNCHANGED <<couleurs, chemin, verdict, boucle>>
       \/ /\ dep \in etapes /\ couleurs[dep] = "blanc"
          /\ Visiter(dep, autres)
          /\ UNCHANGED <<verdict, boucle>>
       \/ /\ dep \in etapes /\ couleurs[dep] # "blanc"
          /\ verdict' = "cycle"
          /\ boucle' = <<dep>>
          /\ UNCHANGED <<couleurs, chemin, reste>>

(* One turn of the loop of visit: the prerequisite is no step of the list, *)
(* or done with, or new, or on the trail, which is a cycle.                *)
Suivre(dep) ==
    LET autres == [reste EXCEPT ![Sommet] = @ \ {dep}]
    IN \/ /\ dep \in etapes => couleurs[dep] = "noir"
          /\ reste' = autres
          /\ UNCHANGED <<couleurs, chemin, verdict, boucle>>
       \/ /\ dep \in etapes /\ couleurs[dep] = "blanc"
          /\ Visiter(dep, autres)
          /\ UNCHANGED <<verdict, boucle>>
       \/ /\ dep \in etapes /\ couleurs[dep] = "gris"
          /\ verdict' = "cycle"
          /\ boucle' = Nommer(dep)
          /\ UNCHANGED <<couleurs, chemin, reste>>

Avancer ==
    /\ verdict = "aucun" /\ chemin # <<>>
    /\ \E dep \in reste[Sommet] : Suivre(dep)
    /\ UNCHANGED donnees

(* Mutation: a step left is painted white again, not black. *)
RevenirEnBlanc ==
    /\ verdict = "aucun" /\ chemin # <<>>
    /\ reste[Sommet] = {}
    /\ couleurs' = [couleurs EXCEPT ![Sommet] = "blanc"]
    /\ chemin' = SubSeq(chemin, 1, Len(chemin) - 1)
    /\ UNCHANGED <<donnees, reste, verdict, boucle>>

(* visit returns without a cycle. *)
Revenir ==
    /\ verdict = "aucun" /\ chemin # <<>>
    /\ reste[Sommet] = {}
    /\ couleurs' = [couleurs EXCEPT ![Sommet] = "noir"]
    /\ chemin' = SubSeq(chemin, 1, Len(chemin) - 1)
    /\ UNCHANGED <<donnees, reste, verdict, boucle>>

(* Every step has been visited. *)
Conclure ==
    /\ verdict = "aucun" /\ chemin = <<>>
    /\ \A e \in etapes : couleurs[e] # "blanc"
    /\ verdict' = "acyclique"
    /\ UNCHANGED <<donnees, couleurs, chemin, reste, boucle>>

Fini == verdict # "aucun" /\ UNCHANGED vars

Next == Commencer \/ Avancer \/ Revenir \/ Conclure \/ Fini

Spec == Init /\ [][Next]_vars

-----------------------------------------------------------------------------
TypeOK ==
    /\ etapes \in SUBSET Noms
    /\ prerequis \in [etapes -> SUBSET Noms]
    /\ couleurs \in [etapes -> {"blanc", "gris", "noir"}]
    /\ chemin \in Seq(etapes)
    /\ reste \in [etapes -> SUBSET Noms]
    /\ verdict \in {"aucun", "acyclique", "cycle"}
    /\ boucle \in Seq(etapes)

(* What is grey is the trail, each step of it once and each a prerequisite *)
(* of the one before; what is black depends on nothing but black, and on   *)
(* itself in no way.                                                       *)
ParcoursOk ==
    /\ \A i, j \in 1..Len(chemin) : chemin[i] = chemin[j] => i = j
    /\ \A e \in etapes : couleurs[e] = "gris" <=> \E i \in 1..Len(chemin) : chemin[i] = e
    /\ \A i \in 1..(Len(chemin) - 1) : chemin[i + 1] \in prerequis[chemin[i]]
    /\ \A i \in 1..Len(chemin) :
          /\ reste[chemin[i]] \subseteq prerequis[chemin[i]]
          /\ \A dep \in (prerequis[chemin[i]] \cap etapes) \ reste[chemin[i]] :
                couleurs[dep] = "noir" \/ (i < Len(chemin) /\ dep = chemin[i + 1])
    /\ \A e \in etapes : couleurs[e] = "noir" =>
          \A dep \in prerequis[e] \cap etapes : couleurs[dep] = "noir"
    /\ Acyclique(prerequis, {e \in etapes : couleurs[e] = "noir"})

(* The verdict is right: no cycle is missed, whatever is shared or         *)
(* unconnected in the graph, and no graph without one is refused.          *)
VerdictJuste ==
    /\ verdict = "acyclique" => Acyclique(prerequis, etapes)
    /\ verdict = "cycle" => ~Acyclique(prerequis, etapes)

(* The steps the error names are the loop and nothing else, each depending *)
(* on the next and the last on the first (internal/planning/bounds_test.go *)
(* expects exactly this).                                                  *)
BoucleNommee ==
    verdict = "cycle" =>
        /\ boucle # <<>>
        /\ \A i \in 1..Len(boucle) :
              boucle[IF i = Len(boucle) THEN 1 ELSE i + 1] \in prerequis[boucle[i]]
        /\ \A i, j \in 1..Len(boucle) : boucle[i] = boucle[j] => i = j

(* No step is walked twice and no prerequisite looked at twice in the same *)
(* visit, however much the paths of the graph share: colours only darken,  *)
(* the loop of a step once visited only has less to do, and each turn      *)
(* does one or the other, or returns: the walk of a graph ends.            *)
ChaquePasAvance ==
    [][ /\ \A e \in etapes : couleurs'[e] # couleurs[e] =>
              <<couleurs[e], couleurs'[e]>> \in {<<"blanc", "gris">>, <<"gris", "noir">>}
        /\ \A e \in etapes : couleurs[e] # "blanc" => reste'[e] \subseteq reste[e]
        /\ \/ verdict = "aucun" /\ verdict' # "aucun"
           \/ \E e \in etapes : \/ couleurs'[e] # couleurs[e]
                                \/ couleurs[e] = "gris" /\ reste'[e] # reste[e]
      ]_vars
=============================================================================

SPECIFICATION FairSpec
CONSTANTS
    q1 = q1
    q2 = q2
    d1 = d1
    d2 = d2
    d3 = d3
    d4 = d4
    Requetes = {r1, r2}
    Personne = Personne
    Demandes = {q1, q2}
    Devis = {d1, d2, d3, d4}
    demandeDe <- Concurrence
    PoolMax = 3
INVARIANTS
    DemandeTranchee
    DecisionIndivisible
    ReponseVraie
PROPERTIES
    DecisionDefinitive
    PromesseTenue
    ToutesRepondues

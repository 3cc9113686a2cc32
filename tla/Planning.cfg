SPECIFICATION FairSpec
CONSTANTS
    Requetes = {r1, r2}
    Etapes = {e1, e2}
INVARIANTS
    SansCycle
    DemarrageLegitime
    RienEcraseSansLeVoir
    ReponseVraie
PROPERTIES
    Avancement
    PromesseTenue
    ToutesRepondues

SPECIFICATION FairSpec
CONSTANTS
    Comptes = {c1}
    MotsDePasse = {m1}
    Personne = Personne
    AucunJeton = AucunJeton
    Requetes = {p1}
    Commandes = {k1}
    Jetons = {j1, j2}
    Demandes = {"page", "deconnexion", "connexion", "agent"}
    OrdresPermis <- TousLesOrdres
INVARIANTS
    ConnexionFondee
    DroitsRecents
PROPERTIES
    PromesseTenue
    FermetureEffective

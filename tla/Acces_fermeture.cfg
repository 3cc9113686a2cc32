SPECIFICATION Spec
CONSTANTS
    Comptes = {c1}
    MotsDePasse = {m1}
    Personne = Personne
    AucunJeton = AucunJeton
    Requetes = {p1}
    Commandes = {k1, k2}
    Jetons = {j1}
    Demandes = {}
    OrdresPermis <- FermerEtRole
SYMMETRY Symetrie
PROPERTIES
    FermetureTenue

SPECIFICATION Spec
CONSTANTS
    Comptes = {c1}
    MotsDePasse = {m1}
    Personne = Personne
    AucunJeton = AucunJeton
    Requetes = {p1, p2}
    Commandes = {}
    Jetons = {j1}
    Demandes = {"page", "connexion", "deconnexion"}
    OrdresPermis <- Aucun
SYMMETRY Symetrie
INVARIANTS
    DeconnexionTenue

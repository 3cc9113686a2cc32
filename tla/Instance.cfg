SPECIFICATION FairSpec
CONSTANTS
    r1 = r1
    a1 = a1
    Requetes = {r1}
    Amorces = {a1}
    Serveur = serveur
    Appelants <- AppelantsMC
    Documents = {1, 2}
    Aucun = Aucun
    Migrations = 2
    Saisies = {"factures"}
INVARIANTS
    SchemaAJour
    PoolTenu
    AmorceSurVide
    PieceEntiere
    PieceConfirmee
PROPERTIES
    ArretFinit

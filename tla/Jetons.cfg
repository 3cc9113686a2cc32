SPECIFICATION Spec
CONSTANTS
    Requetes = {r1, r2}
    a1 = a1
    couple = couple
    Autorisations = {a1}
    Paires = {1, 2, 3}
    Couple <- CoupleUn
    Aucune = Aucune
    Demandes = {"autoriser", "echanger", "tourner", "revoquer"}
SYMMETRY Symetrie
INVARIANTS
    UnSuccesseur
    RotationStricte
    FamilleTombee
    Consenti

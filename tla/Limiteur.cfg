SPECIFICATION FairSpec
CONSTANTS
    Cles = {k1, k2, k3}
    Requetes = {p1, p2}
    AucuneCle = AucuneCle
    Seuil = 2
    Fenetre = 2
    Plafond = 2
INVARIANTS
    BlocageFonde
    CarteBornee
    EssaisBornes
PROPERTIES
    OubliJustifie
    BlocageFini

SPECIFICATION FairSpec
CONSTANTS
    Requetes = {r1, r2}
    Pieces = {i1, i2}
    d1 = d1
    Devis = {d1}
    HorsDevis = HorsDevis
    Aucune = Aucune
    Engage <- EngageUn
    Cle <- CleUne
    Montants = {1, 2}
    Demandes = {"facture", "acompte", "synthese"}
INVARIANTS
    CumulSousEngagement
    DepassementFonde
    SyntheseEncadree
PROPERTIES
    ToutesRepondues

SPECIFICATION Spec
CONSTANTS
    Requetes = {r1, r2, r3}
    Pieces = {i1}
    d1 = d1
    Devis = {d1}
    HorsDevis = HorsDevis
    Aucune = Aucune
    Engage <- EngageUn
    Cle <- CleUne
    Montants = {1, 2}
    Demandes = {"facture", "acompte", "payer", "envoyer", "rembourser"}
SYMMETRY Symetrie
INVARIANTS
    RienPerdu
PROPERTIES
    PromesseTenue

SPECIFICATION Spec
CONSTANTS
    Noms = {n1, n2, n3}
INVARIANTS
    VerdictJuste
PROPERTIES
    ChaquePasAvance

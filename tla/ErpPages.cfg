SPECIFICATION Spec
CONSTANTS
    d1 = d1
    d2 = d2
    Docs <- TwoDocs
    None = None
    MaxOut = 2
INVARIANTS
    TypeOK
    FormsAgree
    SuccessLeaves
SYMMETRY Symmetric

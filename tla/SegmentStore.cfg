CONSTANTS
    a = a
    b = b
    c = c
    e = e
    Docs = {a, b, c, e}
    Layouts <- StoreLayouts

SPECIFICATION Spec

INVARIANTS
    TypeOK
    LatestAnswers
    NeverBlank
    ColdLoadHolds
    DeletedStaysGone


    

CHECK_DEADLOCK FALSE

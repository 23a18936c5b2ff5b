CONSTANTS
    a = a
    b = b
    c = c
    e = e
    Docs = {a, b, c, e}
    Layouts <- ReclaimLayouts

SPECIFICATION Spec

INVARIANT
    NeverNeither

CHECK_DEADLOCK FALSE

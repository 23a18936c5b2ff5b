CONSTANTS
    a = a  b = b  c = c
    x = x  y = y  z = z  u = u
    w1 = w1
    None = None
    Docs = {a, b, c}
    Segs = {x, y, z, u}
    Members <- MCMembers
    Swappers = {w1}
    TailLimit = 2
    DropLimit = 2
    MaxEntries = 3
SPECIFICATION Spec
INVARIANTS TypeOK AnswersAreNewest DistinctAgrees

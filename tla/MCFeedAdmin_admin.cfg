SPECIFICATION Spec
CONSTANTS
    a1 = a1
    a2 = a2
    a3 = a3
    i1 = i1
    i2 = i2
    i3 = i3
    u1 = u1
    u2 = u2
    Admins = {a1, a2, a3}
    Urls = {u1, u2}
    Ids = {i1, i2, i3}
    CallsFail = TRUE
SYMMETRY MCSymmetry
INVARIANTS
    TypeOK
    OneRowPerUrl
    DeletedStaysDeleted

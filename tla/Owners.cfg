SPECIFICATION OwnersSpec
CONSTANTS
    Persons = {p1, p2}
    Names = {n1, n2}
    NoName = NoName
    Requests = {j1, j2}
    Users = {u1, u2, u3}
    Nobody = Nobody
    Identities = {i1, i2, i3}
    Plain = {r1}
    Named = {c1, c2}
    Jobs = {j1, j2}
SYMMETRY Symmetry
CHECK_DEADLOCK FALSE
INVARIANTS OwnersTypeOK LinkWorks NothingLost KeepsAnIdentity

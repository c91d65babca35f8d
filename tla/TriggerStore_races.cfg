CONSTANTS
    c1 = c1
    c2 = c2
    n1 = n1
    n2 = n2
    k1 = k1
    k2 = k2
    s1 = s1
    s2 = s2
    Client = {c1, c2}
    Name = {n1, n2}
    Key = {k1, k2}
    SetName = {s1, s2}
    MaxId = 4
    Turns = {TRUE, FALSE}
    None = None
SPECIFICATION Spec
SYMMETRY MCSymmetry
INVARIANT MembersAreStored
INVARIANT CreatedIsAccountedFor
INVARIANT DeletedStaysDeleted
PROPERTY ImplementsCatalog

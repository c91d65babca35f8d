CONSTANTS
    c1 = c1
    c2 = c2
    n1 = n1
    n2 = n2
    k1 = k1
    k2 = k2
    s1 = s1
    s2 = s2
    Client = {c1, c2}
    Name = {n1, n2}
    Key = {k1, k2}
    SetName = {}
    MaxId = 4
    Turns = {TRUE}
    None = None
SPECIFICATION Spec
PROPERTY ToggleAnswersSuccess

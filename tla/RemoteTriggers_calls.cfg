CONSTANTS
    w1 = w1
    w2 = w2
    p1 = p1
    p2 = p2
    n1 = n1
    n2 = n2
    k1 = k1
    k2 = k2
    Client = {w1, w2}
    Caller = {p1, p2}
    Name = {n1, n2}
    Key = {k1, k2}
    SetName = {}
    MaxId = 3
    MaxRequests = 3
    Turns = {FALSE}
    None = None
SPECIFICATION RemoteSpec
SYMMETRY MCSymmetry
VIEW MCView
CHECK_DEADLOCK FALSE
INVARIANT AnswersWereTrue
INVARIANT AnswersAreFinal

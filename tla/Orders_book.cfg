CONSTANTS
    None = None
    Client = {c1, c2}
    Id = {i1, i2}
    Misread = {i2}
    Request <- MCRequest
    MaxCalls = 2
    MaxResends = 1
    MaxLate = 1
SYMMETRY Terminals
SPECIFICATION Spec
INVARIANT OneOrderPerRequest
INVARIANT AnswersMatchTheBook

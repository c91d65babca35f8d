CONSTANTS
    A = A
    B = B
    C = C
    None = None
    Symbol = {A, B, C}
    Selection <- MCSelection
    Date <- MCDate
    Null = Null
    Code <- MCCode
    Statement <- MCStatement
    Filings <- MCFilings
    Daily <- MCDaily
    Statements <- MCStatements
    Shares <- MCShares
    Caps <- MCCaps
    Traded <- MCTraded
    BatchSize = 2
    MaxAttempts = 2
SPECIFICATION Spec
INVARIANT TypeOK
INVARIANT FilingsAreStored
INVARIANT CountIsExact
PROPERTY ValuesAreAsOf
PROPERTY RunsEnd

CONSTANTS
    A = A
    B = B
    Symbol = {A, B}
    Wanted <- MCWanted
    Stream = {live}
    SymbolOf <- MCSymbolOf
    Frame <- MCFrame
    MaxQuote = 1
SPECIFICATION Spec
INVARIANT PingKeepsTheStream

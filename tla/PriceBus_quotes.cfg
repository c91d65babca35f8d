CONSTANTS
    A = A
    B = B
    Symbol = {A, B}
    Wanted <- MCWanted
    Stream = {live}
    SymbolOf <- MCSymbolOf
    Frame <- MCFrame
    MaxQuote = 2
SPECIFICATION FairSpec
INVARIANT EveryQuoteIsAccountedFor
PROPERTY QuotesAreSeenInOrder
PROPERTY ClosedStreamsStop

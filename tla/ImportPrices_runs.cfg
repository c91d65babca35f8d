CONSTANTS
    A = A
    B = B
    V = V
    VIndex = VIndex
    None = None
    Missing = Missing
    Unknown = Unknown
    Run = {r1, r2}
    Symbol = {A, B, V}
    Date <- MCDate
    YahooAlias <- MCYahooAlias
    Feed <- MCFeed
    Ask <- MCAsk
    BatchSize = 2
    MaxAttempts = 2
SPECIFICATION Spec
INVARIANT SuccessIsComplete
INVARIANT CountsAddUp
 
INVARIANT ProgressAddsUp
PROPERTY RunsEnd

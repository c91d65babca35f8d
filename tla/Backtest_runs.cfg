CONSTANTS
    Short = 2
    Long = 3
    Pullback = 4
    Rising = 2
    Trail = 2
    Skip = 0
    HoldDays = 2
    TopN = 1
    Rebalance = 2
    Fallback = "universe"
    UseVov = FALSE
    VovLookback = 1
    VovMax = 30
    Symbol <- MCSymbol
    Day <- MCDay
    History <- MCHistory
    Request <- MCRequest
    MinBars = 3
    Warmup = 1
    StopPct = 20
    MaxPositions = 1
SPECIFICATION Spec
INVARIANT FillsAreHonest
INVARIANT CapIsExact
INVARIANT BooksBalance
INVARIANT SignalsNeverPeek
INVARIANT RotationIsFollowed
CHECK_DEADLOCK FALSE

CONSTANTS
    Short = 2
    Long = 3
    Pullback = 4
    Rising = 2
    Trail = 2
    Skip = 1
    HoldDays = 2
    TopN = 1
    Rebalance = 2
    Fallback = "universe"
    UseVov = TRUE
    VovLookback = 1
    VovMax = 30
    RangeBars = 4
    Weekend = {3}
    analyst = analyst
    operator = operator
    etf = etf
    tech = tech
    junk = junk
    N = N
    Q = Q
    beta = beta
    Symbol <- MCSymbol
    Exchange <- MCExchange
    Tag <- MCTag
    Feature = {beta}
    Day <- MCDay
    Client <- MCClient
    Command <- MCCommand
    Remote <- MCRemote
    InitTickers <- MCTickers
    InitTags <- MCTags
    InitFeatures <- MCFeatures
    History <- MCHistory
SPECIFICATION Spec
INVARIANT CountsAddUp
INVARIANT UniverseWasTagged
INVARIANT ScreenRanksFairly
INVARIANT LegsExplainSignals
CHECK_DEADLOCK FALSE

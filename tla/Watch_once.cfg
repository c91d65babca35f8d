CONSTANTS
    A = A
    B = B
    once_a = once_a
    every_a = every_a
    once_b = once_b
    Symbol = {A, B}
    Name = {once_a, every_a, once_b}
    Price <- MCPrice
    Definition <- MCDefinition
    StoredLevel <- MCStoredLevel
    Timeline <- MCTimeline
    MaxId = 4
    None = None
    Moment <- MCMoment
    Rules <- MCRules
    BarDate = {}
    Policies = {"regular", "extended"}
    MinHistory = 1
SPECIFICATION FairSpec
INVARIANT AlertedIsDisabled
PROPERTY OnceAlertsOncePerEnabling
PROPERTY AlertsAreSettled

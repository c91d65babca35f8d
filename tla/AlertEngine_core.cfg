CONSTANTS
    Symbol = {A}
    Price <- MCPrice
    Moment <- MCMoment
    BarDate <- MCBarDate
    Rules <- MCRules
    Policies <- MCBoth
    MinHistory = 2
    None = None
SPECIFICATION EngineSpec
INVARIANT EngineTypeOK
INVARIANT ArmedIsWitnessed
INVARIANT SpentStaysDisarmed
PROPERTY FireIsACrossing
PROPERTY ArmLostOnlyToAlertOrRoll
PROPERTY OnceFiresOnce
PROPERTY ExpiryDayStillFires

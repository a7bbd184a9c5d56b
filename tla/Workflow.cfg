CONSTANTS
    d1 = d1
    d2 = d2
    None = None
    Destinations = {d1, d2}
    MaxDays = 2
SPECIFICATION ProgressSpec
INVARIANTS
    DerivedNeedsPremises
    StepsHaveWhatTheyRequire
    OneTrip
PROPERTY PlanFinishes
CHECK_DEADLOCK FALSE

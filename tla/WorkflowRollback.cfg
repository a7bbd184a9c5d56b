CONSTANTS
    d1 = d1
    d2 = d2
    None = None
    Destinations = {d1, d2}
    MaxDays = 1
SPECIFICATION ProgressSpec
INVARIANT OldTripStaysOutOfReports

CONSTANTS
    LastSymbol = 2
    Offers <- MCOffers
    Cooldown = 1
    MaxTime = 2
    MaxCuts = 1
    Prices = {1, 2}
    Retention = 1
    Horizons = {1, 2}
    Grace = 1
    LastMoment = 3
    MaxSignals = 1
    MaxRestarts = 1
SPECIFICATION MCSpec
INVARIANTS
    OneAlertPerSymbol
CHECK_DEADLOCK FALSE

CONSTANTS
    Prices = {1, 2}
    Retention = 1
    Horizons = {1, 2}
    Grace = 1
    LastMoment = 3
    MaxSignals = 1
    MaxRestarts = 0
SPECIFICATION OutcomesSpec
INVARIANTS
    LongHorizonsUseSnapshots
CHECK_DEADLOCK FALSE

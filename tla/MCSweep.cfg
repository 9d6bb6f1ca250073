CONSTANTS
    Timeframes = {1, 2}
    Contents = {0, 2}
    Unfinished = {0, 2}
    ClosedAs <- MCClosed
    Sampled <- MCSampled
    Backtested <- MCBacktested
    Space <- MCSpace
    Balance = 100
    Records = {"none", "some"}
    FirstRecords = "some"
    Barren = {"none"}
    Tunings <- MCTunings
    FirstTuning <- MCTuning
    Days = {1, 2}
    Limits = {2, 4}
    SweepEnd = 2
    MaxSweeps = 2
    MaxDownloads = 2
    MaxTurns = 0
SPECIFICATION SweepSpec
INVARIANTS
    CachedIsComputed
CHECK_DEADLOCK FALSE

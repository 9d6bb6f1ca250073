CONSTANTS
    g1 = g1
    g2 = g2
    p1 = p1
    p2 = p2
    x = x
    y = y
    f1 = f1
    f2 = f2
    Signals = {g1, g2}
    Profiles = {p1, p2}
    Symbols = {x, y}
    Feeds = {f1, f2}
    Carries <- MCShared
    SymbolOf <- MCSymbolOf
    Wants <- MCWants
    MaxOpen <- MCLimit
    MaxPerSymbol <- MCLimit
    MaxDailyLoss <- MCLoss
    Initial <- MCInitial
    EntryFee = 1
    Gains <- MCLosses
    ResetProfiles = {}
SPECIFICATION Spec
INVARIANTS
    OpenIsWatched
CHECK_DEADLOCK FALSE

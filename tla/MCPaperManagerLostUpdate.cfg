CONSTANTS
    g1 = g1
    g2 = g2
    p1 = p1
    p2 = p2
    x = x
    y = y
    f1 = f1
    f2 = f2
    Signals = {g1, g2}
    Profiles = {p1}
    Symbols = {x, y}
    Feeds = {f1, f2}
    Carries <- MCShared
    SymbolOf <- MCSymbolOf
    Wants <- MCWants
    MaxOpen <- MCTwo
    MaxPerSymbol <- MCLimit
    MaxDailyLoss <- MCLoss
    Initial <- MCInitial
    EntryFee = 1
    Gains <- MCGains
    ResetProfiles = {}
SPECIFICATION Spec
INVARIANTS
    BalanceIsLedger
CHECK_DEADLOCK FALSE

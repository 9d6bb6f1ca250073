CONSTANTS
    Entry = 10000
    StopPct = 2
    TakePct = 6
    PartialEnabled = TRUE
    FirstTpPct = 100
    FirstTargetRR = 100
    Prices <- MCPrices
    Ages <- MCAges
    Configs <- MCConfigs
SPECIFICATION MCSpec
PROPERTIES
    TimeoutCloses
CHECK_DEADLOCK FALSE

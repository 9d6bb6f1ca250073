CONSTANTS
    Entry = 10000
    StopPct = 2
    TakePct = 6
    PartialEnabled = TRUE
    FirstTpPct = 50
    FirstTargetRR = 100
    Prices <- MCPrices
    Ages <- MCAges
    Configs <- MCConfigs
    Groups = {"g1", "g2"}
    BookGroup = "g1"
    LastLevel = 2
    Quantities = {0, 1}
    Depth = 2
    DepthLimits = {1, 2}
    MaxQueue = 1
    MaxFailures = 1
    MaxDrops = 1
    LastKey = 2
    Sizes = {0, 2, 6}
    MinSize = 2
    HoldAfter = 1
    AbsorbAfter = 2
    MissingLimit = 1
    QueueLimit = 2
    DrainLimit = 1
    LastMoment = 2
    PriceLevels = {1, 2, 3}
    Interests = {1, 2}
    SeedLengths = {2, 5}
    Hour = 4
    LongAgo = 2
    SweepLookback = 3
    Retention = 4
    MaxPoints = 9
    MaxLate = 1
    LastUnit = 4
    MaxEvents = 2
    MaxReports = 4
    Shapes <- MCShapes
    Beginning <- MCBeginning
    History = 8
    Channel4 <- MCChannel4
    MaxCandles = 9
    None = None
    PriceChange5m = 50
    OiChange15m = 200
    VolumeSpike = 150
    DensityRules <- MCDensityRules
    CandleShapes <- MCCandleShapes
    StoredCandles <- MCStoredCandles
    BacktestSetups <- MCBacktestSetups
    MaxWarmup = 2
    SnapshotWindow = 4
    RecentBars = 2
    OlderBars = 2
    MaxAge = 1
    MaxBars = 7
    Readers = {r1, r2}
    ViewedTrades = {1, 2}
    Profiles <- MCProfiles
    ProfileOf <- MCProfileOf
    Earlier = {2}
    Profit <- MCProfit
    LabTtl = 1
    PageTtl = 1
    MaxAsked <- MCMaxAsked
    LastTime = 1
    RiskPct = 10
    MaxLeverage = 3
    MaxGross = 4
    MaxConcurrent = 2
    Lengths = {17, 20}
    Fractions = {0, 60}
    Windows = 2
    MinBars = 8
    Offers <- MCOffers
    MaxOffers = 3
    InitialEquity = 100
    Timeframes = {1, 2}
    Contents = {0, 2}
    Unfinished = {2}
    ClosedAs <- MCClosed
    Sampled <- MCSampled
    Backtested <- MCBacktested
    Space <- MCSpace
    Balance = 100
    Records = {"none", "some"}
    FirstRecords = "some"
    Barren = {"none"}
    Tunings <- MCTunings
    FirstTuning <- MCTuning
    Days = {1, 2}
    Limits = {1, 2}
    SweepEnd = 2
    MaxSweeps = 2
    MaxDownloads = 2
    MaxTurns = 1
    ResearchBars <- MCBars
    FirstBars <- MCFirstBars
    Plans <- MCPlans
    SlippagePoints = 2
    MaxSeries = 8
SPECIFICATION MCSpec
INVARIANTS
    Types
    BracketOrdered
    SizeBooked
    BookMirrors
    CountedConnections
    DensityHistory
    TrimmingUnseen
    BacktestIsLive
    OneEntryPerChannel
    ResearchIsLive
    OutOfSample
    SizedOnSettledEquity
    SweepFromScratch
    BooksAreFinal
    ShownIsHonest
PROPERTIES
    StopOnlyTightens
    LivesAreTold
SYMMETRY Symmetry
\* A closed trade is never touched again, and every part stops at its bounds.
CHECK_DEADLOCK FALSE

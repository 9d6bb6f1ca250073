CONSTANTS
    LastJob = 2
    Kind <- MCKind
    Units = {u1, u2}
    MaxCrashes = 1
    bot = bot
    web = web
    Procs = {bot, web, worker}
    Refreshing = {bot, web}
    score = score
    toggle = toggle
    Unset = Unset
SPECIFICATION MCFairSpec
INVARIANTS
    TypeOK
    SharedTypes
    RunsOnce
    SweepKept
PROPERTIES
    FirstCheckpointStops
    EndedIsFinal
    QueueMoves
    SettingsConverge
    SchemaComplete
\* The users may have no more jobs to queue and no more settings to change.
CHECK_DEADLOCK FALSE

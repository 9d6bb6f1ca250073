CONSTANTS
    LastJob = 2
    Kind <- MCKind
    Units = {u1, u2}
    MaxCrashes = 1
    bot = bot
    web = web
    Procs = {bot, web, worker}
    Refreshing = {bot, web}
    score = score
    toggle = toggle
    Unset = Unset
SPECIFICATION MCSpec
INVARIANTS
    CancelledNeverRuns
CHECK_DEADLOCK FALSE

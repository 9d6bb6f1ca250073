----------------------------- MODULE MCJobQueue -----------------------------
(***************************************************************************)
(* Small instances of what the bot, the dashboard and the worker share     *)
(* through the database: JobQueue with a sweep and a job without           *)
(* checkpoints, RuntimeSettings and Startup.  part says which of them      *)
(* runs, and the others stay in an initial state.                          *)
(***************************************************************************)
EXTENDS JobQueue, Sequences, TLC

CONSTANTS Procs, Refreshing, bot, web, score, toggle, Unset

VARIABLES
    part,
    table, side, memory, previous, read, pending, changes, written, own,
    asides, failures, restarts,
    tables, columns, at, missing, todo, stops

settingsVars == <<table, side, memory, previous, read, pending, changes, written, own,
                  asides, failures, restarts>>
startVars == <<tables, columns, at, missing, todo, stops>>

MCKind == <<"sweep", "other">>

\* One setting is changed in the menu; the other is a profile, changed on the dashboard and,
\* aside, in the menu.
Owner == (score :> bot) @@ (toggle :> web)

Settings == INSTANCE RuntimeSettings
    WITH Keys <- DOMAIN Owner, Owner <- Owner, Values <- {0, 1},
         Default <- [k \in DOMAIN Owner |-> 0],
         Manager <- bot, Profiled <- {toggle},
         MaxChanges <- (score :> 1) @@ (toggle :> 2), MaxAsides <- 1, MaxFailures <- 1, MaxRestarts <- 1

Schema == INSTANCE Startup
    WITH Tables <- <<"signals", "paper_trades", "jobs", "runtime_settings">>,
         Added <- << <<"signals", "strategy_key">>, <<"paper_trades", "profile_key">> >>,
         AddedLater <- << <<"signals", "ix">>, <<"jobs", "ix">> >>,
         MaxCrashes <- 1, crashes <- stops

ASSUME Settings!RuntimeSettingsAssumption

MCInit ==
    /\ part \in {"jobs", "settings", "start"}
    /\ Init
    /\ Settings!Init
    /\ Schema!Init
    /\ part # "start" => tables = {}

MCNext ==
    /\ UNCHANGED part
    /\ \/ part = "jobs" /\ Next /\ UNCHANGED <<settingsVars, startVars>>
       \/ part = "settings" /\ Settings!Next /\ UNCHANGED <<vars, startVars>>
       \/ part = "start" /\ Schema!Next /\ UNCHANGED <<vars, settingsVars>>

MCSpec == MCInit /\ [][MCNext]_<<part, vars, settingsVars, startVars>>

MCFairSpec ==
    /\ MCSpec
    /\ WF_vars(part = "jobs" /\ Proceed)
    /\ \A j \in Jobs : WF_vars(part = "jobs" /\ CancelCommit(j))
    /\ WF_settingsVars(part = "settings" /\ \E i \in 1..Len(pending) : Settings!Commit(i))
    /\ \A p \in Refreshing :
          /\ WF_settingsVars(part = "settings" /\ Settings!Read(p))
          /\ WF_settingsVars(part = "settings" /\ Settings!Apply(p))
    /\ \A p \in Procs : WF_startVars(part = "start" /\ Schema!Run(p))

-----------------------------------------------------------------------------
\* The types of RuntimeSettings and Startup.
SharedTypes == Settings!TypeOK /\ Schema!TypeOK

\* RuntimeSettings: every process ends with the settings of the table.
SettingsConverge == Settings!SettingsConverge

\* Startup: every process ends ready on a complete schema.
SchemaComplete == part = "start" => Schema!SchemaComplete
=============================================================================

---------------------------- MODULE RuntimeSettings ----------------------------
(***************************************************************************)
(* The settings that three processes share through one table of overrides  *)
(* (runtime_settings.py).  A process starts from config.yaml with the      *)
(* overrides on top; the bot and the dashboard then change settings in     *)
(* their own memory first and write the table afterwards, and read the     *)
(* table back in a loop.  The loop applies what differs from its own       *)
(* PREVIOUS reading, never from the settings in memory, and its reading    *)
(* and its applying are two steps: a change may fall between them.         *)
(*                                                                         *)
(* Whether a paper profile is enabled has a second writer, and a second    *)
(* store: the bot's menu changes it in the bot's memory and writes the     *)
(* profile's settings_json, never a row of the table, and the paper        *)
(* manager lays settings_json over the settings when the bot starts.       *)
(***************************************************************************)
EXTENDS Integers, Sequences, SequencesExt

CONSTANTS
    Procs,          \* bot, web and worker
    Refreshing,     \* those that run refresh_runtime_settings_loop: main.py and web/server.py
    Keys,
    Owner,          \* the process whose handlers change a key and save its row
    Manager,        \* the process with the paper manager and the menu: the bot
    Profiled,       \* the keys paper.profiles.<key>.enabled, which the menu changes too
    Values,
    Default,        \* config.yaml
    Unset,          \* no row in the table, no entry in the previous reading
    MaxChanges,     \* bound: changes of each setting, by key
    MaxAsides,      \* bound: changes of profiles in the menu
    MaxFailures,    \* bound: writes that fail
    MaxRestarts     \* bound: restarts of all processes together

\* What the constants must satisfy.
RuntimeSettingsAssumption ==
    /\ Refreshing \subseteq Procs
    /\ Owner \in [Keys -> Procs] /\ Default \in [Keys -> Values]
    /\ Manager \in Refreshing /\ Profiled \subseteq Keys
    /\ Unset \notin Values

VARIABLES
    table,       \* the rows of runtime_settings
    side,        \* `enabled` in settings_json of the rows of paper_profiles
    memory,      \* settings of each process
    previous,    \* `previous` of the refresh loop
    read,        \* what the loop has read and not yet applied: <<>> or <<rows>>
    pending,     \* changes in memory whose write has not been committed
    changes,     \* ghost: changes made to each setting in its owner
    written,     \* ghost: the number of the change the row holds
    own,         \* ghost: the profiles whose value in the bot is newer than what it applied
    asides, failures, restarts

vars == <<table, side, memory, previous, read, pending, changes, written, own,
          asides, failures, restarts>>

Rows == [Keys -> Values \cup {Unset}]

\* The settings a process starts with: set_nested for every override.
Overlay(settings, rows) == [k \in Keys |-> IF rows[k] = Unset THEN settings[k] ELSE rows[k]]

\* `changed`: the rows that differ from the previous reading.
Changed(p, rows) == [k \in Keys |-> IF rows[k] = previous[p][k] THEN Unset ELSE rows[k]]

\* The bot has been started before: get_or_create_profile has stored what config.yaml says.
Init ==
    /\ table = [k \in Keys |-> Unset]
    /\ side = [k \in Profiled |-> Default[k]]
    /\ memory = [p \in Procs |-> Default]
    /\ previous = [p \in Procs |-> [k \in Keys |-> Unset]]
    /\ read = [p \in Procs |-> <<>>]
    /\ pending = <<>>
    /\ changes = [k \in Keys |-> 0] /\ written = [k \in Keys |-> 0]
    /\ own = {}
    /\ asides = 0 /\ failures = 0 /\ restarts = 0

(***************************************************************************)
(* A button of the Telegram menu or a form of the dashboard: the setting   *)
(* changes in memory at once, and a session that writes it is opened.      *)
(***************************************************************************)
Change(k, v) ==
    LET p == Owner[k] IN
    /\ changes[k] < MaxChanges[k]
    /\ v # memory[p][k]
    /\ memory' = [memory EXCEPT ![p][k] = v]
    /\ changes' = [changes EXCEPT ![k] = @ + 1]
    /\ pending' = Append(pending, [by |-> p, to |-> "row", key |-> k, value |-> v,
                                   no |-> changes[k] + 1])
    /\ UNCHANGED <<table, side, previous, read, written, own, asides, failures, restarts>>

\* pt:{profile}:enabled in the menu: _save_paper_profile_config replaces the profile in
\* memory and opens a session that writes settings_json.  No row is written.
ChangeAside(k) ==
    /\ asides < MaxAsides
    /\ \E v \in Values \ {memory[Manager][k]} :
          /\ memory' = [memory EXCEPT ![Manager][k] = v]
          /\ pending' = Append(pending, [by |-> Manager, to |-> "profile", key |-> k,
                                         value |-> v, no |-> 0])
    /\ own' = own \cup {k}
    /\ asides' = asides + 1
    /\ UNCHANGED <<table, side, previous, read, changes, written, failures, restarts>>

\* RuntimeSettingsRepository.set or save_profile_config, and the commit: sessions opened by
\* different requests commit in any order.
Commit(i) ==
    /\ i \in DOMAIN pending
    /\ LET w == pending[i] IN
       \/ /\ w.to = "row"
          /\ table' = [table EXCEPT ![w.key] = w.value]
          /\ written' = [written EXCEPT ![w.key] = w.no]
          /\ UNCHANGED side
       \/ /\ w.to = "profile"
          /\ side' = [side EXCEPT ![w.key] = w.value]
          /\ UNCHANGED <<table, written>>
    /\ pending' = RemoveAt(pending, i)
    /\ UNCHANGED <<memory, previous, read, changes, own, asides, failures, restarts>>

\* The write raises (the database is locked): the handler fails, the memory keeps the change.
CommitFails(i) ==
    /\ failures < MaxFailures
    /\ i \in DOMAIN pending
    /\ pending' = RemoveAt(pending, i)
    /\ failures' = failures + 1
    /\ UNCHANGED <<table, side, memory, previous, read, changes, written, own, asides, restarts>>

\* Faulty: the loop reads on while a reading has still to be applied.
ReadOn(p) ==
    /\ p \in Refreshing
    /\ table # previous[p] /\ Len(read[p]) < 2
    /\ read' = [read EXCEPT ![p] = Append(@, table)]
    /\ UNCHANGED <<table, side, memory, previous, pending, changes, written, own, asides,
                   failures, restarts>>

\* refresh_runtime_settings_loop: get_all, in a session of its own.
Read(p) ==
    /\ p \in Refreshing
    /\ read[p] = <<>>
    /\ table # previous[p]
    /\ read' = [read EXCEPT ![p] = <<table>>]
    /\ UNCHANGED <<table, side, memory, previous, pending, changes, written, own, asides,
                   failures, restarts>>

\* A fault: the first reading is taken as a baseline and applied only from the second on.
ApplyAfterBaseline(p) ==
    /\ read[p] # <<>>
    /\ LET changed == IF previous[p] = [k \in Keys |-> Unset]
                      THEN previous[p] ELSE Changed(p, read[p][1]) IN
       /\ memory' = [memory EXCEPT ![p] = Overlay(@, changed)]
       /\ own' = IF p = Manager THEN {k \in own : changed[k] = Unset} ELSE own
    /\ previous' = [previous EXCEPT ![p] = read[p][1]]
    /\ read' = [read EXCEPT ![p] = <<>>]
    /\ UNCHANGED <<table, side, pending, changes, written, asides, failures, restarts>>

Apply(p) ==
    /\ read[p] # <<>>
    /\ LET changed == Changed(p, read[p][1]) IN
       /\ memory' = [memory EXCEPT ![p] = Overlay(@, changed)]
       /\ own' = IF p = Manager THEN {k \in own : changed[k] = Unset} ELSE own
    /\ previous' = [previous EXCEPT ![p] = read[p][1]]
    /\ read' = [read EXCEPT ![p] = <<>>]
    /\ UNCHANGED <<table, side, pending, changes, written, asides, failures, restarts>>

\* A process stops and starts: load_settings, then apply_runtime_settings and, in the bot,
\* ensure_account, which takes the profiles from settings_json whatever the rows say;
\* `previous` is empty again, and the writes it had open are gone.
Restart(p) ==
    /\ restarts < MaxRestarts
    /\ LET started == Overlay(Default, table) IN
       memory' = [memory EXCEPT ![p] =
                     [k \in Keys |-> IF p = Manager /\ k \in Profiled
                                     THEN side[k] ELSE started[k]]]
    /\ own' = IF p = Manager THEN Profiled ELSE own
    /\ previous' = [previous EXCEPT ![p] = [k \in Keys |-> Unset]]
    /\ read' = [read EXCEPT ![p] = <<>>]
    /\ pending' = SelectSeq(pending, LAMBDA w : w.by # p)
    /\ changes' = [k \in Keys |-> IF Owner[k] = p THEN written[k] ELSE changes[k]]
    /\ restarts' = restarts + 1
    /\ UNCHANGED <<table, side, written, asides, failures>>

Next ==
    \/ \E k \in Keys, v \in Values : Change(k, v)
    \/ \E k \in Profiled : ChangeAside(k)
    \/ \E i \in 1..Len(pending) : Commit(i) \/ CommitFails(i)
    \/ \E p \in Procs : Read(p) \/ Apply(p) \/ Restart(p)

\* The loops of the bot and the dashboard run on, and a write that is open ends.
Fairness ==
    /\ WF_vars(\E i \in 1..Len(pending) : Commit(i))
    /\ \A p \in Refreshing : WF_vars(Read(p)) /\ WF_vars(Apply(p))

Spec == Init /\ [][Next]_vars /\ Fairness

-----------------------------------------------------------------------------
TypeOK ==
    /\ table \in Rows /\ side \in [Profiled -> Values] /\ own \subseteq Profiled
    /\ memory \in [Procs -> [Keys -> Values]]
    /\ previous \in [Procs -> Rows]
    /\ \A p \in Procs : read[p] = <<>> \/ (Len(read[p]) = 1 /\ read[p][1] \in Rows)
    /\ \A k \in Keys : changes[k] \in 0..MaxChanges[k] /\ written[k] \in 0..MaxChanges[k]
    /\ asides \in 0..MaxAsides
    /\ failures \in 0..MaxFailures /\ restarts \in 0..MaxRestarts

\* The last change of a setting did not become its row: its write failed, was overtaken by
\* the write of an earlier change, or was cut off by a restart.
Lost(k) == written[k] # changes[k]

\* p has reason to hold another value of k than the table.
KeepsItsOwn(p, k) ==
    \/ p = Owner[k] /\ Lost(k)
    \/ p = Manager /\ k \in own

(***************************************************************************)
(* Once nothing is changed any more, every process that refreshes ends     *)
(* with the settings the table and config.yaml give, however readings,     *)
(* changes, late commits and restarts interleaved.  Two processes are      *)
(* excepted.  The one that made a change whose write was lost: nothing it  *)
(* reads differs from its previous reading, so it keeps its own value.     *)
(* And the bot, for a profile it changed in its menu, or took from         *)
(* settings_json at its start, since it last applied a row of that         *)
(* profile: no row says so, and the dashboard never hears of it.           *)
(***************************************************************************)
SettingsConverge ==
    \A p \in Refreshing : \A k \in Keys :
        <>[](memory[p][k] = Overlay(Default, table)[k] \/ KeepsItsOwn(p, k))
===============================================================================

-------------------------------- MODULE Startup --------------------------------
(***************************************************************************)
(* Database.init in the three processes that start together (database.py): *)
(* create_all looks up every table first and then creates the missing ones *)
(* one by one, each statement committed at once; a process that finds one  *)
(* created meanwhile stops creating and goes on to the migration, which    *)
(* fails on a table that does not exist yet.  The container is then        *)
(* started again, as after any other crash.                                *)
(***************************************************************************)
EXTENDS Naturals, Sequences, SequencesExt

CONSTANTS
    Procs,
    Tables,        \* the tables of models.py, in the order create_all sorts them
    Added,         \* <<table, column>> of the ALTER statements before the first UPDATE
    AddedLater,    \* <<table, column>> or <<table, index>> of the statements after it
    MaxCrashes     \* bound: stops in the middle of init

VARIABLES
    tables, columns,   \* the database file
    at,                \* what each process does
    missing,           \* the tables it found missing and has still to create
    todo,              \* the columns it has still to add
    crashes

vars == <<tables, columns, at, missing, todo, crashes>>

AllColumns == ToSet(Added) \cup ToSet(AddedLater)
ColumnsOf(t) == {c \in AllColumns : c[1] = t}

\* No file yet, or one of an older version: some of the tables, without the later columns.
Init ==
    /\ tables \in {ToSet(SubSeq(Tables, 1, n)) : n \in 0..Len(Tables)}
    /\ columns = {}
    /\ at = [p \in Procs |-> "down"]
    /\ missing = [p \in Procs |-> <<>>]
    /\ todo = [p \in Procs |-> <<>>]
    /\ crashes = 0

\* A fault: the look-up is left out when the database has a table.
LookUpIfEmpty(p) ==
    /\ at[p] = "down"
    /\ at' = [at EXCEPT ![p] = "create"]
    /\ missing' = [missing EXCEPT ![p] = IF tables = {} THEN Tables ELSE <<>>]
    /\ UNCHANGED <<tables, columns, todo, crashes>>

\* The process starts; create_all looks up which tables exist.
LookUp(p) ==
    /\ at[p] = "down"
    /\ at' = [at EXCEPT ![p] = "create"]
    /\ missing' = [missing EXCEPT ![p] = SelectSeq(Tables, LAMBDA t : t \notin tables)]
    /\ UNCHANGED <<tables, columns, todo, crashes>>

Create(p) ==
    /\ at[p] = "create" /\ missing[p] # <<>>
    /\ Head(missing[p]) \notin tables
    /\ tables' = tables \cup {Head(missing[p])}
    /\ columns' = columns \cup ColumnsOf(Head(missing[p]))
    /\ missing' = [missing EXCEPT ![p] = Tail(@)]
    /\ UNCHANGED <<at, todo, crashes>>

\* Nothing is left to create, or the next table "already exists": create_all ends, either way.
BeginMigration(p) ==
    /\ at[p] = "create"
    /\ (missing[p] # <<>> => Head(missing[p]) \in tables)
    /\ at' = [at EXCEPT ![p] = "migrate"]
    /\ missing' = [missing EXCEPT ![p] = <<>>]
    /\ todo' = [todo EXCEPT ![p] = Added]
    /\ UNCHANGED <<tables, columns, crashes>>

\* _add_column_if_missing: a column that is there, or that another process adds between
\* the look-up and the statement, is left alone.
AddColumn(p) ==
    /\ at[p] = "migrate" /\ todo[p] # <<>>
    /\ Head(todo[p])[1] \in tables
    /\ columns' = columns \cup {Head(todo[p])}
    /\ todo' = [todo EXCEPT ![p] = Tail(@)]
    /\ UNCHANGED <<tables, at, missing, crashes>>

\* From the first UPDATE on the statements are one transaction: what follows is
\* committed with it, at the end of init.
Finish(p) ==
    /\ at[p] = "migrate" /\ todo[p] = <<>>
    /\ \A c \in ToSet(AddedLater) : c[1] \in tables
    /\ columns' = columns \cup ToSet(AddedLater)
    /\ at' = [at EXCEPT ![p] = "ready"]
    /\ UNCHANGED <<tables, missing, todo, crashes>>

Stop(p) ==
    /\ at' = [at EXCEPT ![p] = "down"]
    /\ missing' = [missing EXCEPT ![p] = <<>>]
    /\ todo' = [todo EXCEPT ![p] = <<>>]

\* "no such table": init raises and the process ends.
NoSuchTable(p) ==
    /\ at[p] = "migrate"
    /\ IF todo[p] # <<>> THEN Head(todo[p])[1] \notin tables
                         ELSE \E c \in ToSet(AddedLater) : c[1] \notin tables
    /\ Stop(p)
    /\ UNCHANGED <<tables, columns, crashes>>

Crash(p) ==
    /\ crashes < MaxCrashes
    /\ at[p] # "down"
    /\ Stop(p)
    /\ crashes' = crashes + 1
    /\ UNCHANGED <<tables, columns>>

Run(p) ==
    \/ LookUp(p) \/ Create(p) \/ BeginMigration(p)
    \/ AddColumn(p) \/ Finish(p) \/ NoSuchTable(p)

Next == \E p \in Procs : Run(p) \/ Crash(p)

\* restart: unless-stopped, and a process that runs goes on.
Spec == Init /\ [][Next]_vars /\ \A p \in Procs : WF_vars(Run(p))

-----------------------------------------------------------------------------
TypeOK ==
    /\ tables \subseteq ToSet(Tables) /\ columns \subseteq AllColumns
    /\ at \in [Procs -> {"down", "create", "migrate", "ready"}]
    /\ \A p \in Procs : ToSet(missing[p]) \subseteq ToSet(Tables)
    /\ \A p \in Procs : ToSet(todo[p]) \subseteq AllColumns
    /\ crashes \in 0..MaxCrashes

(***************************************************************************)
(* Whoever wins which table, whoever crashes half way, and from whichever  *)
(* older version: all processes end ready, on a schema with every table    *)
(* and every column.  A process that lost the race may have to die for it, *)
(* once or more: it relied on tables another had still to create.          *)
(***************************************************************************)
SchemaComplete ==
    <>[](/\ tables = ToSet(Tables) /\ columns = AllColumns
         /\ \A p \in Procs : at[p] = "ready")
===============================================================================

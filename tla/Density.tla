------------------------------- MODULE Density -------------------------------
(***************************************************************************)
(* Densities, the large orders in a book: DensityTracker follows them from *)
(* one order book to the next and queues events, and the signal engine     *)
(* takes the events off the queue and stores them and the levels in a      *)
(* session of their own.                                                   *)
(*                                                                         *)
(* One symbol.  A key is a side and a price; an order book gives each key  *)
(* a size, 0 where nothing is quoted within the distance.  The time goes   *)
(* in steps of ten seconds, and so do HoldAfter and AbsorbAfter.           *)
(***************************************************************************)
EXTENDS Integers, Sequences, SequencesExt, FiniteSets

CONSTANTS
    LastKey,        \* the keys are 1..LastKey
    Sizes,          \* sizes of orders, 0 among them
    MinSize,        \* min_density_usd
    HoldAfter,      \* a level that lives so long is holding
    AbsorbAfter,    \* one that has lived so long was absorbed, not pulled
    MissingLimit,   \* how many vanished levels an update takes out
    QueueLimit,     \* max_events
    DrainLimit,     \* how many events an evaluation takes
    LastMoment,     \* bound: the clock runs from 0 to LastMoment
    MaxReports      \* bound: events

DensityAssumption ==
    /\ {LastKey, HoldAfter, AbsorbAfter, MissingLimit, QueueLimit, DrainLimit} \subseteq Nat
    /\ {LastMoment, MaxReports} \subseteq Nat
    /\ Sizes \subseteq Nat /\ MinSize \in Nat \ {0}

Keys == 1..LastKey

VARIABLES
    now,
    levels,         \* DensityTracker.levels; NoLevel where there is none
    held,           \* DensityTracker._emitted_holding
    reports,        \* history: all events emitted
    queue,          \* DensityTracker.events: numbers of reports
    actionable,     \* DensityTracker._last_actionable; 0 if there is none
    batch,          \* the events _persist_density_state holds
    stored,         \* table density_events: numbers of reports
    rows            \* table density_levels: the keys that have a row

densityVars == <<now, levels, held, reports, queue, actionable, batch, stored, rows>>

NoLevel == [first |-> 0, last |-> 0, max |-> 0, size |-> 0]
Live == {k \in Keys : levels[k] # NoLevel}

DensityInit ==
    /\ now = 0
    /\ levels = [k \in Keys |-> NoLevel]
    /\ held = {} /\ reports = <<>> /\ queue = <<>> /\ actionable = 0
    /\ batch = <<>> /\ stored = <<>> /\ rows = {}

-----------------------------------------------------------------------------
(* update: one order book *)

Lifetime(level) == level.last - level.first

\* The level of a density of size z, seen now; the first sight of it makes the level.
Seen(level, z) ==
    IF level = NoLevel THEN [first |-> now, last |-> now, max |-> z, size |-> z]
    ELSE [level EXCEPT !.last = now, !.size = z,
                       !.max = IF 10 * z > 11 * @ THEN z ELSE @]

\* What is reported of it, if anything; previous is the level before.
Kind(k, previous, z) ==
    CASE previous = NoLevel -> "appeared"
      [] previous # NoLevel /\ 10 * z > 11 * previous.max -> "refilled"
      [] previous # NoLevel /\ 10 * z <= 11 * previous.max ->
            IF now - previous.first >= HoldAfter /\ k \notin held THEN "holding"
            ELSE IF 100 * z < 35 * previous.size THEN "eaten" ELSE "none"

End(level) == IF Lifetime(level) < AbsorbAfter THEN "pulled" ELSE "absorbed"

\* The numbers in S, in ascending order.
Ascending(S) ==
    [i \in 1..Cardinality(S) |-> CHOOSE k \in S : Cardinality({j \in S : j <= k}) = i]

\* The reports of the keys in S, in the order of the keys.
ReportsOf(S, kind) ==
    LET told == {k \in S : kind[k] # "none"}
    IN  [i \in 1..Cardinality(told) |->
            [key |-> Ascending(told)[i], kind |-> kind[Ascending(told)[i]]]]

\* A bounded deque: the oldest entries fall out.
LastOf(s, n) == IF Len(s) <= n THEN s ELSE SubSeq(s, Len(s) - n + 1, Len(s))

Actionable == {"holding", "pulled", "eaten", "absorbed", "refilled"}

Emit(new) ==
    /\ Len(reports) + Len(new) <= MaxReports
    /\ reports' = reports \o new
    /\ queue' = LastOf(queue \o [i \in 1..Len(new) |-> Len(reports) + i], QueueLimit)
    /\ LET acted == {i \in 1..Len(new) : new[i].kind \in Actionable}
       IN  actionable' = IF acted = {} THEN actionable
                         ELSE Len(reports) + (CHOOSE i \in acted : \A j \in acted : j <= i)

\* Faulty: a level that is gone stays among those reported as holding.
HeldForever(holding, gone) == held \cup holding

Held(holding, gone) == (held \cup holding) \ gone

\* The densities are gone through in order, then the missing levels, up to the limit.
Update ==
    \E book \in [Keys -> Sizes] :
        LET dense == {k \in Keys : book[k] >= MinSize}
            missing == Live \ dense
            kind == [k \in Keys |-> Kind(k, levels[k], book[k])]
            end == [k \in Keys |-> End(levels[k])]
        IN  \E gone \in SUBSET missing :
              /\ Cardinality(gone) =
                    IF Cardinality(missing) <= MissingLimit THEN Cardinality(missing)
                                                            ELSE MissingLimit
              /\ levels' = [k \in Keys |-> IF k \in dense THEN Seen(levels[k], book[k])
                                           ELSE IF k \in gone THEN NoLevel ELSE levels[k]]
              /\ held' = Held({k \in dense : kind[k] = "holding"}, gone)
              /\ Emit(ReportsOf(dense, kind) \o ReportsOf(gone, end))
              /\ UNCHANGED <<now, batch, stored, rows>>

Clock == now < LastMoment /\ now' = now + 1
        /\ UNCHANGED <<levels, held, reports, queue, actionable, batch, stored, rows>>

-----------------------------------------------------------------------------
(* _persist_density_state *)

Drained == SubSeq(queue, 1, IF Len(queue) < DrainLimit THEN Len(queue) ELSE DrainLimit)

Drain ==
    /\ batch = <<>>
    /\ queue # <<>>
    /\ batch' = Drained
    /\ queue' = SubSeq(queue, Len(Drained) + 1, Len(queue))
    /\ UNCHANGED <<now, levels, held, reports, actionable, stored, rows>>

\* add_events and upsert_levels; rows of levels that are gone stay.
Store ==
    /\ batch # <<>>
    /\ stored' = stored \o batch
    /\ rows' = rows \cup Live
    /\ batch' = <<>>
    /\ UNCHANGED <<now, levels, held, reports, queue, actionable>>

\* Faulty: the events go back to the queue, behind those that came meanwhile.
PutBack ==
    /\ batch # <<>>
    /\ batch' = <<>>
    /\ queue' = LastOf(queue \o batch, QueueLimit)
    /\ UNCHANGED <<now, levels, held, reports, actionable, stored, rows>>

\* The database is locked, or the session fails otherwise: the events are dropped.
Skip ==
    /\ batch # <<>>
    /\ batch' = <<>>
    /\ UNCHANGED <<now, levels, held, reports, queue, actionable, stored, rows>>

DensityNext == Update \/ Clock \/ Drain \/ Store \/ Skip

DensitySpec == DensityInit /\ [][DensityNext]_densityVars

-----------------------------------------------------------------------------
(* Properties *)

\* Every variable has its type; only a level that lives counts as reported holding, and
\* what is stored has a report.
DensityTypeOK ==
    /\ held \subseteq Live
    /\ \A k \in Live : /\ levels[k].first <= levels[k].last
                       /\ 10 * levels[k].size <= 11 * levels[k].max
    /\ Len(queue) <= QueueLimit /\ Len(batch) <= DrainLimit
    /\ ToSet(queue) \cup ToSet(batch) \cup ToSet(stored) \subseteq DOMAIN reports
    /\ actionable \in 0..Len(reports) /\ rows \subseteq Keys

\* The last report of a key.
ReportOf(k) ==
    LET mine == {i \in DOMAIN reports : reports[i].key = k}
    IN  IF mine = {} THEN "none"
        ELSE reports[CHOOSE i \in mine : \A j \in mine : j <= i].kind
PhaseOf(k) == IF k \notin Live THEN "absent" ELSE IF k \in held THEN "held" ELSE "alive"

Life == INSTANCE DensityLife WITH phase <- [k \in Keys |-> PhaseOf(k)],
                                  report <- [k \in Keys |-> ReportOf(k)]

\* The tracker keeps the promise of DensityLife for every level: over shrinking, growing
\* and vanishing orders, levels left over when many vanish at once, and new lives at the
\* same price (DensityTracker.update).
LivesAreTold == Life!Spec

\* Events are stored at most once and in the order they happened, although batches are
\* dropped while the database is locked and the deque drops its oldest
\* (_persist_density_state, drain_events).
DensityHistory == \A i, j \in 1..Len(stored) : i < j => stored[i] < stored[j]
==============================================================================

------------------------------ MODULE Outcomes ------------------------------
(***************************************************************************)
(* What became of a signal: MarketFeatureStore keeps the prices the bot    *)
(* has heard for a while, the table market_snapshots keeps some of them,   *)
(* and OutcomeTracker computes from one or the other how far the price     *)
(* went for and against a signal within each horizon.                      *)
(*                                                                         *)
(* One symbol; its price at each moment is path, known to the exchange.    *)
(* The bot hears some of it, and loses its memory when it restarts: it is  *)
(* seeded with the exchange's candles then.  An excursion is a difference  *)
(* of prices here, where the code divides by the entry price.              *)
(***************************************************************************)
EXTENDS Integers, FiniteSets, FiniteSetsExt

CONSTANTS
    Prices,
    Retention,      \* keep_raw_ticks_minutes
    Horizons,       \* outcomes.horizons_minutes
    Grace,          \* how long the tracker looks for a signal after its last horizon
    LastMoment,     \* bound: the clock runs from 0 to LastMoment
    MaxSignals,     \* bound: signals
    MaxRestarts     \* bound: restarts and failed evaluations

\* What the constants must satisfy; any prices will do.
OutcomesAssumption ==
    /\ Prices \subseteq Int
    /\ Horizons \subseteq Nat
    /\ Retention \in Nat
    /\ LastMoment \in Nat

VARIABLES
    path,           \* moment |-> the price on the exchange; its domain ends now
    memory,         \* the moments whose prices MarketFeatureStore.prices holds
    snapshots,      \* table market_snapshots: a set of [at, price]
    signalRows,     \* table signals: a set of [at, entry, direction]
    tracker,        \* evaluate_due_outcomes: its time, its signals, its inserts
    outcomes,       \* table signal_outcomes
    restarts

outcomeVars == <<path, memory, snapshots, signalRows, tracker, outcomes, restarts>>

Moments == 0..LastMoment
Directions == {"LONG", "SHORT"}
Now == Cardinality(DOMAIN path) - 1
Highest(S) == CHOOSE m \in S : \A x \in S : x <= m
Lowest(S) == CHOOSE m \in S : \A x \in S : m <= x

Asleep == [busy |-> FALSE, now |-> 0, todo |-> {}, rows |-> {}]

OutcomesInit ==
    /\ path \in [{0} -> Prices]
    /\ memory = {0}
    /\ snapshots = {} /\ signalRows = {} /\ outcomes = {}
    /\ tracker = Asleep
    /\ restarts = 0

-----------------------------------------------------------------------------
(* Prices come in and are kept *)

\* _trim_key, with the time of the price that was just appended.
Trim(moments, at) == {m \in moments : m >= at - Retention}

PriceMoves ==
    /\ Now < LastMoment
    /\ \E p \in Prices : path' = [m \in 0..(Now + 1) |-> IF m <= Now THEN path[m] ELSE p]

\* The price moves; the bot hears of it unless its connection is down.
Price ==
    /\ PriceMoves
    /\ memory' \in {memory, Trim(memory \cup {Now + 1}, Now + 1)}
    /\ UNCHANGED <<snapshots, signalRows, tracker, outcomes, restarts>>

LatestPrice == path[Highest(memory)]

\* _persist_market_snapshot.
Snapshot ==
    /\ memory # {}
    /\ \A s \in snapshots : s.at # Now
    /\ snapshots' = snapshots \cup {[at |-> Now, price |-> LatestPrice]}
    /\ UNCHANGED <<path, memory, signalRows, tracker, outcomes, restarts>>

NewSignal ==
    /\ memory # {}
    /\ Cardinality(signalRows) < MaxSignals
    /\ \E d \in Directions :
         signalRows' = signalRows \cup {[at |-> Now, entry |-> LatestPrice, direction |-> d]}
    /\ UNCHANGED <<path, memory, snapshots, tracker, outcomes, restarts>>

\* trim_all, hourly: it looks at the clock and not at the last price.
TrimAll ==
    /\ memory' = Trim(memory, Now)
    /\ memory' # memory
    /\ UNCHANGED <<path, snapshots, signalRows, tracker, outcomes, restarts>>

-----------------------------------------------------------------------------
(* The tracker *)

Due(s, at) == {h \in Horizons : s.at + h <= at}

\* Faulty: signals older than the grace time are left out, however long their horizons.
MissingAfterGrace(at) ==
    {s \in signalRows : /\ s.at >= at - Grace
                     /\ \E h \in Due(s, at) :
                          \A o \in outcomes : o.signal # s \/ o.horizon # h}

\* list_signals_missing_outcomes.
Missing(at) ==
    {s \in signalRows : /\ s.at >= at - (Highest(Horizons) + Grace)
                     /\ \E h \in Due(s, at) :
                          \A o \in outcomes : o.signal # s \/ o.horizon # h}

TakeUp ==
    /\ ~tracker.busy
    /\ Missing(Now) # {}
    /\ tracker' = [busy |-> TRUE, now |-> Now, rows |-> {},
                   todo |-> {w \in Missing(Now) \X Horizons : w[2] \in Due(w[1], Now)}]
    /\ UNCHANGED <<path, memory, snapshots, signalRows, outcomes, restarts>>

\* The prices in memory, or else the snapshots, from the signal to the horizon's end.
Heard(s, h) == {m \in memory : s.at <= m /\ m <= s.at + h}
Kept(s, h) == {x \in snapshots : s.at <= x.at /\ x.at <= s.at + h}

PricesIn(s, h) == IF Heard(s, h) # {} THEN {path[m] : m \in Heard(s, h)}
                                      ELSE {x.price : x \in Kept(s, h)}
PriceAfter(s, h) ==
    IF Heard(s, h) # {} THEN path[Highest(Heard(s, h))]
    ELSE LET last == Highest({x.at : x \in Kept(s, h)})
         IN  CHOOSE p \in Prices : [at |-> last, price |-> p] \in snapshots

\* calculate_outcome: the largest excursions for and against the signal.
Excursions(s, seen) ==
    LET up == Highest({0, Highest(seen) - s.entry})
        down == Highest({0, s.entry - Lowest(seen)})
    IN  IF s.direction = "LONG" THEN [mfe |-> up, mae |-> down]
                                ELSE [mfe |-> down, mae |-> up]

\* Faulty: all prices since the signal count, also those after the horizon's end.
OutcomeSoFar(s, h) ==
    LET seen == {path[m] : m \in {x \in memory : x >= s.at}} \cup PricesIn(s, h)
        e == Excursions(s, seen)
    IN  [signal |-> s, horizon |-> h, after |-> PriceAfter(s, h), mfe |-> e.mfe, mae |-> e.mae]

Outcome(s, h) ==
    LET e == Excursions(s, PricesIn(s, h))
    IN  [signal |-> s, horizon |-> h, after |-> PriceAfter(s, h), mfe |-> e.mfe, mae |-> e.mae]

\* One signal and horizon; without any price the outcome waits for the next evaluation.
Evaluate ==
    /\ tracker.busy
    /\ \E w \in tracker.todo :
         /\ tracker.now >= w[1].at + w[2]
         /\ tracker' = [tracker EXCEPT
                !.todo = @ \ {w},
                !.rows = IF PricesIn(w[1], w[2]) = {} THEN @ ELSE @ \cup {Outcome(w[1], w[2])}]
    /\ UNCHANGED <<path, memory, snapshots, signalRows, outcomes, restarts>>

\* Faulty: an outcome that is there already is replaced.
Upsert(table, rows) ==
    {o \in table : \A r \in rows : r.signal # o.signal \/ r.horizon # o.horizon} \cup rows

\* add_outcome does nothing when the signal has an outcome for the horizon.
Insert(table, rows) ==
    table \cup {r \in rows : \A o \in table : r.signal # o.signal \/ r.horizon # o.horizon}

CommitOutcomes ==
    /\ tracker.busy
    /\ tracker.todo = {}
    /\ outcomes' = Insert(outcomes, tracker.rows)
    /\ tracker' = Asleep
    /\ UNCHANGED <<path, memory, snapshots, signalRows, restarts>>

\* The bot is stopped, or killed, and is back later: memory is seeded with candles.
Restart ==
    /\ PriceMoves
    /\ restarts < MaxRestarts
    /\ restarts' = restarts + 1
    /\ memory' = Trim(0..(Now + 1), Now + 1)
    /\ tracker' = Asleep
    /\ UNCHANGED <<snapshots, signalRows, outcomes>>

\* An exception: the session is rolled back.
Abandon ==
    /\ tracker.busy
    /\ restarts < MaxRestarts
    /\ restarts' = restarts + 1
    /\ tracker' = Asleep
    /\ UNCHANGED <<path, memory, snapshots, signalRows, outcomes>>

Track == TakeUp \/ Evaluate \/ CommitOutcomes

OutcomesNext == Price \/ Snapshot \/ NewSignal \/ TrimAll \/ Track \/ Restart \/ Abandon

OutcomesSpec == OutcomesInit /\ [][OutcomesNext]_outcomeVars

-----------------------------------------------------------------------------
(* Properties *)

OutcomeRows == [signal : [at : Moments, entry : Prices, direction : Directions],
                horizon : Horizons, after : Prices, mfe : Nat, mae : Nat]

\* Every variable has its type, and a signal has one outcome for a horizon.
OutcomesTypeOK ==
    /\ DOMAIN path = 0..Now /\ Now <= LastMoment
    /\ memory \subseteq 0..Now
    /\ \A o \in outcomes \cup tracker.rows : o \in OutcomeRows
    /\ \A o, q \in outcomes : (o.signal = q.signal /\ o.horizon = q.horizon) => o = q

Window(o) == {path[m] : m \in {x \in DOMAIN path : x >= o.signal.at
                                                   /\ x <= o.signal.at + o.horizon}}

\* An outcome never claims more than the market did within its horizon, however late it
\* is computed, and its last price is the entry price or one of the horizon's
\* (evaluate_due_outcomes with memory, snapshots, gaps in both and restarts).
OutcomeFromWindow ==
    \A o \in outcomes :
        LET truth == Excursions(o.signal, Window(o))
        IN  /\ o.mfe <= truth.mfe /\ o.mae <= truth.mae
            /\ o.after \in Window(o) \cup {o.signal.entry}

\* A horizon that is due gets its outcome when a price was kept in it, if the bot does not
\* stay down longer than the grace time (list_signals_missing_outcomes, its window).
Overdue(h) ==
    \E s \in signalRows : /\ Now >= s.at + h /\ Kept(s, h) # {}
                      /\ LastMoment <= s.at + Highest(Horizons) + Grace
                      /\ \A o \in outcomes : o.signal # s \/ o.horizon # h
DueIsStored == \A h \in Horizons : Overdue(h) ~> ~Overdue(h)

\* "Longer-horizon outcomes fall back to persisted market_snapshots" (README.md): the
\* outcome of a horizon longer than memory takes the stored snapshots into account.
LongHorizonsUseSnapshots ==
    \A o \in outcomes : o.horizon > Retention =>
        LET kept == {x.price : x \in Kept(o.signal, o.horizon)}
        IN  kept # {} => o.mfe >= Excursions(o.signal, kept).mfe
=============================================================================

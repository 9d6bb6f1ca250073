---------------------------- MODULE PaperManager ----------------------------
(***************************************************************************)
(* The sessions of the bot process that write paper trades and balances:   *)
(* the signal loop that opens trades (PaperTradeManager.open_for_signal),  *)
(* the market-data tasks that tick them (on_price), and the Telegram       *)
(* handler that resets a profile.  They are coroutines of one event loop,  *)
(* each with a database session of its own, and interleave at every await. *)
(*                                                                         *)
(* A SELECT reads what is committed at that moment.  A session takes       *)
(* SQLite's single write lock at its first flush and holds it until its    *)
(* commit; a flush that waits five seconds raises.  The ORM writes the     *)
(* absolute value of an attribute it has changed, computed from the value  *)
(* the session loaded, however old that is.                                *)
(*                                                                         *)
(* What one tick does to one trade is module PaperTrade; here it closes a  *)
(* trade, or takes its partial profit, for some gain.                      *)
(***************************************************************************)
EXTENDS Integers, FiniteSets, FiniteSetsExt

CONSTANTS
    Signals,        \* the signals the engine hands to open_for_signal
    Profiles,       \* keys of settings.paper.profiles
    Symbols,        \* (exchange, symbol) pairs
    SymbolOf,       \* signal |-> its symbol
    Feeds,          \* the websocket connections
    Carries,        \* feed |-> the symbols it has topics of; the topics of one
                    \* symbol may be spread over two connections
    Wants,          \* the <<signal, profile>> that pass the static filters
    MaxOpen,        \* profile |-> max_open_positions
    MaxPerSymbol,   \* profile |-> max_positions_per_symbol
    MaxDailyLoss,   \* profile |-> initial_balance * max_daily_loss_pct / 100
    Initial,        \* profile |-> initial_balance
    EntryFee,       \* fee_for_notional at the entry
    Gains,          \* net results of closing a trade or a part of it
    ResetProfiles   \* the profiles whose reset button is pressed

ASSUME SetsAssumption ==
    /\ IsFiniteSet(Signals)
    /\ IsFiniteSet(Profiles)
    /\ IsFiniteSet(Symbols)
    /\ SymbolOf \in [Signals -> Symbols]
    /\ Carries \in [Feeds -> SUBSET Symbols]
    /\ Wants \subseteq Signals \X Profiles
    /\ ResetProfiles \subseteq Profiles

ASSUME LimitsAssumption ==
    /\ MaxOpen \in [Profiles -> Nat \ {0}]
    /\ MaxPerSymbol \in [Profiles -> Nat \ {0}]
    /\ MaxDailyLoss \in [Profiles -> Nat]
    /\ Initial \in [Profiles -> Nat]
    /\ EntryFee \in Nat
    /\ Gains \subseteq Int

\* UniqueConstraint(signal_id, profile_key): a pair has one row at most.
Trades == Signals \X Profiles
ProfileOf(t) == t[2]
MarketOf(t) == SymbolOf[t[1]]

VARIABLES
    status,         \* committed paper_trades: NONE (no row), OPEN or CLOSED
    pnl,            \* committed paper_trades.pnl_usd
    partial,        \* the trades with partial_closed set
    balance,        \* committed paper_profiles.current_balance
    today,          \* the trades with opened_at >= day_start
    openSymbols,    \* _open_symbols
    offered,        \* the signals open_for_signal has been called with
    opener,         \* the signal loop's session
    tick,           \* feed |-> the session of its on_price call
    reset,          \* the session of reset_paper_profile
    ledger          \* history: the balance with every fee and gain booked on
                    \* it since the last reset

rows == <<status, pnl, partial, today>>
vars == <<status, pnl, partial, balance, today, openSymbols, offered,
          opener, tick, reset, ledger>>

Idle == [pc |-> "idle"]

OpenerStates ==
    {Idle}
    \cup [pc : {"check"}, sig : Signals, todo : SUBSET Profiles]
    \cup [pc : {"read", "inserted", "watched"}, sig : Signals, prof : Profiles,
          todo : SUBSET Profiles, loaded : Int]

TickStates ==
    {Idle}
    \cup [pc : {"waiting"}, sym : Symbols]
    \cup [pc : {"selected"}, sym : Symbols, trades : SUBSET Trades]
    \cup [pc : {"loaded"}, sym : Symbols, trades : SUBSET Trades, prof : Profiles,
          loaded : Int]

ResetStates ==
    {Idle}
    \cup [pc : {"checked"}, prof : Profiles]
    \cup [pc : {"loaded"}, prof : Profiles, loaded : Int]

-----------------------------------------------------------------------------
OpenTrades == {t \in Trades : status[t] = "OPEN"}
OpenOf(p) == {t \in OpenTrades : ProfileOf(t) = p}
OpenOn(p, s) == {t \in OpenOf(p) : MarketOf(t) = s}

SumOver(amount, S) == MapThenSumSet(LAMBDA t : amount[t], S)

\* realized_today of _skip_reason: over the trades opened today, closed or not
RealizedToday(p) == SumOver(pnl, {t \in today : ProfileOf(t) = p})

\* The queries of _skip_reason that precede its read of the profile.
Admissible(t) ==
    /\ t \in Wants
    /\ Cardinality(OpenOf(ProfileOf(t))) < MaxOpen[ProfileOf(t)]
    /\ Cardinality(OpenOn(ProfileOf(t), MarketOf(t))) < MaxPerSymbol[ProfileOf(t)]
    /\ status[t] = "NONE"

\* Faulty: a settling tick does not wait for the opener's commit.
NoWriteLock == TRUE

\* Faulty: the tick takes the lock it already holds once more.
LockedTwice == \A f \in Feeds : tick[f].pc \notin {"selected", "loaded"}

\* Only the signal loop holds the write lock over an await.
WriteLockFree == opener.pc \notin {"inserted", "watched"}

\* Faulty: on_price without its lock.
NoPriceLock == TRUE

\* _price_update_lock
PriceLockFree == \A f \in Feeds : tick[f].pc \notin {"selected", "loaded"}

\* The balance a session leaves when it loaded one value and adds delta to it.
OrmWrite(current, loaded, delta) ==
    IF delta = 0 THEN current ELSE loaded + delta

Init ==
    /\ status = [t \in Trades |-> "NONE"]
    /\ pnl = [t \in Trades |-> 0]
    /\ partial = {}
    /\ balance = Initial
    /\ today = {}
    /\ openSymbols = {}
    /\ offered = {}
    /\ opener = Idle
    /\ tick = [f \in Feeds |-> Idle]
    /\ reset = Idle
    /\ ledger = Initial

-----------------------------------------------------------------------------
(* open_for_signal: one session per enabled profile, one after the other *)

Offer(g) ==
    /\ opener.pc = "idle"
    /\ g \notin offered
    /\ offered' = offered \cup {g}
    /\ opener' = [pc |-> "check", sig |-> g, todo |-> Profiles]
    /\ UNCHANGED <<rows, balance, openSymbols, tick, reset, ledger>>

\* Faulty: the loop over the profiles does not advance.
SameProfile(p) ==
    opener' = [pc |-> "check", sig |-> opener.sig, todo |-> opener.todo \cup {p}]

NextProfile(p) ==
    opener' = [pc |-> "check", sig |-> opener.sig, todo |-> opener.todo \ {p}]

\* _skip_reason before it reads the profile
Skip(p) ==
    /\ opener.pc = "check"
    /\ p \in opener.todo
    /\ ~Admissible(<<opener.sig, p>>)
    /\ NextProfile(p)
    /\ UNCHANGED <<rows, balance, openSymbols, offered, tick, reset, ledger>>

\* Faulty: the limits are not asked.
ReadUnchecked(p) ==
    /\ opener.pc = "check"
    /\ p \in opener.todo
    /\ status[<<opener.sig, p>>] = "NONE"
    /\ opener' = [pc |-> "read", sig |-> opener.sig, prof |-> p,
                  todo |-> opener.todo, loaded |-> balance[p]]
    /\ UNCHANGED <<rows, balance, openSymbols, offered, tick, reset, ledger>>

\* get_or_create_profile loads the row and touches updated_at, which makes the
\* next query flush: the session waits for the write lock with this balance.
ReadProfile(p) ==
    /\ opener.pc = "check"
    /\ p \in opener.todo
    /\ Admissible(<<opener.sig, p>>)
    /\ opener' = [pc |-> "read", sig |-> opener.sig, prof |-> p,
                  todo |-> opener.todo, loaded |-> balance[p]]
    /\ UNCHANGED <<rows, balance, openSymbols, offered, tick, reset, ledger>>

\* max_daily_loss, or a plan whose position_size_usd is not positive
Refused(p) == RealizedToday(p) <= -MaxDailyLoss[p] \/ opener.loaded <= 0

Reject ==
    /\ opener.pc = "read"
    /\ Refused(opener.prof)
    /\ NextProfile(opener.prof)
    /\ UNCHANGED <<rows, balance, openSymbols, offered, tick, reset, ledger>>

\* The session goes on with the lock it has taken and the balance it has loaded.
HoldLock(pc) == opener' = [pc |-> pc, sig |-> opener.sig, prof |-> opener.prof,
                           todo |-> opener.todo, loaded |-> opener.loaded]

\* The session has the write lock, has flushed the row and charged the fee.
Insert ==
    /\ opener.pc = "read"
    /\ ~Refused(opener.prof)
    /\ HoldLock("inserted")
    /\ UNCHANGED <<rows, balance, openSymbols, offered, tick, reset, ledger>>

\* Faulty: the key added is not the key on_price looks up.
WatchSignal ==
    /\ opener.pc = "inserted"
    /\ openSymbols' = openSymbols \cup {opener.sig}
    /\ HoldLock("watched")
    /\ UNCHANGED <<rows, balance, offered, tick, reset, ledger>>

\* _open_symbols.add, still inside the session
Watch ==
    /\ opener.pc = "inserted"
    /\ openSymbols' = openSymbols \cup {SymbolOf[opener.sig]}
    /\ HoldLock("watched")
    /\ UNCHANGED <<rows, balance, offered, tick, reset, ledger>>

\* Faulty: the entry fee is written on the trade only.
Uncharged(p) == OrmWrite(balance[p], opener.loaded, 0)

ChargedBalance(p) == OrmWrite(balance[p], opener.loaded, -EntryFee)

CommitOpen ==
    /\ opener.pc = "watched"
    /\ LET t == <<opener.sig, opener.prof>>
           p == opener.prof
       IN  /\ status' = [status EXCEPT ![t] = "OPEN"]
           /\ pnl' = [pnl EXCEPT ![t] = -EntryFee]
           /\ today' = today \cup {t}
           /\ balance' = [balance EXCEPT ![p] = ChargedBalance(p)]
           /\ ledger' = [ledger EXCEPT ![p] = @ - EntryFee]
           /\ NextProfile(p)
    /\ UNCHANGED <<partial, openSymbols, offered, tick, reset>>

Done ==
    /\ opener.pc = "check"
    /\ opener.todo = {}
    /\ opener' = Idle
    /\ UNCHANGED <<rows, balance, openSymbols, offered, tick, reset, ledger>>

\* The flush waits too long for another session's lock, or the message about a
\* trade it has opened cannot be sent; the exception ends the whole call, the
\* remaining profiles included.
OpenFails ==
    /\ \/ opener.pc = "read"
       \/ /\ opener.pc = "check"
          /\ \E p \in Profiles \ opener.todo : status[<<opener.sig, p>>] # "NONE"
    /\ opener' = Idle
    /\ UNCHANGED <<rows, balance, openSymbols, offered, tick, reset, ledger>>

-----------------------------------------------------------------------------
(* on_price: a feed awaits it, so a connection has one call under way at most *)

\* A symbol without open trades returns at once and is not modelled.
Arrive(f, s) ==
    /\ tick[f].pc = "idle"
    /\ s \in Carries[f] \cap openSymbols
    /\ tick' = [tick EXCEPT ![f] = [pc |-> "waiting", sym |-> s]]
    /\ UNCHANGED <<rows, balance, openSymbols, offered, opener, reset, ledger>>

OpenRows(s) == {t \in OpenTrades : MarketOf(t) = s}

SelectNone(f) ==
    /\ tick[f].pc = "waiting"
    /\ PriceLockFree
    /\ OpenRows(tick[f].sym) = {}
    /\ openSymbols' = openSymbols \ {tick[f].sym}
    /\ tick' = [tick EXCEPT ![f] = Idle]
    /\ UNCHANGED <<rows, balance, offered, opener, reset, ledger>>

SelectRows(f) ==
    /\ tick[f].pc = "waiting"
    /\ PriceLockFree
    /\ OpenRows(tick[f].sym) # {}
    /\ tick' = [tick EXCEPT ![f] = [pc |-> "selected", sym |-> tick[f].sym,
                                   trades |-> OpenRows(tick[f].sym)]]
    /\ UNCHANGED <<rows, balance, openSymbols, offered, opener, reset, ledger>>

\* The profile of the first trade that changes.  Its changes are flushed by the
\* next query, so every other profile is read under the write lock.
LoadProfile(f) ==
    /\ tick[f].pc = "selected"
    /\ \E t \in tick[f].trades :
         tick' = [tick EXCEPT ![f] =
                    [pc |-> "loaded", sym |-> tick[f].sym, trades |-> tick[f].trades,
                     prof |-> ProfileOf(t), loaded |-> balance[ProfileOf(t)]]]
    /\ UNCHANGED <<rows, balance, openSymbols, offered, opener, reset, ledger>>

Loaded(f, p) == IF p = tick[f].prof THEN tick[f].loaded ELSE balance[p]

\* What the tick adds to the profile's balance.
Delta(p, gain) == SumOver(gain, {t \in DOMAIN gain : ProfileOf(t) = p})

\* The trades loop up to the commit.  The discard looks at the trades the call
\* selected, not at those that are open by now.  What follows the commit, the
\* messages about closed trades, delays the release of the price lock only.
Settle(f, closed, reduced, gain) ==
    /\ status' = [t \in Trades |-> IF t \in closed THEN "CLOSED" ELSE status[t]]
    /\ partial' = partial \cup reduced
    /\ pnl' = [t \in Trades |-> IF t \in closed \cup reduced
                                THEN pnl[t] + gain[t] ELSE pnl[t]]
    /\ balance' = [p \in Profiles |->
                     OrmWrite(balance[p], Loaded(f, p), Delta(p, gain))]
    /\ ledger' = [p \in Profiles |-> ledger[p] + Delta(p, gain)]
    /\ openSymbols' = IF tick[f].trades \subseteq closed
                      THEN openSymbols \ {tick[f].sym} ELSE openSymbols
    /\ tick' = [tick EXCEPT ![f] = Idle]
    /\ UNCHANGED <<today, offered, opener, reset>>

SettleTick(f) ==
    /\ tick[f].pc = "loaded"
    /\ WriteLockFree
    /\ \E closed \in SUBSET tick[f].trades :
       \E reduced \in SUBSET (tick[f].trades \ partial) :
       \E gain \in [closed \cup reduced -> Gains] :
            Settle(f, closed, reduced, gain)

TickTimeout(f) ==
    /\ tick[f].pc = "loaded"
    /\ tick' = [tick EXCEPT ![f] = Idle]
    /\ UNCHANGED <<rows, balance, openSymbols, offered, opener, reset, ledger>>

-----------------------------------------------------------------------------
(* reset_paper_profile *)

ResetCheck(p) ==
    /\ reset.pc = "idle"
    /\ OpenOf(p) = {}
    /\ reset' = [pc |-> "checked", prof |-> p]
    /\ UNCHANGED <<rows, balance, openSymbols, offered, opener, tick, ledger>>

ResetRead ==
    /\ reset.pc = "checked"
    /\ reset' = [pc |-> "loaded", prof |-> reset.prof, loaded |-> balance[reset.prof]]
    /\ UNCHANGED <<rows, balance, openSymbols, offered, opener, tick, ledger>>

ResetWrite ==
    /\ reset.pc = "loaded"
    /\ WriteLockFree
    /\ LET p == reset.prof
           wrote == reset.loaded # Initial[p]
       IN  /\ balance' = [balance EXCEPT ![p] = IF wrote THEN Initial[p] ELSE @]
           /\ ledger' = [ledger EXCEPT ![p] = IF wrote THEN Initial[p] ELSE @]
    /\ reset' = Idle
    /\ UNCHANGED <<rows, openSymbols, offered, opener, tick>>

ResetTimeout ==
    /\ reset.pc = "loaded"
    /\ reset' = Idle
    /\ UNCHANGED <<rows, balance, openSymbols, offered, opener, tick, ledger>>

-----------------------------------------------------------------------------
Midnight ==
    /\ today # {}
    /\ today' = {}
    /\ UNCHANGED <<status, pnl, partial, balance, openSymbols, offered, opener,
                   tick, reset, ledger>>

\* The process dies; what is not committed is rolled back, and ensure_account
\* rebuilds _open_symbols at the next start.
Restart ==
    /\ opener' = Idle
    /\ tick' = [f \in Feeds |-> Idle]
    /\ reset' = Idle
    /\ openSymbols' = {MarketOf(t) : t \in OpenTrades}
    /\ UNCHANGED <<rows, balance, offered, ledger>>

OpenerStep ==
    \/ \E p \in Profiles : Skip(p) \/ ReadProfile(p)
    \/ Reject \/ Insert \/ Watch \/ CommitOpen \/ Done

TickSelect(f) == SelectNone(f) \/ SelectRows(f)

Next ==
    \/ \E g \in Signals : Offer(g)
    \/ OpenerStep
    \/ OpenFails
    \/ \E f \in Feeds, s \in Symbols : Arrive(f, s)
    \/ \E f \in Feeds :
         TickSelect(f) \/ LoadProfile(f) \/ SettleTick(f) \/ TickTimeout(f)
    \/ \E p \in ResetProfiles : ResetCheck(p)
    \/ ResetRead
    \/ ResetWrite
    \/ ResetTimeout
    \/ Midnight
    \/ Restart

\* Every coroutine the loop has made ready runs.  asyncio.Lock is first come
\* first served, so a waiting tick is not overtaken for ever.
Fairness ==
    /\ WF_vars(OpenerStep)
    /\ \A f \in Feeds : /\ SF_vars(TickSelect(f))
                        /\ WF_vars(LoadProfile(f) \/ SettleTick(f))

Spec == Init /\ [][Next]_vars
FairSpec == Spec /\ Fairness
-----------------------------------------------------------------------------
\* Values every variable takes.
TypeOK ==
    /\ status \in [Trades -> {"NONE", "OPEN", "CLOSED"}]
    /\ pnl \in [Trades -> Int]
    /\ partial \subseteq Trades
    /\ balance \in [Profiles -> Int]
    /\ today \subseteq Trades
    /\ openSymbols \subseteq Symbols
    /\ offered \subseteq Signals
    /\ opener \in OpenerStates
    /\ tick \in [Feeds -> TickStates]
    /\ reset \in ResetStates
    /\ ledger \in [Profiles -> Int]

\* No profile ever holds more positions than max_open_positions, nor more on one
\* symbol than max_positions_per_symbol.
WithinLimits ==
    \A p \in Profiles :
        /\ Cardinality(OpenOf(p)) <= MaxOpen[p]
        /\ \A s \in Symbols : Cardinality(OpenOn(p, s)) <= MaxPerSymbol[p]

\* The limits and the duplicate check are queried long before the row is
\* inserted, outside any transaction.  They still hold while it is under way:
\* the IntegrityError handler of the executor is never reached.
InFlightAdmissible ==
    opener.pc \in {"read", "inserted", "watched"} =>
        Admissible(<<opener.sig, opener.prof>>)

\* At most one tick is between its SELECT and its commit, and the trades it
\* selected are open until then, whoever else commits in between.
TickOwnsItsTrades ==
    \A f \in Feeds : tick[f].pc \in {"selected", "loaded"} =>
        /\ tick[f].trades # {}
        /\ \A t \in tick[f].trades : status[t] = "OPEN" /\ MarketOf(t) = tick[f].sym
        /\ \A g \in Feeds \ {f} : tick[g].pc \notin {"selected", "loaded"}

\* At the commit of a new trade the profile has not used up its daily loss:
\* trades that close after the check wait for the opener's commit.
OpensWithinDailyLoss ==
    [][\A p \in Profiles : OpenOf(p)' \ OpenOf(p) # {}
            => RealizedToday(p) > -MaxDailyLoss[p]]_vars

Gap(p) == balance[p] - ledger[p]

\* A session about to write a balance that is no longer the one it loaded.
StaleWriter(p) ==
    \/ opener.pc = "watched" /\ opener.prof = p /\ opener.loaded # balance[p]
    \/ \E f \in Feeds : /\ tick[f].pc = "loaded"
                        /\ tick[f].prof = p
                        /\ tick[f].loaded # balance[p]

\* A balance departs from the fees and gains booked on it only when a session
\* writes a stale one; every other commit, a reset included, keeps it right.
DriftOnlyFromStaleRead ==
    [][\A p \in Profiles : Gap(p)' \notin {0, Gap(p)} => StaleWriter(p)]_vars

\* README.md:484 "On close, fees and slippage are applied, only that profile
\* balance is updated": nothing booked on a profile is missing in its balance.
BalanceIsLedger == \A p \in Profiles : Gap(p) = 0

\* README.md:483 "Ticks from public market data check TP, SL, timeout": the tick
\* of a symbol with an open trade is not turned away by _open_symbols.
OpenIsWatched == \A t \in OpenTrades : MarketOf(t) \in openSymbols

\* The price lock and the database's write lock never block each other for ever:
\* a tick that has started ends, and so does the opening of a signal's trades.
ManagerMoves ==
    /\ \A f \in Feeds : tick[f].pc # "idle" ~> tick[f].pc = "idle"
    /\ opener.pc # "idle" ~> opener.pc = "idle"

\* The committed rows behave as PaperBook promises.
Book == INSTANCE PaperBook
ImplementsBook == Book!Spec
=============================================================================

---------------------------- MODULE SignalEngine ----------------------------
(***************************************************************************)
(* SignalEngine.evaluate_once, every fifteen seconds: go through the       *)
(* symbols in one session that queries the cooldown, inserts signals and   *)
(* sends their Telegram messages, commit, and offer the new signals to the *)
(* paper manager.  Its first step, storing the density events in a session *)
(* of its own, is in module Density.                                       *)
(*                                                                         *)
(* SQLite has one write lock.  The session takes it at its first insert    *)
(* and keeps it until the commit, through the messages sent in between; a  *)
(* market snapshot is stored by a session of its own inside the first one. *)
(* Whoever waits for the lock gives up after the busy timeout.             *)
(*                                                                         *)
(* What a strategy proposes is left open: any of the candidates it may     *)
(* offer for a symbol, above or below the least score.  Whether a snapshot *)
(* is due is left open too, and so is its content.                         *)
(***************************************************************************)
EXTENDS Integers, Sequences, SequencesExt

CONSTANTS
    LastSymbol,     \* the symbols are 1..LastSymbol, in the order of the loop
    Offers,         \* symbol |-> the strategy keys of its candidates, in order
    Cooldown,       \* signals.cooldown_minutes_per_symbol
    MaxTime,        \* bound: the clock runs from 0 to MaxTime
    MaxCuts         \* bound: exceptions and crashes

ASSUME EngineAssumption ==
    /\ LastSymbol \in Nat /\ Cooldown \in Nat /\ MaxTime \in Nat /\ MaxCuts \in Nat
    /\ Offers \in [1..LastSymbol -> Seq(STRING)]

VARIABLES
    now,
    engine,         \* evaluate_once: where it is and its local variables
    lock,           \* who holds SQLite's write lock
    signals,        \* the committed rows of the table signals
    sent,           \* history: the signals a Telegram message was sent for
    opened,         \* history: the signals given to open_for_signal
    declined,       \* history: the signals met while paper trading was off
    paused, paperOn,
    cuts,           \* history: evaluations cut short by an error or a crash
    missed          \* history: what such an evaluation had committed and not yet offered

vars == <<now, engine, lock, signals, sent, opened, declined, paused, paperOn, cuts, missed>>
database == <<lock, signals>>
told == <<sent, opened, declined>>
outside == <<now, paused, paperOn, cuts, missed>>

Symbols == 1..LastSymbol
Rows == [symbol : Symbols, key : UNION {ToSet(Offers[s]) : s \in Symbols}, at : 0..MaxTime]

Idle == [pc |-> "idle", symbol |-> 0, slot |-> 0, at |-> 0, rows |-> {},
         toOpen |-> <<>>]

Init ==
    /\ now = 0 /\ engine = Idle /\ lock = "free"
    /\ signals = {} /\ sent = {} /\ opened = {} /\ declined = {}
    /\ paused = FALSE /\ paperOn = TRUE /\ cuts = 0 /\ missed = {}

GoTo(pc) == engine' = [engine EXCEPT !.pc = pc]
NextSymbol == engine' = [engine EXCEPT !.pc = "symbol", !.symbol = @ + 1, !.slot = 0]
NextSlot == engine' = [engine EXCEPT !.pc = "candidate", !.slot = @ + 1, !.at = 0]

-----------------------------------------------------------------------------
(* One symbol *)

Begin ==
    /\ engine.pc = "idle"
    /\ engine' = [engine EXCEPT !.pc = "symbol", !.symbol = 1]
    /\ UNCHANGED <<database, told, outside>>

\* A symbol without a price is passed over.
TakeSymbol ==
    /\ engine.pc = "symbol"
    /\ engine.symbol <= LastSymbol
    /\ \/ NextSymbol
       \/ GoTo("snapshot")
       \/ GoTo("snapshotted")
    /\ UNCHANGED <<database, told, outside>>

StoreSnapshot ==
    /\ engine.pc = "snapshot"
    /\ lock = "free"
    /\ GoTo("snapshotted")
    /\ UNCHANGED <<database, told, outside>>

\* Faulty: only another holder of the lock is waited for with a timeout.
SkipForOthers ==
    /\ engine.pc = "snapshot"
    /\ lock = "other"
    /\ GoTo("snapshotted")
    /\ UNCHANGED <<database, told, outside>>

\* The busy timeout, also when it is the evaluation's own session that holds the lock.
SkipSnapshot ==
    /\ engine.pc = "snapshot"
    /\ lock # "free"
    /\ GoTo("snapshotted")
    /\ UNCHANGED <<database, told, outside>>

AskStrategies ==
    /\ engine.pc = "snapshotted"
    /\ IF paused THEN NextSymbol
                 ELSE engine' = [engine EXCEPT !.pc = "candidate", !.slot = 1]
    /\ UNCHANGED <<database, told, outside>>

-----------------------------------------------------------------------------
(* One candidate *)

Key == Offers[engine.symbol][engine.slot]

\* Faulty: the rows this session has inserted are not looked at.
CoolingCommitted(symbol, key) ==
    \E s \in signals : s.symbol = symbol /\ s.key = key /\ s.at >= now - Cooldown

\* latest_signal_for_symbol, in the session that inserts.
Cooling(symbol, key) ==
    \E s \in signals \cup engine.rows :
        s.symbol = symbol /\ s.key = key /\ s.at >= now - Cooldown

\* The candidate is not proposed, scores too little or is in cooldown.
PassOver ==
    /\ engine.pc = "candidate"
    /\ engine.slot <= Len(Offers[engine.symbol])
    /\ NextSlot
    /\ UNCHANGED <<database, told, outside>>

Accept ==
    /\ engine.pc = "candidate"
    /\ engine.slot <= Len(Offers[engine.symbol])
    /\ ~Cooling(engine.symbol, Key)
    /\ engine' = [engine EXCEPT !.pc = "adding", !.at = now]
    /\ UNCHANGED <<database, told, outside>>

LastCandidate ==
    /\ engine.pc = "candidate"
    /\ engine.slot > Len(Offers[engine.symbol])
    /\ NextSymbol
    /\ UNCHANGED <<database, told, outside>>

Row == [symbol |-> engine.symbol, key |-> Key, at |-> engine.at]

\* add_signal: the flush takes the lock, or has it from an earlier row.
AddSignal ==
    /\ engine.pc = "adding"
    /\ lock # "other"
    /\ lock' = "engine"
    /\ engine' = [engine EXCEPT !.pc = "sending", !.rows = @ \cup {Row}]
    /\ UNCHANGED <<signals, told, outside>>

\* send_signal, which says nothing while paused, and what depends on paper trading.
Sent == IF paused THEN sent ELSE sent \cup {Row}

\* Faulty: the signal is given to the paper manager before it is committed.
SendAndOpen ==
    /\ engine.pc = "sending"
    /\ sent' = Sent
    /\ opened' = opened \cup {Row}
    /\ NextSlot
    /\ UNCHANGED <<declined, database, outside>>

SendSignal ==
    /\ engine.pc = "sending"
    /\ sent' = Sent
    /\ IF paperOn
          THEN /\ engine' = [engine EXCEPT !.pc = "candidate", !.slot = @ + 1,
                                           !.at = 0, !.toOpen = Append(@, Row)]
               /\ declined' = declined
          ELSE NextSlot /\ declined' = declined \cup {Row}
    /\ UNCHANGED <<opened, database, outside>>

-----------------------------------------------------------------------------
(* The end of the evaluation *)

Commit ==
    /\ engine.pc = "symbol"
    /\ engine.symbol > LastSymbol
    /\ signals' = signals \cup engine.rows
    /\ lock' = IF lock = "engine" THEN "free" ELSE lock
    /\ engine' = [engine EXCEPT !.pc = "opening", !.rows = {}]
    /\ UNCHANGED <<told, outside>>

\* Faulty: the loop ends at the first signal.
OpenFirst ==
    /\ engine.pc = "opening"
    /\ engine.toOpen # <<>>
    /\ opened' = opened \cup {Head(engine.toOpen)}
    /\ engine' = [engine EXCEPT !.toOpen = <<>>]
    /\ UNCHANGED <<database, sent, declined, outside>>

\* open_for_signal; a rejected signal does not end the loop.
OpenPaper ==
    /\ engine.pc = "opening"
    /\ engine.toOpen # <<>>
    /\ opened' = opened \cup {Head(engine.toOpen)}
    /\ engine' = [engine EXCEPT !.toOpen = Tail(@)]
    /\ UNCHANGED <<database, sent, declined, outside>>

Finish ==
    /\ engine.pc = "opening"
    /\ engine.toOpen = <<>>
    /\ engine' = Idle
    /\ UNCHANGED <<database, told, outside>>

\* Faulty: the session is left open.
RollBackLater ==
    /\ engine' = Idle
    /\ UNCHANGED <<lock, signals, opened, declined>>

\* What an exception leaves: the session is rolled back, run() logs and goes on.
RollBack ==
    /\ engine' = Idle
    /\ lock' = IF lock = "engine" THEN "free" ELSE lock
    /\ UNCHANGED <<signals, opened, declined>>

\* The insert waits in vain for the write lock.
AddTimesOut ==
    /\ engine.pc = "adding"
    /\ lock = "other"
    /\ RollBack
    /\ UNCHANGED <<sent, outside>>

\* The loop over paper_candidates is only reached by way of the commit.
Cut == /\ cuts < MaxCuts
       /\ cuts' = cuts + 1
       /\ missed' = missed \cup IF engine.pc = "opening" THEN ToSet(engine.toOpen) ELSE {}

\* Any other exception; send_message may raise after the message got through.
Fail ==
    /\ Cut
    /\ engine.pc # "idle"
    /\ RollBack
    /\ \/ sent' = sent
       \/ engine.pc = "sending" /\ sent' = Sent
    /\ UNCHANGED <<now, paused, paperOn>>

Crash ==
    /\ Cut
    /\ RollBack
    /\ paused' = FALSE
    /\ UNCHANGED <<now, sent, paperOn>>

-----------------------------------------------------------------------------
(* The rest of the program *)

Tick == now < MaxTime /\ now' = now + 1
        /\ UNCHANGED <<engine, database, told, paused, paperOn, cuts, missed>>

\* /pause and /resume, and the switch of paper trading.
Switch ==
    /\ \/ paused' = ~paused /\ paperOn' = paperOn
       \/ paperOn' = ~paperOn /\ paused' = paused
    /\ UNCHANGED <<now, engine, database, told, cuts, missed>>

OthersLock ==
    /\ \/ lock = "free" /\ lock' = "other"
       \/ lock = "other" /\ lock' = "free"
    /\ UNCHANGED <<engine, signals, told, outside>>

Proceed ==
    \/ Begin \/ TakeSymbol \/ StoreSnapshot \/ SkipSnapshot \/ AskStrategies
    \/ PassOver \/ Accept \/ LastCandidate \/ AddSignal \/ AddTimesOut \/ SendSignal
    \/ Commit \/ OpenPaper \/ Finish

Next == Proceed \/ Fail \/ Crash \/ Tick \/ Switch \/ OthersLock

Spec == Init /\ [][Next]_vars

\* The engine's task is always scheduled again, and each of its waits has a timeout.
FairSpec == Spec /\ WF_vars(Proceed)

-----------------------------------------------------------------------------
(* Properties *)

\* Every variable has its type, and the lock is the engine's exactly when it has rows.
TypeOK ==
    /\ now \in 0..MaxTime
    /\ engine.symbol \in 0..(LastSymbol + 1)
    /\ engine.rows \subseteq Rows /\ ToSet(engine.toOpen) \subseteq Rows
    /\ lock \in {"free", "engine", "other"}
    /\ (lock = "engine") = (engine.rows # {})
    /\ signals \subseteq Rows /\ sent \subseteq Rows
    /\ opened \subseteq Rows /\ declined \subseteq Rows
    /\ paused \in BOOLEAN /\ paperOn \in BOOLEAN /\ cuts \in 0..MaxCuts
    /\ missed \subseteq Rows

\* Once a signal is stored, no later one of the same symbol and strategy is stored or
\* announced within the cooldown, over all evaluations, pauses, rollbacks and restarts
\* (evaluate_once, the cooldown query, which asks for the candidate's strategy_key).  An
\* announced signal whose session was rolled back is not stored, and may come again.
OneAlertPerCooldown ==
    \A s \in signals \cup engine.rows : \A t \in signals \cup engine.rows \cup sent :
        (s.symbol = t.symbol /\ s.key = t.key /\ s.at <= t.at /\ s # t)
            => t.at - s.at > Cooldown

\* The paper manager never gets a signal that a rollback could take back: its trades
\* refer to stored signals (evaluate_once opens after its session has ended).
OpenedOnlyStored == opened \cup ToSet(engine.toOpen) \subseteq signals \cup engine.rows
                    /\ opened \subseteq signals

\* "Applies per-symbol cooldown to avoid duplicates" (README.md): of two signals of a
\* symbol, of whatever strategies, the later comes after the cooldown.
OneAlertPerSymbol ==
    \A s, t \in signals : (s.symbol = t.symbol /\ s.at <= t.at /\ s # t)
                            => t.at - s.at > Cooldown

\* A stored signal is in cooldown and comes only once, so it must reach the paper manager:
\* it has, or is still to, or paper trading was off; an error or a crash loses no more than
\* what that evaluation had committed and not yet offered, and never a signal of another
\* (evaluate_once, the loop over paper_candidates after the session).
OfferedUnlessCut ==
    signals \subseteq opened \cup declined \cup ToSet(engine.toOpen) \cup missed

\* An evaluation ends, although it waits in a session of its own for a lock that its outer
\* session may hold (evaluate_once, _persist_market_snapshot).
EvaluationEnds == engine.pc # "idle" ~> engine.pc = "idle"
=============================================================================

--------------------------- MODULE Signals_proofs ----------------------------
(***************************************************************************)
(* Proofs about SignalEngine, for any symbols, candidates, cooldown and    *)
(* cuts, and about Outcomes, for all prices, horizons and retention times. *)
(***************************************************************************)
EXTENDS SignalEngine, Outcomes, FiniteSetTheorems, WellFoundedInduction, TLAPS

(* ---------------------------- the signal engine ----------------------------- *)

LEMMA EmptyHasNone == ToSet(<<>>) = {}
BY DEF ToSet

LEMMA AppendAdds ==
    ASSUME NEW S, NEW q \in Seq(S), NEW x \in S
    PROVE  Append(q, x) \in Seq(S) /\ ToSet(Append(q, x)) = ToSet(q) \cup {x}
<1>1. /\ Len(Append(q, x)) = Len(q) + 1 /\ Append(q, x) \in Seq(S)
      /\ \A i \in 1..Len(q) : Append(q, x)[i] = q[i]
      /\ Append(q, x)[Len(q) + 1] = x
  OBVIOUS
<1>2. DOMAIN q = 1..Len(q) /\ DOMAIN Append(q, x) = 1..(Len(q) + 1) /\ Len(q) \in Nat
  BY <1>1
<1>3. QED
  BY <1>1, <1>2 DEF ToSet

LEMMA HeadAndTail ==
    ASSUME NEW S, NEW q \in Seq(S), q # <<>>
    PROVE  /\ Head(q) \in S /\ Tail(q) \in Seq(S)
           /\ ToSet(q) = {Head(q)} \cup ToSet(Tail(q))
<1>1. /\ Len(q) \in Nat \ {0} /\ DOMAIN q = 1..Len(q) /\ Head(q) = q[1]
      /\ Tail(q) \in Seq(S) /\ Len(Tail(q)) = Len(q) - 1
      /\ \A i \in 1..(Len(q) - 1) : Tail(q)[i] = q[i + 1]
  OBVIOUS
<1>2. DOMAIN Tail(q) = 1..(Len(q) - 1)
  BY <1>1
<1>3. ASSUME NEW i \in 1..Len(q), i # 1 PROVE q[i] = Tail(q)[i - 1] /\ i - 1 \in 1..(Len(q) - 1)
  BY <1>1, <1>3
<1>4. ASSUME NEW x \in ToSet(q) PROVE x = Head(q) \/ x \in ToSet(Tail(q))
  <2>1. PICK i \in 1..Len(q) : x = q[i]
    BY <1>1 DEF ToSet
  <2>2. CASE i = 1
    BY <1>1, <2>1, <2>2
  <2>3. CASE i # 1
    BY <1>2, <1>3, <2>1, <2>3 DEF ToSet
  <2>4. QED
    BY <2>2, <2>3
<1>5. {Head(q)} \cup ToSet(Tail(q)) \subseteq ToSet(q)
  BY <1>1, <1>2 DEF ToSet
<1>6. QED
  BY <1>1, <1>4, <1>5

LEMMA SeqWithin ==
    ASSUME NEW S, NEW q \in Seq(S) PROVE ToSet(q) \subseteq S
BY DEF ToSet

-----------------------------------------------------------------------------
(* The shape of the evaluation's state *)

Pcs == {"idle", "symbol", "snapshot", "snapshotted", "candidate", "adding", "sending",
        "opening"}

Engines == [pc : Pcs, symbol : 0..(LastSymbol + 1), slot : Nat, at : 0..MaxTime,
            rows : SUBSET Rows, toOpen : Seq(Rows)]

\* Inside a symbol there is one, and a candidate that was accepted is one it offers.
AtCandidate ==
    /\ engine.pc = "symbol" => engine.symbol # 0
    /\ engine.pc \in {"snapshot", "snapshotted", "candidate", "adding", "sending"}
         => engine.symbol \in Symbols
    /\ engine.pc = "candidate" => engine.slot # 0
    /\ engine.pc \in {"adding", "sending"} => engine.slot \in 1..Len(Offers[engine.symbol])

EngineShape ==
    /\ now \in 0..MaxTime
    /\ engine \in Engines /\ AtCandidate
    /\ engine.pc \in {"idle", "opening"} => engine.rows = {}
    /\ lock \in {"free", "engine", "other"}
    /\ (lock = "engine") = (engine.rows # {})
    /\ signals \in SUBSET Rows /\ sent \in SUBSET Rows
    /\ opened \in SUBSET Rows /\ declined \in SUBSET Rows
    /\ paused \in BOOLEAN /\ paperOn \in BOOLEAN /\ cuts \in 0..MaxCuts
    /\ missed \in SUBSET Rows

LEMMA RowIsRow == EngineShape /\ engine.pc \in {"adding", "sending"} => Row \in Rows
<1> SUFFICES ASSUME EngineShape, engine.pc \in {"adding", "sending"} PROVE Row \in Rows
  OBVIOUS
<1>1. /\ engine.symbol \in Symbols /\ engine.slot \in 1..Len(Offers[engine.symbol])
      /\ engine.at \in 0..MaxTime
  BY DEF EngineShape, AtCandidate, Engines
<1>2. Offers[engine.symbol] \in Seq(STRING)
  BY <1>1, EngineAssumption DEF Symbols
<1>3. Key \in ToSet(Offers[engine.symbol])
  BY <1>1, <1>2 DEF Key, ToSet
<1>4. QED
  BY <1>1, <1>3 DEF Row, Rows

LEMMA Ranges ==
    /\ 0 \in 0..MaxTime /\ 0 \in 0..MaxCuts
    /\ 0 \in 0..(LastSymbol + 1) /\ 1 \in 0..(LastSymbol + 1)
    /\ \A n \in 0..(LastSymbol + 1) :
         n <= LastSymbol => /\ n + 1 \in 0..(LastSymbol + 1) /\ n + 1 # 0
                            /\ n # 0 => n \in Symbols
    /\ \A n \in Symbols : n \in 0..(LastSymbol + 1) /\ n <= LastSymbol
BY EngineAssumption DEF Symbols

LEMMA IdleIsEngine == Idle \in Engines
<1>1. <<>> \in Seq(Rows)
  OBVIOUS
<1>2. QED
  BY <1>1, Ranges DEF Idle, Engines, Pcs

LEMMA EngineShapeInit == Init => EngineShape
<1> SUFFICES ASSUME Init PROVE EngineShape
  OBVIOUS
<1>1. Idle.pc = "idle" /\ Idle.rows = {}
  BY DEF Idle
<1>2. QED
  BY <1>1, IdleIsEngine, Ranges DEF Init, EngineShape, AtCandidate

LEMMA EngineShapeNext == EngineShape /\ [Next]_vars => EngineShape'
<1> SUFFICES ASSUME EngineShape, [Next]_vars PROVE EngineShape'
  OBVIOUS
<1> USE DEF database, told, outside
<1>1. CASE Begin \/ StoreSnapshot \/ SkipSnapshot
  <2>1. engine' \in Engines
    BY <1>1, Ranges DEF Begin, StoreSnapshot, SkipSnapshot, GoTo, EngineShape, Engines, Pcs
  <2>2. AtCandidate'
    <3>1. CASE Begin
      BY <3>1 DEF Begin, EngineShape, AtCandidate, Engines
    <3>2. CASE StoreSnapshot \/ SkipSnapshot
      BY <3>2 DEF StoreSnapshot, SkipSnapshot, GoTo, EngineShape, AtCandidate, Engines
    <3>3. QED
      BY <1>1, <3>1, <3>2
  <2>3. engine'.pc \notin {"idle", "opening"} /\ engine'.rows = engine.rows
    BY <1>1 DEF Begin, StoreSnapshot, SkipSnapshot, GoTo, EngineShape, Engines
  <2>4. QED
    BY <1>1, <2>1, <2>2, <2>3 DEF Begin, StoreSnapshot, SkipSnapshot, EngineShape
<1>2. CASE TakeSymbol
  <2>1. engine' \in Engines
    <3>1. engine.symbol + 1 \in 0..(LastSymbol + 1) /\ 0 \in Nat
      BY <1>2, Ranges DEF TakeSymbol, EngineShape, Engines
    <3>2. QED
      BY <1>2, <3>1 DEF TakeSymbol, NextSymbol, GoTo, EngineShape, Engines, Pcs
  <2>2. AtCandidate'
    BY <1>2, Ranges DEF TakeSymbol, NextSymbol, GoTo, EngineShape, AtCandidate, Engines
  <2>3. engine'.pc \notin {"idle", "opening"} /\ engine'.rows = engine.rows
    BY <1>2 DEF TakeSymbol, NextSymbol, GoTo, EngineShape, Engines
  <2>4. QED
    BY <1>2, <2>1, <2>2, <2>3 DEF TakeSymbol, EngineShape
<1>3. CASE AskStrategies \/ PassOver \/ LastCandidate
  <2> USE DEF AskStrategies, PassOver, LastCandidate, NextSymbol, NextSlot
  <2>1. engine.symbol \in Symbols
    BY <1>3 DEF EngineShape, AtCandidate
  <2>2. engine' \in Engines
    <3>1. /\ engine.symbol + 1 \in 0..(LastSymbol + 1) /\ 0 \in Nat /\ 1 \in Nat
          /\ 0 \in 0..MaxTime
      BY <2>1, Ranges
    <3>2. engine.slot + 1 \in Nat
      BY DEF EngineShape, Engines
    <3>3. QED
      BY <1>3, <3>1, <3>2 DEF EngineShape, Engines, Pcs
  <2>3. AtCandidate'
    <3>1. engine.symbol + 1 # 0 /\ engine.slot + 1 # 0
      BY <2>1, Ranges DEF EngineShape, Engines
    <3>2. CASE AskStrategies
      <4>1. \/ engine'.pc = "symbol" /\ engine'.symbol = engine.symbol + 1
            \/ /\ engine'.pc = "candidate" /\ engine'.symbol = engine.symbol
               /\ engine'.slot = 1
        BY <3>2 DEF EngineShape, Engines
      <4>2. QED
        BY <4>1, <3>1, <2>1 DEF AtCandidate
    <3>3. CASE PassOver
      BY <3>1, <3>3, <2>1 DEF EngineShape, AtCandidate, Engines
    <3>4. CASE LastCandidate
      BY <3>1, <3>4, <2>1 DEF EngineShape, AtCandidate, Engines
    <3>5. QED
      BY <1>3, <3>2, <3>3, <3>4
  <2>4. engine'.pc \notin {"idle", "opening"} /\ engine'.rows = engine.rows
    BY <1>3 DEF EngineShape, Engines
  <2>5. QED
    BY <1>3, <2>2, <2>3, <2>4 DEF EngineShape
<1>4. CASE Accept
  <2>1. /\ engine.symbol \in Symbols /\ engine.slot \in 1..Len(Offers[engine.symbol])
        /\ engine' \in Engines
    <3>1. engine.symbol \in Symbols
      BY <1>4 DEF Accept, EngineShape, AtCandidate
    <3>2. Len(Offers[engine.symbol]) \in Nat
      BY <3>1, EngineAssumption DEF Symbols
    <3>3. engine.slot \in Nat /\ engine.slot # 0
      BY <1>4 DEF Accept, EngineShape, AtCandidate, Engines
    <3>4. engine' \in Engines
      BY <1>4 DEF Accept, EngineShape, Engines, Pcs
    <3>5. QED
      BY <1>4, <3>1, <3>2, <3>3, <3>4 DEF Accept
  <2>2. QED
    BY <1>4, <2>1 DEF Accept, EngineShape, AtCandidate, Engines
<1>5. CASE AddSignal
  <2>1. engine' \in Engines
    BY <1>5, RowIsRow DEF AddSignal, EngineShape, Engines, Pcs
  <2>2. AtCandidate' /\ engine'.pc = "sending" /\ engine'.rows # {}
    BY <1>5 DEF AddSignal, EngineShape, AtCandidate, Engines
  <2>3. QED
    BY <1>5, <2>1, <2>2 DEF AddSignal, EngineShape
<1>6. CASE SendSignal
  <2>1. Row \in Rows /\ Append(engine.toOpen, Row) \in Seq(Rows)
    BY <1>6, RowIsRow, AppendAdds DEF SendSignal, EngineShape, Engines
  <2>2. engine' \in Engines
    <3>1. engine.slot + 1 \in Nat /\ 0 \in 0..MaxTime
      BY Ranges DEF EngineShape, Engines
    <3>2. QED
      BY <1>6, <2>1, <3>1 DEF SendSignal, NextSlot, EngineShape, Engines, Pcs
  <2>3. AtCandidate' /\ engine'.pc = "candidate" /\ engine'.rows = engine.rows
    <3>1. engine.slot + 1 # 0
      BY DEF EngineShape, Engines
    <3>2. QED
      BY <1>6, <3>1 DEF SendSignal, NextSlot, EngineShape, AtCandidate, Engines
  <2>4. QED
    BY <1>6, <2>1, <2>2, <2>3 DEF SendSignal, Sent, NextSlot, EngineShape
<1>7. CASE Commit
  <2>1. engine' \in Engines
    BY <1>7 DEF Commit, EngineShape, Engines, Pcs
  <2>2. AtCandidate' /\ engine'.rows = {}
    BY <1>7 DEF Commit, EngineShape, AtCandidate, Engines
  <2>3. QED
    BY <1>7, <2>1, <2>2 DEF Commit, EngineShape, Engines
<1>8. CASE OpenPaper
  <2>1. Head(engine.toOpen) \in Rows /\ Tail(engine.toOpen) \in Seq(Rows)
    BY <1>8, HeadAndTail DEF OpenPaper, EngineShape, Engines
  <2>2. engine' \in Engines
    BY <1>8, <2>1 DEF OpenPaper, EngineShape, Engines
  <2>3. AtCandidate' /\ engine'.rows = engine.rows /\ engine'.pc = "opening"
    BY <1>8 DEF OpenPaper, EngineShape, AtCandidate, Engines
  <2>4. QED
    BY <1>8, <2>1, <2>2, <2>3 DEF OpenPaper, EngineShape
<1>9. CASE Finish \/ AddTimesOut \/ Fail \/ Crash
  <2>1. engine' = Idle /\ Idle.rows = {} /\ Idle.pc = "idle"
    BY <1>9 DEF Finish, AddTimesOut, Fail, Crash, RollBack, Idle
  <2>2. sent' \in SUBSET Rows
    BY <1>9, RowIsRow DEF Finish, AddTimesOut, Fail, Crash, RollBack, Sent, EngineShape
  <2>3. cuts' \in 0..MaxCuts
    BY <1>9, EngineAssumption DEF Finish, AddTimesOut, Fail, Crash, Cut, RollBack, EngineShape
  <2>4. missed' \in SUBSET Rows
    <3>1. ToSet(engine.toOpen) \subseteq Rows
      BY SeqWithin DEF EngineShape, Engines
    <3>2. QED
      BY <1>9, <3>1 DEF Finish, AddTimesOut, Fail, Crash, Cut, RollBack, EngineShape
  <2>5. /\ lock' \in {"free", "other"}
        /\ UNCHANGED <<now, signals, opened, declined, paperOn>>
        /\ paused' \in BOOLEAN
    BY <1>9 DEF Finish, AddTimesOut, Fail, Crash, RollBack, EngineShape
  <2>6. QED
    BY <2>1, <2>2, <2>3, <2>4, <2>5, IdleIsEngine DEF EngineShape, AtCandidate
<1>10. CASE Tick
  BY <1>10, EngineAssumption DEF Tick, EngineShape, AtCandidate
<1>11. CASE Switch \/ OthersLock \/ UNCHANGED vars
  BY <1>11 DEF Switch, OthersLock, vars, EngineShape, AtCandidate
<1>12. QED
  BY <1>1, <1>2, <1>3, <1>4, <1>5, <1>6, <1>7, <1>8, <1>9, <1>10, <1>11 DEF Next, Proceed

\* Every variable keeps its type, and the write lock is the evaluation's exactly while it
\* has uncommitted rows: no error, timeout or crash leaves the database locked.
THEOREM EngineTypeCorrect == Spec => []TypeOK
<1>1. Spec => []EngineShape
  BY EngineShapeInit, EngineShapeNext, PTL DEF Spec
<1>2. EngineShape => TypeOK
  BY SeqWithin DEF EngineShape, TypeOK, Engines
<1>3. QED
  BY <1>1, <1>2, PTL

-----------------------------------------------------------------------------
(* The inductive invariant *)

Ours == signals \cup engine.rows

\* No row and no message is of a later time than the clock shows.
NotAhead == /\ \A s \in Ours \cup sent : s.at <= now
            /\ engine.pc \in {"adding", "sending"} => engine.at <= now

\* A candidate that was accepted is out of the cooldown of every row there is, and the
\* newest of all, until it is a row itself.
AcceptedIsFree ==
    engine.pc = "adding" =>
        /\ \A s \in Ours \cup sent : s.at <= engine.at
        /\ \A s \in Ours : s.symbol = engine.symbol /\ s.key = Key
                            => engine.at - s.at > Cooldown

\* The signal whose message is being sent.
UnderWay == IF engine.pc = "sending" THEN {Row} ELSE {}

\* Before the commit, what is to be opened is among the session's own rows.
OpensItsOwn ==
    /\ UnderWay \subseteq engine.rows
    /\ engine.pc # "opening" => ToSet(engine.toOpen) \subseteq engine.rows

\* No row is forgotten, from its insert until it is offered or declined: only what an error
\* or a crash kept from being offered is missed.
NoneForgotten ==
    /\ signals \subseteq opened \cup declined \cup ToSet(engine.toOpen) \cup missed
    /\ engine.pc # "opening" => signals \subseteq opened \cup declined \cup missed
    /\ engine.rows \ UnderWay \subseteq declined \cup ToSet(engine.toOpen)

EngineIInv == /\ EngineShape /\ NotAhead /\ AcceptedIsFree /\ OpensItsOwn
        /\ OneAlertPerCooldown /\ OpenedOnlyStored /\ NoneForgotten

LEMMA EngineInitIInv == Init => EngineIInv
<1> SUFFICES ASSUME Init PROVE EngineIInv
  OBVIOUS
<1>1. ToSet(<<>>) = {}
  BY EmptyHasNone
<1>2. QED
  BY <1>1, EngineShapeInit
     DEF Init, Idle, EngineIInv, Ours, NotAhead, AcceptedIsFree, UnderWay, OpensItsOwn,
         OneAlertPerCooldown, OpenedOnlyStored, NoneForgotten

\* Steps that leave the rows, the messages and the offers alone, and are at no candidate
\* that was accepted before or after.
LEMMA QuietStep ==
    ASSUME EngineIInv, EngineShape',
           UNCHANGED <<now, signals, sent, opened, declined, missed>>,
           engine.pc \notin {"sending", "opening"},
           engine'.pc \notin {"adding", "sending", "opening"},
           engine'.rows = engine.rows, engine'.toOpen = engine.toOpen
    PROVE  EngineIInv'
BY DEF EngineIInv, Ours, NotAhead, AcceptedIsFree, UnderWay, OpensItsOwn,
       OneAlertPerCooldown, OpenedOnlyStored, NoneForgotten

\* Two rows that agree in symbol, key and time are the same.
LEMMA SameRow ==
    ASSUME NEW r \in Rows, NEW t \in Rows, r.symbol = t.symbol, r.key = t.key, r.at = t.at
    PROVE  r = t
BY DEF Rows

LEMMA AddIInv == EngineIInv /\ EngineShape' /\ AddSignal => EngineIInv'
<1> SUFFICES ASSUME EngineIInv, EngineShape', AddSignal PROVE EngineIInv'
  OBVIOUS
<1>1. /\ engine.pc = "adding" /\ engine'.pc = "sending"
      /\ engine'.rows = engine.rows \cup {Row} /\ Row' = Row
      /\ engine'.at = engine.at /\ engine'.toOpen = engine.toOpen
      /\ UNCHANGED <<now, signals, sent, opened, declined, missed>>
  BY DEF AddSignal, EngineIInv, EngineShape, Engines, Row, Key, told, outside
<1>2. /\ Row \in Rows /\ Ours' = Ours \cup {Row}
      /\ Row.symbol = engine.symbol /\ Row.key = Key /\ Row.at = engine.at
      /\ engine.at \in Nat /\ now \in Nat
  BY <1>1, RowIsRow DEF Ours, Row, EngineIInv, EngineShape, Engines
<1>3. /\ \A s \in Ours \cup sent : s \in Rows /\ s.at \in Nat /\ s.at <= engine.at
      /\ \A s \in Ours : s.symbol = Row.symbol /\ s.key = Row.key
                          => engine.at - s.at > Cooldown
  <2>1. \A s \in Rows : s.at \in Nat
    BY DEF Rows
  <2>2. QED
    BY <1>1, <1>2, <2>1 DEF EngineIInv, AcceptedIsFree, Ours, EngineShape, Engines
<1>4. OneAlertPerCooldown'
  <2> SUFFICES ASSUME NEW s \in Ours \cup {Row}, NEW t \in Ours \cup {Row} \cup sent,
                      s.symbol = t.symbol, s.key = t.key, s.at <= t.at, s # t
               PROVE  t.at - s.at > Cooldown
    BY <1>1, <1>2 DEF OneAlertPerCooldown, Ours
  <2>1. CASE s = Row
    <3>1. t \in Ours \cup sent /\ t.at = Row.at
      BY <1>2, <1>3, <2>1
    <3>2. QED
      BY <1>2, <1>3, <2>1, <3>1, SameRow
  <2>2. CASE s # Row /\ t = Row
    BY <1>2, <1>3, <2>2
  <2>3. CASE s # Row /\ t # Row
    BY <2>3 DEF EngineIInv, OneAlertPerCooldown, Ours
  <2>4. QED
    BY <2>1, <2>2, <2>3
<1>5. NotAhead' /\ AcceptedIsFree'
  BY <1>1, <1>2 DEF EngineIInv, NotAhead, AcceptedIsFree
<1>6. OpensItsOwn' /\ OpenedOnlyStored' /\ NoneForgotten'
  BY <1>1, <1>2
     DEF EngineIInv, OpensItsOwn, UnderWay, OpenedOnlyStored, NoneForgotten, Ours
<1>7. QED
  BY <1>4, <1>5, <1>6 DEF EngineIInv

LEMMA SendIInv == EngineIInv /\ EngineShape' /\ SendSignal => EngineIInv'
<1> SUFFICES ASSUME EngineIInv, EngineShape', SendSignal PROVE EngineIInv'
  OBVIOUS
<1>1. /\ engine.pc = "sending" /\ engine'.pc = "candidate" /\ engine'.rows = engine.rows
      /\ sent' \subseteq sent \cup {Row}
      /\ \/ /\ ToSet(engine'.toOpen) = ToSet(engine.toOpen) \cup {Row}
            /\ declined' = declined
         \/ engine'.toOpen = engine.toOpen /\ declined' = declined \cup {Row}
      /\ UNCHANGED <<now, signals, opened, missed>>
  <2>1. ToSet(Append(engine.toOpen, Row)) = ToSet(engine.toOpen) \cup {Row}
    BY RowIsRow, AppendAdds DEF SendSignal, EngineIInv, EngineShape, Engines
  <2>2. QED
    BY <2>1 DEF SendSignal, Sent, NextSlot, EngineIInv, EngineShape, Engines, database, outside
<1>2. Row \in engine.rows
  BY <1>1 DEF EngineIInv, OpensItsOwn, UnderWay
<1>3. Ours' = Ours /\ Ours' \cup sent' \subseteq Ours \cup sent
  BY <1>1, <1>2 DEF Ours
<1>4. OneAlertPerCooldown'
  <2>1. \A s \in Ours : \A t \in Ours \cup sent :
           (s.symbol = t.symbol /\ s.key = t.key /\ s.at <= t.at /\ s # t)
              => t.at - s.at > Cooldown
    BY DEF EngineIInv, OneAlertPerCooldown, Ours
  <2>2. QED
    BY <1>3, <2>1 DEF OneAlertPerCooldown, Ours
<1>5. NotAhead' /\ AcceptedIsFree'
  BY <1>1, <1>3 DEF EngineIInv, NotAhead, AcceptedIsFree
<1>6. OpensItsOwn' /\ OpenedOnlyStored' /\ NoneForgotten'
  BY <1>1, <1>2, <1>3
     DEF EngineIInv, OpensItsOwn, UnderWay, OpenedOnlyStored, NoneForgotten, Ours
<1>7. QED
  BY <1>4, <1>5, <1>6 DEF EngineIInv

LEMMA CommitIInv == EngineIInv /\ EngineShape' /\ Commit => EngineIInv'
<1> SUFFICES ASSUME EngineIInv, EngineShape', Commit PROVE EngineIInv'
  OBVIOUS
<1>1. /\ engine.pc = "symbol" /\ engine'.pc = "opening" /\ engine'.rows = {}
      /\ signals' = signals \cup engine.rows /\ engine'.toOpen = engine.toOpen
      /\ UNCHANGED <<now, sent, opened, declined, missed>>
  BY DEF Commit, EngineIInv, EngineShape, Engines, told, outside
<1>2. Ours' = Ours
  BY <1>1 DEF Ours
<1>3. OneAlertPerCooldown'
  BY <1>1 DEF EngineIInv, OneAlertPerCooldown
<1>4. NotAhead' /\ AcceptedIsFree' /\ OpensItsOwn'
  BY <1>1, <1>2 DEF EngineIInv, NotAhead, AcceptedIsFree, OpensItsOwn, UnderWay
<1>5. OpenedOnlyStored' /\ NoneForgotten'
  BY <1>1, <1>2 DEF EngineIInv, OpensItsOwn, OpenedOnlyStored, NoneForgotten, UnderWay, Ours
<1>6. QED
  BY <1>3, <1>4, <1>5 DEF EngineIInv

LEMMA OpenIInv == EngineIInv /\ EngineShape' /\ OpenPaper => EngineIInv'
<1> SUFFICES ASSUME EngineIInv, EngineShape', OpenPaper PROVE EngineIInv'
  OBVIOUS
<1>1. /\ engine.pc = "opening" /\ engine'.pc = "opening" /\ engine.rows = {}
      /\ engine'.rows = engine.rows /\ engine'.toOpen = Tail(engine.toOpen)
      /\ opened' = opened \cup {Head(engine.toOpen)}
      /\ UNCHANGED <<now, signals, sent, declined, missed>>
  BY DEF OpenPaper, EngineIInv, EngineShape, Engines, database, outside
<1>2. ToSet(engine.toOpen) = {Head(engine.toOpen)} \cup ToSet(engine'.toOpen)
  BY <1>1, HeadAndTail DEF OpenPaper, EngineIInv, EngineShape, Engines
<1>3. OneAlertPerCooldown' /\ NotAhead' /\ AcceptedIsFree' /\ OpensItsOwn'
  BY <1>1
     DEF EngineIInv, NotAhead, AcceptedIsFree, OpensItsOwn, UnderWay, Ours, OneAlertPerCooldown
<1>4. OpenedOnlyStored' /\ NoneForgotten'
  BY <1>1, <1>2 DEF EngineIInv, OpenedOnlyStored, NoneForgotten, UnderWay, Ours
<1>5. QED
  BY <1>3, <1>4 DEF EngineIInv

\* Whatever ends an evaluation loses its uncommitted rows, and counts as missed what was
\* committed and not yet offered.
LEMMA EngineEndIInv ==
    ASSUME EngineIInv, EngineShape', engine' = Idle,
           UNCHANGED <<now, signals, opened, declined>>,
           sent' \subseteq sent \cup UnderWay,
           \/ engine.pc # "opening" /\ missed' = missed
           \/ engine.pc = "opening" /\ missed' = missed \cup ToSet(engine.toOpen)
    PROVE  EngineIInv'
<1>1. engine'.pc = "idle" /\ engine'.rows = {} /\ ToSet(engine'.toOpen) = {}
  BY EmptyHasNone DEF Idle
<1>2. UnderWay \subseteq engine.rows
  BY DEF EngineIInv, OpensItsOwn
<1>3. OneAlertPerCooldown' /\ NotAhead' /\ AcceptedIsFree' /\ OpensItsOwn'
  BY <1>1, <1>2
     DEF EngineIInv, NotAhead, AcceptedIsFree, OpensItsOwn, UnderWay, Ours, OneAlertPerCooldown
<1>4. OpenedOnlyStored'
  BY <1>1 DEF EngineIInv, OpenedOnlyStored
<1>5. NoneForgotten'
  <2>1. signals \subseteq opened \cup declined \cup missed'
    BY DEF EngineIInv, NoneForgotten
  <2>2. QED
    BY <1>1, <2>1 DEF NoneForgotten
<1>6. QED
  BY <1>3, <1>4, <1>5 DEF EngineIInv

LEMMA EngineNextIInv == EngineIInv /\ [Next]_vars => EngineIInv'
<1> SUFFICES ASSUME EngineIInv, [Next]_vars PROVE EngineIInv'
  OBVIOUS
<1>1. EngineShape'
  BY EngineShapeNext DEF EngineIInv
<1>2. engine \in Engines
  BY DEF EngineIInv, EngineShape
<1> USE DEF database, told, outside
<1>3. CASE Begin \/ TakeSymbol \/ StoreSnapshot \/ SkipSnapshot
  BY <1>1, <1>2, <1>3, QuietStep
     DEF Begin, TakeSymbol, StoreSnapshot, SkipSnapshot, NextSymbol, GoTo, Engines
<1>4. CASE AskStrategies \/ PassOver \/ LastCandidate
  BY <1>1, <1>2, <1>4, QuietStep
     DEF AskStrategies, PassOver, LastCandidate, NextSymbol, NextSlot, Engines
<1>5. CASE Accept
  <2>1. /\ engine.pc = "candidate" /\ engine'.pc = "adding" /\ engine'.at = now
        /\ engine'.rows = engine.rows /\ engine'.toOpen = engine.toOpen
        /\ engine'.symbol = engine.symbol /\ Key' = Key
        /\ UNCHANGED <<now, signals, sent, opened, declined, missed>>
    BY <1>2, <1>5 DEF Accept, Engines, Key
  <2>2. ASSUME NEW s \in Ours, s.symbol = engine.symbol, s.key = Key
        PROVE  now - s.at > Cooldown
    <3>1. s \in Rows /\ s.at \in Nat /\ now \in Nat /\ Cooldown \in Nat
      BY <1>2, EngineAssumption DEF EngineIInv, EngineShape, Engines, Rows, Ours
    <3>2. ~(s.at >= now - Cooldown)
      BY <1>5, <2>2 DEF Accept, Cooling, Ours
    <3>3. QED
      BY <3>1, <3>2
  <2>3. NotAhead' /\ AcceptedIsFree'
    <3>1. now \in Nat
      BY DEF EngineIInv, EngineShape
    <3>2. QED
      BY <2>1, <2>2, <3>1 DEF EngineIInv, NotAhead, AcceptedIsFree, Ours
  <2>4. QED
    BY <1>1, <2>1, <2>3
       DEF EngineIInv, OpensItsOwn, UnderWay, OneAlertPerCooldown, OpenedOnlyStored,
           NoneForgotten, Ours
<1>6. CASE AddSignal \/ SendSignal \/ Commit \/ OpenPaper
  BY <1>1, <1>6, AddIInv, SendIInv, CommitIInv, OpenIInv
<1>7. CASE Finish \/ AddTimesOut
  <2>1. engine.pc = "opening" => missed = missed \cup ToSet(engine.toOpen)
    BY <1>7, EmptyHasNone DEF Finish, AddTimesOut
  <2>2. QED
    BY <1>1, <1>7, <2>1, EngineEndIInv DEF Finish, AddTimesOut, RollBack
<1>8. CASE Fail \/ Crash
  <2>1. missed' = IF engine.pc = "opening" THEN missed \cup ToSet(engine.toOpen) ELSE missed
    BY <1>8 DEF Fail, Crash, Cut
  <2>2. sent' \subseteq sent \cup UnderWay
    BY <1>8 DEF Fail, Crash, Sent, UnderWay
  <2>3. QED
    BY <1>1, <1>8, <2>1, <2>2, EngineEndIInv DEF Fail, Crash, RollBack
<1>9. CASE Tick
  <2>1. /\ now \in Nat /\ now' = now + 1
        /\ UNCHANGED <<engine, signals, sent, opened, declined, missed>>
    BY <1>9 DEF Tick, EngineIInv, EngineShape
  <2>2. Key' = Key /\ Row' = Row /\ Ours' = Ours
    BY <2>1 DEF Key, Row, Ours
  <2>3. /\ \A s \in Ours \cup sent : s.at \in Nat
        /\ engine.at \in Nat
    BY <1>2 DEF EngineIInv, EngineShape, Ours, Rows, Engines
  <2>4. NotAhead'
    BY <2>1, <2>2, <2>3 DEF EngineIInv, NotAhead
  <2>5. QED
    BY <1>1, <2>1, <2>2, <2>4
       DEF EngineIInv, AcceptedIsFree, OpensItsOwn, UnderWay, OneAlertPerCooldown,
           OpenedOnlyStored, NoneForgotten
<1>10. CASE Switch \/ OthersLock \/ UNCHANGED vars
  <2>1. UNCHANGED <<now, engine, signals, sent, opened, declined, missed>>
    BY <1>10 DEF Switch, OthersLock, vars
  <2>2. QED
    BY <1>1, <2>1
       DEF EngineIInv, NotAhead, AcceptedIsFree, OpensItsOwn, UnderWay, OneAlertPerCooldown,
           OpenedOnlyStored, NoneForgotten, Ours, Key, Row
<1>11. QED
  BY <1>3, <1>4, <1>5, <1>6, <1>7, <1>8, <1>9, <1>10 DEF Next, Proceed

LEMMA EngineInvariance == Spec => []EngineIInv
BY EngineInitIInv, EngineNextIInv, PTL DEF Spec

\* Over all evaluations, pauses, rollbacks and restarts: once a signal is stored, no later
\* one of its symbol and strategy is stored or announced within the cooldown.
THEOREM OneAlert == Spec => []OneAlertPerCooldown
<1>1. EngineIInv => OneAlertPerCooldown
  BY DEF EngineIInv
<1>2. QED
  BY EngineInvariance, <1>1, PTL

\* The paper manager is never given a signal that a rollback could take back.
THEOREM TradesAreOfStoredSignals == Spec => []OpenedOnlyStored
<1>1. EngineIInv => OpenedOnlyStored
  BY DEF EngineIInv
<1>2. QED
  BY EngineInvariance, <1>1, PTL

\* Every stored signal has reached the paper manager, is about to, was met while paper
\* trading was off, or belongs to what an error or a crash cut between the commit and the
\* offers: neither a busy timeout of the write lock nor a cut anywhere else loses one.
THEOREM StoredIsOffered == Spec => []OfferedUnlessCut
<1>1. EngineIInv => OfferedUnlessCut
  BY DEF EngineIInv, NoneForgotten, OfferedUnlessCut
<1>2. QED
  BY EngineInvariance, <1>1, PTL

-----------------------------------------------------------------------------
(* --------------------------- outcomes of signals ---------------------------- *)
(* No outcome claims more than the market did within its horizon.               *)

(* Greatest and least members *)

LEMMA LeastNumber ==
    ASSUME NEW B \in SUBSET Nat, B # {}
    PROVE  \E n \in B : \A m \in B : n <= m
<1> DEFINE R == OpToRel(<, Nat)
<1>1. IsWellFoundedOn(R, Nat)
  BY NatLessThanWellFounded
<1>2. \A m, n \in Nat : m < n => <<m, n>> \in R
  BY DEF OpToRel
<1> HIDE DEF R
<1>3. PICK n \in B : \A m \in B : ~(<<m, n>> \in R)
  BY <1>1, WFMin
<1>4. \A m \in B : ~(m < n)
  BY <1>2, <1>3
<1>5. QED
  BY <1>3, <1>4

HasGreatest(S) == \E m \in S : \A x \in S : x <= m

LEMMA GreatestExists ==
    ASSUME NEW S \in SUBSET Int, S # {}, IsFiniteSet(S)
    PROVE  HasGreatest(S)
<1> DEFINE Bad == {n \in Nat : \E T \in SUBSET S :
                       T # {} /\ Cardinality(T) = n /\ ~HasGreatest(T)}
<1>1. Bad = {}
  <2>1. SUFFICES ASSUME Bad # {} PROVE FALSE
    OBVIOUS
  <2>2. PICK n \in Bad : \A m \in Bad : n <= m
    BY <2>1, LeastNumber
  <2>3. PICK T \in SUBSET S : T # {} /\ Cardinality(T) = n /\ ~HasGreatest(T)
    BY <2>2
  <2>4. PICK x \in T : TRUE
    BY <2>3
  <2>5. IsFiniteSet(T)
    BY FS_Subset
  <2>6. Cardinality(T \ {x}) = n - 1 /\ IsFiniteSet(T \ {x}) /\ Cardinality(T \ {x}) \in Nat
    BY <2>3, <2>4, <2>5, FS_RemoveElement, FS_CardinalityType
  <2>7. n \in Nat /\ n - 1 \notin Bad
    BY <2>2, <2>6
  <2>8. T \ {x} = {} \/ HasGreatest(T \ {x})
    BY <2>6, <2>7
  <2>9. CASE T \ {x} = {}
    <3>1. \A y \in T : y = x
      BY <2>9
    <3>2. x \in Int
      BY <2>4
    <3>3. QED
      BY <2>3, <2>4, <3>1, <3>2 DEF HasGreatest
  <2>10. CASE HasGreatest(T \ {x})
    <3>1. PICK m \in T \ {x} : \A y \in T \ {x} : y <= m
      BY <2>10 DEF HasGreatest
    <3>2. m \in Int /\ x \in Int /\ \A y \in T : y \in Int
      BY <2>4, <3>1
    <3>3. CASE x <= m
      <4>1. \A y \in T : y <= m
        BY <3>1, <3>3
      <4>2. QED
        BY <2>3, <3>1, <4>1 DEF HasGreatest
    <3>4. CASE ~(x <= m)
      <4>1. \A y \in T : y <= x
        BY <3>1, <3>2, <3>4
      <4>2. QED
        BY <2>3, <2>4, <4>1 DEF HasGreatest
    <3>5. QED
      BY <3>3, <3>4
  <2>11. QED
    BY <2>8, <2>9, <2>10
<1>2. Cardinality(S) \in Nat /\ Cardinality(S) \notin Bad
  BY <1>1, FS_CardinalityType
<1>3. QED
  BY <1>2

LEMMA HighestIs ==
    ASSUME NEW S \in SUBSET Int, S # {}, IsFiniteSet(S)
    PROVE  Highest(S) \in S /\ \A x \in S : x <= Highest(S)
<1>1. \E m \in S : \A x \in S : x <= m
  BY GreatestExists DEF HasGreatest
<1>2. QED
  BY <1>1 DEF Highest

LEMMA LowestIs ==
    ASSUME NEW S \in SUBSET Int, S # {}, IsFiniteSet(S)
    PROVE  Lowest(S) \in S /\ \A x \in S : Lowest(S) <= x
<1> DEFINE N == {-x : x \in S}
           f == [x \in S |-> -x]
<1>1. f \in Surjection(S, N)
  BY DEF Surjection
<1>2. IsFiniteSet(N) /\ N \in SUBSET Int /\ N # {}
  <2>1. IsFiniteSet(N)
    BY <1>1, FS_Surjection
  <2>2. \A x \in S : -x \in Int
    OBVIOUS
  <2>3. QED
    BY <2>1, <2>2
<1>3. PICK m \in N : \A x \in N : x <= m
  BY <1>2, GreatestExists DEF HasGreatest
<1>4. PICK y \in S : m = -y
  BY <1>3
<1>5. \A x \in S : -x <= -y
  BY <1>3, <1>4
<1>6. \A x \in S : y <= x
  BY <1>5
<1>7. QED
  BY <1>4, <1>6 DEF Lowest

LEMMA HighestOfTwo ==
    ASSUME NEW d \in Int
    PROVE  Highest({0, d}) = IF d > 0 THEN d ELSE 0
<1>1. \E m \in {0, d} : \A x \in {0, d} : x <= m
  OBVIOUS
<1>2. Highest({0, d}) \in {0, d} /\ \A x \in {0, d} : x <= Highest({0, d})
  BY <1>1 DEF Highest
<1>3. QED
  BY <1>2

\* Moments are finitely many.
LEMMA MomentsFinite ==
    ASSUME NEW n \in Nat, NEW S \in SUBSET (0..n)
    PROVE  IsFiniteSet(S) /\ S \in SUBSET Int /\ S \in SUBSET Nat
<1>1. IsFiniteSet(0..n)
  BY FS_Interval
<1>2. IsFiniteSet(S)
  BY <1>1, FS_Subset
<1>3. \A x \in 0..n : x \in Nat /\ x \in Int
  OBVIOUS
<1>4. QED
  BY <1>2, <1>3

LEMMA LatestMoment ==
    ASSUME NEW n \in Nat, NEW S \in SUBSET (0..n), S # {}
    PROVE  Highest(S) \in S /\ \A x \in S : x <= Highest(S)
BY MomentsFinite, HighestIs

\* The image of finitely many moments is finite.
LEMMA ImageFinite ==
    ASSUME NEW S, IsFiniteSet(S), NEW f
    PROVE  IsFiniteSet({f[m] : m \in S})
<1> DEFINE g == [m \in S |-> f[m]]
           T == {f[m] : m \in S}
<1>1. g \in Surjection(S, T)
  BY DEF Surjection
<1>2. QED
  BY <1>1, FS_Surjection
-----------------------------------------------------------------------------
(* Excursions *)

\* Of fewer prices, none of them new but the entry price, the excursions are no
\* larger.
LEMMA ExcursionsWithin ==
    ASSUME NEW s, s.entry \in Int,
           NEW all \in SUBSET Int, all # {}, IsFiniteSet(all),
           NEW seen \in SUBSET (all \cup {s.entry}), seen # {}
    PROVE  /\ Excursions(s, seen).mfe \in Nat /\ Excursions(s, seen).mae \in Nat
           /\ Excursions(s, seen).mfe <= Excursions(s, all).mfe
           /\ Excursions(s, seen).mae <= Excursions(s, all).mae
<1> DEFINE hs == Highest(seen)  ls == Lowest(seen)
           ha == Highest(all)   la == Lowest(all)
           e == s.entry
<1>1. IsFiniteSet(all \cup {s.entry})
  BY FS_AddElement
<1>2. IsFiniteSet(seen) /\ seen \in SUBSET Int
  BY <1>1, FS_Subset
<1>3. hs \in seen /\ ls \in seen /\ hs \in Int /\ ls \in Int
  BY <1>2, HighestIs, LowestIs
<1>4. /\ ha \in Int /\ la \in Int
      /\ \A x \in all : x <= ha /\ la <= x
  BY HighestIs, LowestIs
<1>5. (hs = e \/ hs <= ha) /\ (ls = e \/ la <= ls)
  BY <1>3, <1>4
<1> HIDE DEF hs, ls, ha, la
<1>6. /\ Highest({0, hs - e}) = IF hs - e > 0 THEN hs - e ELSE 0
      /\ Highest({0, e - ls}) = IF e - ls > 0 THEN e - ls ELSE 0
      /\ Highest({0, ha - e}) = IF ha - e > 0 THEN ha - e ELSE 0
      /\ Highest({0, e - la}) = IF e - la > 0 THEN e - la ELSE 0
  <2>1. hs - e \in Int /\ e - ls \in Int /\ ha - e \in Int /\ e - la \in Int
    BY <1>3, <1>4
  <2>2. QED
    BY <2>1, HighestOfTwo
<1>7. /\ Highest({0, hs - e}) \in Nat /\ Highest({0, e - ls}) \in Nat
      /\ Highest({0, hs - e}) <= Highest({0, ha - e})
      /\ Highest({0, e - ls}) <= Highest({0, e - la})
  BY <1>3, <1>4, <1>5, <1>6
<1>8. /\ Excursions(s, seen) = IF s.direction = "LONG"
             THEN [mfe |-> Highest({0, hs - e}), mae |-> Highest({0, e - ls})]
             ELSE [mfe |-> Highest({0, e - ls}), mae |-> Highest({0, hs - e})]
      /\ Excursions(s, all) = IF s.direction = "LONG"
             THEN [mfe |-> Highest({0, ha - e}), mae |-> Highest({0, e - la})]
             ELSE [mfe |-> Highest({0, e - la}), mae |-> Highest({0, ha - e})]
  BY DEF Excursions, hs, ls, ha, la
<1>9. QED
  BY <1>7, <1>8
-----------------------------------------------------------------------------
(* The inductive invariant *)

SignalRows == [at : 0..Now, entry : Prices, direction : Directions]

OutcomesShape ==
    /\ Now \in 0..LastMoment
    /\ path \in [0..Now -> Prices]
    /\ memory \subseteq 0..Now
    /\ snapshots \subseteq [at : 0..Now, price : Prices]
    /\ signalRows \subseteq SignalRows
    /\ tracker \in [busy : BOOLEAN, now : 0..Now, todo : SUBSET (signalRows \X Horizons),
                    rows : SUBSET OutcomeRows]
    /\ outcomes \subseteq OutcomeRows

\* What the tracker has taken up was due by then.
TodoIsDue == \A w \in tracker.todo : w[1].at + w[2] <= Now

\* If memory holds nothing from a signal on, its last price is the entry price.
EntryIsLatest ==
    memory # {} => \A s \in signalRows : Highest(memory) >= s.at \/ LatestPrice = s.entry

\* A snapshot of this moment is what memory ends with.
SnapshotIsLatest ==
    memory # {} => \A x \in snapshots : x.at = Now => x.price = LatestPrice

\* A snapshot taken since a signal shows its entry price or a later one.
SnapshotFits ==
    \A x \in snapshots, s \in signalRows : s.at <= x.at =>
        x.price = s.entry \/ \E m \in s.at..x.at : x.price = path[m]

Between(from, to) == {path[m] : m \in from..to}

\* The truth of one outcome: OutcomeFromWindow.
Fits(o) ==
    LET all == Between(o.signal.at, o.signal.at + o.horizon)
        truth == Excursions(o.signal, all)
    IN  /\ o.signal.at + o.horizon <= Now
        /\ o.mfe <= truth.mfe /\ o.mae <= truth.mae
        /\ o.after \in all \cup {o.signal.entry}

AllFit == \A o \in outcomes \cup tracker.rows : Fits(o)

SameKey(o, q) == o.signal = q.signal /\ o.horizon = q.horizon

\* A signal has one outcome for a horizon, in the table and in the tracker's hands.
OneEach ==
    /\ \A o, q \in outcomes : SameKey(o, q) => o = q
    /\ \A o, q \in tracker.rows : SameKey(o, q) => o = q
    /\ \A o \in tracker.rows : <<o.signal, o.horizon>> \notin tracker.todo

OutcomesIInv == /\ OutcomesShape /\ TodoIsDue
        /\ EntryIsLatest /\ SnapshotIsLatest /\ SnapshotFits
        /\ AllFit /\ OneEach

-----------------------------------------------------------------------------
(* The clock *)

LEMMA NowIs ==
    ASSUME NEW n \in Nat
    PROVE  Cardinality(0..n) - 1 = n
BY FS_Interval

LEMMA OutcomesInitIInv == ASSUME OutcomesAssumption PROVE OutcomesInit => OutcomesIInv
<1> SUFFICES ASSUME OutcomesInit PROVE OutcomesIInv
  OBVIOUS
<1>1. DOMAIN path = {0} /\ {0} = 0..0
  BY DEF OutcomesInit
<1>2. Now = 0
  BY <1>1, NowIs DEF Now
<1>3. OutcomesShape
  BY <1>1, <1>2 DEF OutcomesInit, OutcomesShape, Asleep, OutcomesAssumption
<1>4. QED
  BY <1>3
     DEF OutcomesInit, OutcomesIInv, Asleep, TodoIsDue, EntryIsLatest, SnapshotIsLatest, SnapshotFits,
         AllFit, OneEach

\* The price moves by one moment, and what has been stays.
LEMMA PathGrows ==
    ASSUME OutcomesAssumption, OutcomesShape, PriceMoves
    PROVE  /\ Now \in Nat /\ Now' = Now + 1
           /\ Now' \in 0..LastMoment
           /\ path' \in [0..(Now + 1) -> Prices]
           /\ \A m \in 0..Now : path'[m] = path[m]
<1>1. PICK p \in Prices : path' = [m \in 0..(Now + 1) |-> IF m <= Now THEN path[m] ELSE p]
  BY DEF PriceMoves
<1>2. Now \in Nat /\ Now < LastMoment /\ LastMoment \in Nat
  BY DEF OutcomesShape, PriceMoves, OutcomesAssumption
<1>3. DOMAIN path' = 0..(Now + 1)
  BY <1>1
<1>4. Now' = Now + 1
  <2>1. Now + 1 \in Nat
    BY <1>2
  <2>2. Cardinality(DOMAIN path') - 1 = Now + 1
    BY <1>3, <2>1, NowIs
  <2>3. QED
    BY <2>2 DEF Now
<1>5. \A m \in 0..(Now + 1) : (m <= Now => m \in 0..Now)
  BY <1>2
<1>6. path' \in [0..(Now + 1) -> Prices]
  BY <1>1, <1>5 DEF OutcomesShape
<1>7. \A m \in 0..Now : m \in 0..(Now + 1) /\ m <= Now
  BY <1>2
<1>8. QED
  BY <1>1, <1>2, <1>4, <1>6, <1>7

\* What is said of the past is true also later.
LEMMA PastStays ==
    ASSUME OutcomesAssumption, OutcomesShape, Now \in Nat, Now' = Now \/ Now' = Now + 1,
           \A m \in 0..Now : path'[m] = path[m]
    PROVE  /\ \A o \in OutcomeRows : Fits(o) => Fits(o)'
           /\ \A a, b \in Int : (0 <= a /\ b <= Now) =>
                  /\ Between(a, b)' = Between(a, b)
                  /\ \A m \in a..b : path'[m] = path[m]
<1>1. ASSUME NEW a \in Int, NEW b \in Int, 0 <= a, b <= Now
      PROVE  Between(a, b)' = Between(a, b) /\ \A m \in a..b : path'[m] = path[m]
  <2>1. \A m \in a..b : m \in 0..Now
    BY <1>1
  <2>2. \A m \in a..b : path'[m] = path[m]
    BY <2>1
  <2>3. QED
    BY <2>2 DEF Between
<1>2. ASSUME NEW o \in OutcomeRows, Fits(o) PROVE Fits(o)'
  <2>1. o.signal.at \in 0..LastMoment /\ LastMoment \in Nat /\ o.horizon \in Nat
    BY DEF OutcomeRows, Moments, OutcomesAssumption
  <2> DEFINE from == o.signal.at
             to == o.signal.at + o.horizon
  <2>2. from \in Int /\ to \in Int /\ 0 <= from
    BY <2>1
  <2>3. to <= Now
    BY <1>2 DEF Fits
  <2>4. Now <= Now'
    OBVIOUS
  <2> HIDE DEF from, to
  <2>5. Between(from, to)' = Between(from, to) /\ to <= Now'
    BY <1>1, <2>2, <2>3, <2>4
  <2>6. QED
    BY <1>2, <2>5 DEF Fits, from, to
<1>3. QED
  BY <1>1, <1>2
-----------------------------------------------------------------------------
(* One outcome *)

\* Everything the tracker may look at is the entry price or a price between the
\* signal and the end of its horizon.
LEMMA PricesAreWithin ==
    ASSUME OutcomesAssumption, OutcomesShape, SnapshotFits,
           NEW s \in signalRows, NEW h \in Horizons, s.at + h <= Now
    PROVE  /\ PricesIn(s, h) \subseteq Between(s.at, s.at + h) \cup {s.entry}
           /\ Heard(s, h) \subseteq (s.at..(s.at + h)) \cap (0..Now)
           /\ \A x \in Kept(s, h) : x.price \in Between(s.at, s.at + h) \cup {s.entry}
<1>1. s.at \in 0..Now /\ h \in Nat /\ Now \in Nat
  BY DEF OutcomesShape, SignalRows, OutcomesAssumption
<1>2. Heard(s, h) \subseteq (s.at..(s.at + h)) \cap (0..Now)
  BY <1>1 DEF Heard, OutcomesShape
<1>3. ASSUME NEW x \in Kept(s, h)
      PROVE  x.price \in Between(s.at, s.at + h) \cup {s.entry}
  <2>1. x \in snapshots /\ s.at <= x.at /\ x.at <= s.at + h /\ x.at \in 0..Now
    BY DEF Kept, OutcomesShape
  <2>2. CASE x.price = s.entry
    BY <2>2
  <2>3. CASE \E m \in s.at..x.at : x.price = path[m]
    <3>1. PICK m \in s.at..x.at : x.price = path[m]
      BY <2>3
    <3>2. m \in s.at..(s.at + h)
      BY <1>1, <2>1, <3>1
    <3>3. QED
      BY <3>1, <3>2 DEF Between
  <2>4. QED
    BY <2>1, <2>2, <2>3 DEF SnapshotFits
<1>4. PricesIn(s, h) \subseteq Between(s.at, s.at + h) \cup {s.entry}
  BY <1>2, <1>3 DEF PricesIn, Between
<1>5. QED
  BY <1>2, <1>3, <1>4

LEMMA WindowIsFinite ==
    ASSUME OutcomesAssumption, OutcomesShape, NEW from \in 0..Now, NEW to \in from..Now
    PROVE  /\ Between(from, to) \in SUBSET Prices
           /\ Between(from, to) \in SUBSET Int
           /\ Between(from, to) # {}
           /\ IsFiniteSet(Between(from, to))
<1>1. Now \in Nat /\ from \in Int /\ to \in Int /\ from <= to
  BY DEF OutcomesShape, OutcomesAssumption
<1>2. \A m \in from..to : m \in 0..Now
  BY <1>1
<1>3. Between(from, to) \in SUBSET Prices /\ Prices \subseteq Int
  BY <1>2 DEF Between, OutcomesShape, OutcomesAssumption
<1>4. from \in from..to
  BY <1>1
<1>5. IsFiniteSet(from..to)
  BY <1>1, FS_Interval
<1>6. IsFiniteSet(Between(from, to))
  BY <1>5, ImageFinite DEF Between
<1>7. QED
  BY <1>3, <1>4, <1>6 DEF Between

LEMMA OutcomeFits ==
    ASSUME OutcomesAssumption, OutcomesShape, SnapshotFits,
           NEW s \in signalRows, NEW h \in Horizons, s.at + h <= Now, PricesIn(s, h) # {}
    PROVE  /\ Outcome(s, h) \in OutcomeRows
           /\ Outcome(s, h).signal = s /\ Outcome(s, h).horizon = h
           /\ Fits(Outcome(s, h))
<1> DEFINE all == Between(s.at, s.at + h)
           seen == PricesIn(s, h)
           o == Outcome(s, h)
<1>1. /\ s.at \in 0..Now /\ h \in Nat /\ Now \in Nat /\ Now <= LastMoment /\ LastMoment \in Nat
      /\ s.entry \in Prices /\ s.entry \in Int
  <2>1. s \in [at : 0..Now, entry : Prices, direction : Directions]
    BY DEF OutcomesShape, SignalRows
  <2>2. Prices \subseteq Int /\ Horizons \subseteq Nat /\ LastMoment \in Nat
    BY DEF OutcomesAssumption
  <2>3. Now \in 0..LastMoment
    BY DEF OutcomesShape
  <2>4. s.at \in 0..Now /\ s.entry \in Prices
    BY <2>1
  <2>5. Now \in Nat /\ Now <= LastMoment
    BY <2>2, <2>3
  <2>6. QED
    BY <2>2, <2>4, <2>5
<1>2. s.at + h \in s.at..Now
  BY <1>1
<1>3. all \in SUBSET Prices /\ all \in SUBSET Int /\ all # {} /\ IsFiniteSet(all)
  BY <1>1, <1>2, WindowIsFinite
<1>4. seen \in SUBSET (all \cup {s.entry}) /\ seen # {}
  BY PricesAreWithin
<1>5. /\ Excursions(s, seen).mfe \in Nat /\ Excursions(s, seen).mae \in Nat
      /\ Excursions(s, seen).mfe <= Excursions(s, all).mfe
      /\ Excursions(s, seen).mae <= Excursions(s, all).mae
  <2> HIDE DEF all, seen
  <2>1. QED
    BY <1>1, <1>3, <1>4, ExcursionsWithin
<1>6. PriceAfter(s, h) \in all \cup {s.entry}
  <2>1. CASE Heard(s, h) # {}
    <3>1. Heard(s, h) \in SUBSET (0..Now)
      BY PricesAreWithin
    <3>2. Highest(Heard(s, h)) \in Heard(s, h)
      BY <1>1, <2>1, <3>1, LatestMoment
    <3>3. Highest(Heard(s, h)) \in s.at..(s.at + h)
      BY <3>2, PricesAreWithin
    <3>4. QED
      BY <2>1, <3>3 DEF PriceAfter, Between
  <2>2. CASE Heard(s, h) = {}
    <3> DEFINE ats == {x.at : x \in Kept(s, h)}
               last == Highest(ats)
    <3>1. ats # {}
      BY <2>2 DEF PricesIn
    <3>2. ats \in SUBSET (0..Now)
      BY DEF Kept, OutcomesShape
    <3>3. last \in ats
      <4> HIDE DEF ats
      <4>1. QED
        BY <1>1, <3>1, <3>2, LatestMoment
    <3>4. PICK x \in Kept(s, h) : x.at = last
      BY <3>3
    <3> DEFINE p == PriceAfter(s, h)
    <3>5. p = CHOOSE q \in Prices : [at |-> last, price |-> q] \in snapshots
      BY <2>2 DEF PriceAfter
    <3>6. x.price \in Prices /\ [at |-> last, price |-> x.price] \in snapshots
      <4>1. x \in snapshots /\ x \in [at : 0..Now, price : Prices]
        BY DEF Kept, OutcomesShape
      <4>2. x = [at |-> x.at, price |-> x.price]
        BY <4>1
      <4>3. QED
        BY <3>4, <4>1, <4>2
    <3> HIDE DEF p, last
    <3>7. p \in Prices /\ [at |-> last, price |-> p] \in snapshots
      BY <3>5, <3>6
    <3>8. [at |-> last, price |-> p] \in Kept(s, h)
      BY <3>4, <3>7 DEF Kept
    <3>9. p \in all \cup {s.entry}
      BY <3>8, PricesAreWithin
    <3>10. QED
      BY <3>9 DEF p
  <2>3. QED
    BY <2>1, <2>2
<1>7. o = [signal |-> s, horizon |-> h, after |-> PriceAfter(s, h),
           mfe |-> Excursions(s, seen).mfe, mae |-> Excursions(s, seen).mae]
  BY DEF Outcome
<1>8. s \in [at : Moments, entry : Prices, direction : Directions]
  <2>1. s \in SignalRows
    BY DEF OutcomesShape
  <2>2. \A m \in 0..Now : m \in Moments
    BY <1>1 DEF Moments
  <2>3. QED
    BY <2>1, <2>2 DEF SignalRows
<1>9. PriceAfter(s, h) \in Prices
  BY <1>1, <1>3, <1>6
<1> HIDE DEF seen, o
<1>10. o \in OutcomeRows
  BY <1>5, <1>7, <1>8, <1>9 DEF OutcomeRows
<1>11. Fits(o)
  BY <1>5, <1>6, <1>7 DEF Fits
<1>12. QED
  BY <1>7, <1>10, <1>11 DEF o
-----------------------------------------------------------------------------
(* The steps *)

\* The clock moves, and memory gets the new price, is seeded up to it, or stays.
LEMMA ClockIInv ==
    ASSUME OutcomesAssumption, OutcomesIInv, PriceMoves,
           UNCHANGED <<snapshots, signalRows, outcomes>>,
           tracker' = tracker \/ tracker' = Asleep,
           \/ memory' = memory
           \/ memory' \subseteq 0..(Now + 1) /\ Now + 1 \in memory'
    PROVE  OutcomesIInv'
<1>1. /\ Now \in Nat /\ Now' = Now + 1 /\ Now' \in 0..LastMoment
      /\ path' \in [0..(Now + 1) -> Prices]
      /\ \A m \in 0..Now : path'[m] = path[m]
  BY PathGrows DEF OutcomesIInv
<1>2. \A m \in 0..Now : m \in 0..(Now + 1)
  BY <1>1
<1>3. OutcomesShape'
  <2>1. memory' \subseteq 0..Now'
    BY <1>1, <1>2 DEF OutcomesIInv, OutcomesShape
  <2>2. snapshots' \subseteq [at : 0..Now', price : Prices]
    BY <1>1, <1>2 DEF OutcomesIInv, OutcomesShape
  <2>3. signalRows' \subseteq SignalRows'
    BY <1>1, <1>2 DEF OutcomesIInv, OutcomesShape, SignalRows
  <2>4. tracker' \in [busy : BOOLEAN, now : 0..Now', todo : SUBSET (signalRows' \X Horizons),
                      rows : SUBSET OutcomeRows]
    <3>1. CASE tracker' = tracker
      <4>1. tracker \in [busy : BOOLEAN, now : 0..Now, todo : SUBSET (signalRows \X Horizons),
                         rows : SUBSET OutcomeRows]
        BY DEF OutcomesIInv, OutcomesShape
      <4>2. QED
        BY <1>1, <1>2, <3>1, <4>1
    <3>2. CASE tracker' = Asleep
      <4>1. 0 \in 0..Now'
        BY <1>1
      <4>2. QED
        BY <3>2, <4>1 DEF Asleep
    <3>3. QED
      BY <3>1, <3>2
  <2>5. QED
    BY <1>1, <2>1, <2>2, <2>3, <2>4 DEF OutcomesIInv, OutcomesShape
<1>4. TodoIsDue'
  <2>1. ASSUME NEW w \in tracker.todo PROVE w[1].at + w[2] <= Now + 1
    <3>1. w[1].at \in 0..Now /\ w[2] \in Nat /\ w[1].at + w[2] <= Now
      BY DEF OutcomesIInv, OutcomesShape, SignalRows, TodoIsDue, OutcomesAssumption
    <3>2. QED
      BY <1>1, <3>1
  <2>2. QED
    BY <1>1, <2>1 DEF TodoIsDue, Asleep
<1>5. \A m \in 0..Now : m \in Int
  BY <1>1
<1>6. EntryIsLatest'
  <2>1. CASE memory' = memory
    <3>1. memory # {} => Highest(memory) \in 0..Now
      BY <1>1, LatestMoment DEF OutcomesIInv, OutcomesShape
    <3>2. memory # {} => LatestPrice' = LatestPrice
      BY <1>1, <2>1, <3>1 DEF LatestPrice
    <3>3. QED
      BY <2>1, <3>2 DEF OutcomesIInv, EntryIsLatest
  <2>2. CASE memory' \subseteq 0..(Now + 1) /\ Now + 1 \in memory'
    <3>1. Now + 1 \in Nat
      BY <1>1
    <3>2. Highest(memory') \in memory' /\ Now + 1 <= Highest(memory')
      BY <2>2, <3>1, LatestMoment
    <3>3. \A s \in signalRows : s.at \in 0..Now
      BY DEF OutcomesIInv, OutcomesShape, SignalRows
    <3>4. Highest(memory') \in 0..(Now + 1)
      BY <2>2, <3>2
    <3>5. \A s \in signalRows : Highest(memory') >= s.at
      BY <1>1, <3>2, <3>3, <3>4
    <3>6. QED
      BY <3>5 DEF EntryIsLatest
  <2>3. QED
    BY <2>1, <2>2
<1>7. SnapshotIsLatest'
  <2>1. \A x \in snapshots : x.at \in 0..Now
    BY DEF OutcomesIInv, OutcomesShape
  <2>2. \A x \in snapshots : x.at # Now + 1
    BY <1>1, <2>1
  <2>3. QED
    BY <1>1, <2>2 DEF SnapshotIsLatest
<1>8. SnapshotFits'
  <2>1. ASSUME NEW x \in snapshots, NEW s \in signalRows, s.at <= x.at
        PROVE  x.price = s.entry \/ \E m \in s.at..x.at : x.price = path'[m]
    <3>1. x.at \in 0..Now /\ s.at \in 0..Now
      BY DEF OutcomesIInv, OutcomesShape, SignalRows
    <3>2. \A m \in s.at..x.at : m \in 0..Now
      BY <1>1, <3>1
    <3>3. \A m \in s.at..x.at : path'[m] = path[m]
      BY <1>1, <3>2
    <3>4. QED
      BY <2>1, <3>3 DEF OutcomesIInv, SnapshotFits
  <2>2. QED
    BY <2>1 DEF SnapshotFits
<1>9. AllFit' /\ OneEach'
  <2>1. \A o \in OutcomeRows : Fits(o) => Fits(o)'
    BY <1>1, PastStays DEF OutcomesIInv
  <2>2. outcomes \cup tracker.rows \subseteq OutcomeRows
    BY DEF OutcomesIInv, OutcomesShape
  <2>3. outcomes' = outcomes
        /\ (tracker' = tracker \/ (tracker'.rows = {} /\ tracker'.todo = {}))
    BY DEF Asleep
  <2>4. AllFit'
    BY <2>1, <2>2, <2>3 DEF OutcomesIInv, AllFit
  <2>5. OneEach'
    BY <2>3 DEF OutcomesIInv, OneEach, SameKey
  <2>6. QED
    BY <2>4, <2>5
<1>10. QED
  BY <1>3, <1>4, <1>6, <1>7, <1>8, <1>9 DEF OutcomesIInv

\* While the clock stands still, what was said of the past stays said.
LEMMA StandingStill ==
    ASSUME OutcomesAssumption, OutcomesShape, UNCHANGED path
    PROVE  /\ Now' = Now /\ Now \in Nat
           /\ SignalRows' = SignalRows
           /\ \A o \in OutcomeRows : Fits(o) => Fits(o)'
<1>1. Now \in Nat
  BY DEF OutcomesShape, OutcomesAssumption
<1>2. QED
  BY <1>1 DEF Now, SignalRows, Fits, Between

LEMMA SnapshotIInv ==
    ASSUME OutcomesAssumption, OutcomesIInv, Snapshot
    PROVE  OutcomesIInv'
<1>1. /\ Now' = Now /\ Now \in Nat /\ SignalRows' = SignalRows
      /\ \A o \in OutcomeRows : Fits(o) => Fits(o)'
  BY StandingStill DEF OutcomesIInv, Snapshot
<1> DEFINE x == [at |-> Now, price |-> LatestPrice]
<1>2. /\ memory # {} /\ snapshots' = snapshots \cup {x}
      /\ UNCHANGED <<path, memory, signalRows, tracker, outcomes>>
  BY DEF Snapshot
<1>3. Highest(memory) \in 0..Now
  BY <1>1, <1>2, LatestMoment DEF OutcomesIInv, OutcomesShape
<1>4. LatestPrice \in Prices /\ LatestPrice' = LatestPrice
  BY <1>2, <1>3 DEF LatestPrice, OutcomesIInv, OutcomesShape
<1>5. x \in [at : 0..Now, price : Prices]
  BY <1>1, <1>4
<1> HIDE DEF x
<1>6. OutcomesShape'
  BY <1>1, <1>2, <1>5 DEF OutcomesIInv, OutcomesShape
<1>7. TodoIsDue' /\ EntryIsLatest'
  BY <1>1, <1>2, <1>4 DEF OutcomesIInv, TodoIsDue, EntryIsLatest
<1>8. SnapshotIsLatest'
  BY <1>1, <1>2, <1>4 DEF OutcomesIInv, SnapshotIsLatest, x
<1>9. SnapshotFits'
  <2>1. ASSUME NEW s \in signalRows
        PROVE  LatestPrice = s.entry \/ \E m \in s.at..Now : LatestPrice = path[m]
    <3>1. CASE Highest(memory) >= s.at
      <4>1. s.at \in 0..Now
        BY DEF OutcomesIInv, OutcomesShape, SignalRows
      <4>2. Highest(memory) \in s.at..Now
        BY <1>1, <1>3, <3>1, <4>1
      <4>3. QED
        BY <4>2 DEF LatestPrice
    <3>2. CASE LatestPrice = s.entry
      BY <3>2
    <3>3. QED
      BY <1>2, <3>1, <3>2 DEF OutcomesIInv, EntryIsLatest
  <2>2. x.at = Now /\ x.price = LatestPrice
    BY DEF x
  <2>3. QED
    BY <1>2, <2>1, <2>2 DEF OutcomesIInv, SnapshotFits
<1>10. AllFit' /\ OneEach'
  BY <1>1, <1>2 DEF OutcomesIInv, OutcomesShape, AllFit, OneEach
<1>11. QED
  BY <1>6, <1>7, <1>8, <1>9, <1>10 DEF OutcomesIInv

LEMMA NewSignalIInv ==
    ASSUME OutcomesAssumption, OutcomesIInv, NewSignal
    PROVE  OutcomesIInv'
<1>1. /\ Now' = Now /\ Now \in Nat /\ SignalRows' = SignalRows
      /\ \A o \in OutcomeRows : Fits(o) => Fits(o)'
  BY StandingStill DEF OutcomesIInv, NewSignal
<1>2. PICK d \in Directions :
        signalRows' = signalRows \cup {[at |-> Now, entry |-> LatestPrice, direction |-> d]}
  BY DEF NewSignal
<1> DEFINE s == [at |-> Now, entry |-> LatestPrice, direction |-> d]
<1>3. /\ memory # {} /\ signalRows' = signalRows \cup {s}
      /\ UNCHANGED <<path, memory, snapshots, tracker, outcomes>>
  BY <1>2 DEF NewSignal
<1>4. Highest(memory) \in 0..Now
  BY <1>1, <1>3, LatestMoment DEF OutcomesIInv, OutcomesShape
<1>5. LatestPrice \in Prices /\ LatestPrice' = LatestPrice
  BY <1>3, <1>4 DEF LatestPrice, OutcomesIInv, OutcomesShape
<1>6. s \in SignalRows /\ s.at = Now /\ s.entry = LatestPrice
  BY <1>1, <1>5 DEF SignalRows
<1> HIDE DEF s
<1>7. OutcomesShape'
  <2>1. tracker' \in [busy : BOOLEAN, now : 0..Now, todo : SUBSET (signalRows' \X Horizons),
                      rows : SUBSET OutcomeRows]
    BY <1>3 DEF OutcomesIInv, OutcomesShape
  <2>2. QED
    BY <1>1, <1>3, <1>6, <2>1 DEF OutcomesIInv, OutcomesShape
<1>8. TodoIsDue' /\ SnapshotIsLatest'
  BY <1>1, <1>3, <1>5 DEF OutcomesIInv, TodoIsDue, SnapshotIsLatest
<1>9. EntryIsLatest'
  BY <1>3, <1>5, <1>6 DEF OutcomesIInv, EntryIsLatest
<1>10. SnapshotFits'
  <2>1. ASSUME NEW x \in snapshots, Now <= x.at PROVE x.price = LatestPrice
    <3>1. x.at \in 0..Now
      BY DEF OutcomesIInv, OutcomesShape
    <3>2. x.at = Now
      BY <1>1, <2>1, <3>1
    <3>3. QED
      BY <1>3, <3>2 DEF OutcomesIInv, SnapshotIsLatest
  <2>2. QED
    BY <1>3, <1>6, <2>1 DEF OutcomesIInv, SnapshotFits
<1>11. AllFit' /\ OneEach'
  BY <1>1, <1>3 DEF OutcomesIInv, OutcomesShape, AllFit, OneEach
<1>12. QED
  BY <1>7, <1>8, <1>9, <1>10, <1>11 DEF OutcomesIInv

\* Trimming takes the oldest prices, so memory ends with the same price or is empty.
LEMMA TrimIInv ==
    ASSUME OutcomesAssumption, OutcomesIInv, TrimAll
    PROVE  OutcomesIInv'
<1>1. /\ Now' = Now /\ Now \in Nat /\ SignalRows' = SignalRows
      /\ \A o \in OutcomeRows : Fits(o) => Fits(o)'
  BY StandingStill DEF OutcomesIInv, TrimAll
<1>2. /\ memory' = {m \in memory : m >= Now - Retention}
      /\ UNCHANGED <<path, snapshots, signalRows, tracker, outcomes>>
  BY DEF TrimAll, Trim
<1>3. memory \in SUBSET (0..Now) /\ memory' \in SUBSET (0..Now)
  BY <1>2 DEF OutcomesIInv, OutcomesShape
<1>4. memory' # {} => memory # {} /\ Highest(memory') = Highest(memory)
  <2>1. SUFFICES ASSUME memory' # {} PROVE memory # {} /\ Highest(memory') = Highest(memory)
    OBVIOUS
  <2>2. memory # {}
    BY <1>2, <2>1
  <2>3. /\ Highest(memory) \in memory /\ \A x \in memory : x <= Highest(memory)
        /\ Highest(memory') \in memory' /\ \A x \in memory' : x <= Highest(memory')
    BY <1>1, <1>3, <2>1, <2>2, LatestMoment
  <2>4. Highest(memory') \in memory /\ Highest(memory') <= Highest(memory)
    BY <1>2, <2>3
  <2>5. Highest(memory) \in Int /\ Highest(memory') \in Int /\ Retention \in Int
    <3>1. Highest(memory) \in 0..Now
      BY <1>3, <2>3
    <3>2. Highest(memory') \in 0..Now
      BY <1>3, <2>3
    <3>3. Retention \in Int
      BY DEF OutcomesAssumption
    <3>4. QED
      BY <1>1, <3>1, <3>2, <3>3
  <2>6. Highest(memory') >= Now - Retention
    BY <1>2, <2>3
  <2>7. Highest(memory) >= Now - Retention
    BY <1>1, <2>4, <2>5, <2>6
  <2>8. Highest(memory) \in memory'
    BY <1>2, <2>3, <2>7
  <2>9. Highest(memory) <= Highest(memory')
    BY <2>3, <2>8
  <2>10. QED
    BY <2>2, <2>4, <2>5, <2>9
<1>5. memory' # {} => LatestPrice' = LatestPrice
  BY <1>2, <1>4 DEF LatestPrice
<1>6. OutcomesShape' /\ TodoIsDue'
  BY <1>1, <1>2, <1>3 DEF OutcomesIInv, OutcomesShape, TodoIsDue
<1>7. EntryIsLatest' /\ SnapshotIsLatest'
  BY <1>1, <1>2, <1>4, <1>5 DEF OutcomesIInv, EntryIsLatest, SnapshotIsLatest
<1>8. SnapshotFits' /\ AllFit' /\ OneEach'
  BY <1>1, <1>2 DEF OutcomesIInv, OutcomesShape, SnapshotFits, AllFit, OneEach
<1>9. QED
  BY <1>6, <1>7, <1>8 DEF OutcomesIInv

\* The steps of the tracker leave prices, snapshots and signals alone.
LEMMA TrackerStep ==
    ASSUME OutcomesAssumption, OutcomesIInv, UNCHANGED <<path, memory, snapshots, signalRows>>,
           tracker' \in [busy : BOOLEAN, now : 0..Now, todo : SUBSET (signalRows \X Horizons),
                         rows : SUBSET OutcomeRows],
           outcomes' \subseteq OutcomeRows,
           \A w \in tracker'.todo : w[1].at + w[2] <= Now,
           \A o \in outcomes' \cup tracker'.rows : Fits(o),
           OneEach'
    PROVE  OutcomesIInv'
<1>1. /\ Now' = Now /\ Now \in Nat /\ SignalRows' = SignalRows
      /\ \A o \in OutcomeRows : Fits(o) => Fits(o)'
  BY StandingStill DEF OutcomesIInv
<1>2. OutcomesShape'
  BY <1>1 DEF OutcomesIInv, OutcomesShape
<1>3. TodoIsDue'
  BY <1>1 DEF TodoIsDue
<1>4. LatestPrice' = LatestPrice
  BY DEF LatestPrice
<1>5. EntryIsLatest' /\ SnapshotIsLatest' /\ SnapshotFits'
  BY <1>1, <1>4 DEF OutcomesIInv, EntryIsLatest, SnapshotIsLatest, SnapshotFits
<1>6. AllFit'
  BY <1>1, <1>2 DEF AllFit, OutcomesShape
<1>7. QED
  BY <1>2, <1>3, <1>5, <1>6 DEF OutcomesIInv

LEMMA BeginIInv ==
    ASSUME OutcomesAssumption, OutcomesIInv, TakeUp
    PROVE  OutcomesIInv'
<1> DEFINE todo == {w \in Missing(Now) \X Horizons : w[2] \in Due(w[1], Now)}
<1>1. tracker' = [busy |-> TRUE, now |-> Now, rows |-> {}, todo |-> todo]
      /\ UNCHANGED <<path, memory, snapshots, signalRows, outcomes>>
  BY DEF TakeUp
<1>2. todo \in SUBSET (signalRows \X Horizons)
  BY DEF Missing
<1>3. \A w \in todo : w[1].at + w[2] <= Now
  BY DEF Due
<1> HIDE DEF todo
<1>4. Now \in 0..Now /\ {} \in SUBSET OutcomeRows
  BY DEF OutcomesIInv, OutcomesShape, OutcomesAssumption
<1>5. tracker' \in [busy : BOOLEAN, now : 0..Now, todo : SUBSET (signalRows \X Horizons),
                    rows : SUBSET OutcomeRows]
  BY <1>1, <1>2, <1>4
<1>6. OneEach'
  BY <1>1 DEF OutcomesIInv, OneEach, SameKey
<1>7. \A o \in outcomes' \cup tracker'.rows : Fits(o)
  BY <1>1 DEF OutcomesIInv, AllFit
<1>8. \A w \in tracker'.todo : w[1].at + w[2] <= Now
  BY <1>1, <1>3
<1>9. outcomes' \subseteq OutcomeRows
  BY <1>1 DEF OutcomesIInv, OutcomesShape
<1>10. QED
  BY <1>1, <1>5, <1>6, <1>7, <1>8, <1>9, TrackerStep

LEMMA EvaluateIInv ==
    ASSUME OutcomesAssumption, OutcomesIInv, Evaluate
    PROVE  OutcomesIInv'
<1>1. PICK w \in tracker.todo :
        tracker' = [tracker EXCEPT
            !.todo = @ \ {w},
            !.rows = IF PricesIn(w[1], w[2]) = {} THEN @ ELSE @ \cup {Outcome(w[1], w[2])}]
  BY DEF Evaluate
<1>2. UNCHANGED <<path, memory, snapshots, signalRows, outcomes>>
  BY DEF Evaluate
<1>3. tracker \in [busy : BOOLEAN, now : 0..Now, todo : SUBSET (signalRows \X Horizons),
                   rows : SUBSET OutcomeRows]
  BY DEF OutcomesIInv, OutcomesShape
<1>4. /\ w[1] \in signalRows /\ w[2] \in Horizons /\ w = <<w[1], w[2]>>
      /\ w[1].at + w[2] <= Now
  BY <1>3 DEF OutcomesIInv, TodoIsDue
<1> DEFINE o == Outcome(w[1], w[2])
<1>5. PricesIn(w[1], w[2]) # {} =>
        o \in OutcomeRows /\ o.signal = w[1] /\ o.horizon = w[2] /\ Fits(o)
  BY <1>4, OutcomeFits DEF OutcomesIInv
<1> HIDE DEF o
<1>6. /\ tracker'.todo = tracker.todo \ {w}
      /\ \/ tracker'.rows = tracker.rows
         \/ /\ tracker'.rows = tracker.rows \cup {o}
            /\ o \in OutcomeRows /\ o.signal = w[1] /\ o.horizon = w[2] /\ Fits(o)
  BY <1>1, <1>3, <1>5 DEF o
<1>7. tracker' \in [busy : BOOLEAN, now : 0..Now, todo : SUBSET (signalRows \X Horizons),
                    rows : SUBSET OutcomeRows]
  <2>1. tracker'.rows \in SUBSET OutcomeRows /\ tracker'.todo \in SUBSET (signalRows \X Horizons)
    BY <1>3, <1>6
  <2>2. tracker' = [tracker EXCEPT !.todo = tracker'.todo, !.rows = tracker'.rows]
    BY <1>1, <1>3
  <2>3. QED
    BY <1>3, <2>1, <2>2
<1>8. OneEach'
  <2>1. /\ \A p, q \in outcomes : SameKey(p, q) => p = q
        /\ \A p, q \in tracker.rows : SameKey(p, q) => p = q
        /\ \A p \in tracker.rows : <<p.signal, p.horizon>> \notin tracker.todo
    BY DEF OutcomesIInv, OneEach
  <2>2. \A p \in tracker.rows : p.signal # w[1] \/ p.horizon # w[2]
    BY <1>4, <2>1
  <2>3. \A p, q \in tracker'.rows : SameKey(p, q) => p = q
    BY <1>6, <2>1, <2>2 DEF SameKey
  <2>4. \A p \in tracker'.rows : <<p.signal, p.horizon>> \notin tracker'.todo
    BY <1>4, <1>6, <2>1
  <2>5. QED
    BY <1>2, <2>1, <2>3, <2>4 DEF OneEach, SameKey
<1>9. \A q \in outcomes' \cup tracker'.rows : Fits(q)
  BY <1>2, <1>6 DEF OutcomesIInv, AllFit
<1>10. \A v \in tracker'.todo : v[1].at + v[2] <= Now
  BY <1>6 DEF OutcomesIInv, TodoIsDue
<1>11. outcomes' \subseteq OutcomeRows
  BY <1>2 DEF OutcomesIInv, OutcomesShape
<1>12. QED
  BY <1>2, <1>7, <1>8, <1>9, <1>10, <1>11, TrackerStep

\* The tracker ends, with or without storing what it has computed.
LEMMA OutcomesEndIInv ==
    ASSUME OutcomesAssumption, OutcomesIInv, CommitOutcomes \/ Abandon
    PROVE  OutcomesIInv'
<1>1. /\ tracker' = Asleep
      /\ outcomes' = outcomes \/ outcomes' = Insert(outcomes, tracker.rows)
      /\ UNCHANGED <<path, memory, snapshots, signalRows>>
  BY DEF CommitOutcomes, Abandon
<1>2. tracker'.todo = {} /\ tracker'.rows = {}
  BY <1>1 DEF Asleep
<1>3. tracker' \in [busy : BOOLEAN, now : 0..Now, todo : SUBSET (signalRows \X Horizons),
                    rows : SUBSET OutcomeRows]
  BY <1>1 DEF Asleep, OutcomesIInv, OutcomesShape, OutcomesAssumption
<1>4. outcomes' \subseteq outcomes \cup tracker.rows
  BY <1>1 DEF Insert
<1>5. \A p, q \in outcomes' : SameKey(p, q) => p = q
  BY <1>1 DEF OutcomesIInv, OneEach, Insert, SameKey
<1>6. OneEach'
  BY <1>2, <1>5 DEF OneEach, SameKey
<1>7. outcomes' \subseteq OutcomeRows
  BY <1>4 DEF OutcomesIInv, OutcomesShape
<1>8. \A o \in outcomes' \cup tracker'.rows : Fits(o)
  BY <1>2, <1>4 DEF OutcomesIInv, AllFit
<1>9. QED
  BY <1>1, <1>2, <1>3, <1>6, <1>7, <1>8, TrackerStep

LEMMA OutcomesNextIInv == ASSUME OutcomesAssumption PROVE OutcomesIInv /\ [OutcomesNext]_outcomeVars => OutcomesIInv'
<1> SUFFICES ASSUME OutcomesIInv, [OutcomesNext]_outcomeVars PROVE OutcomesIInv'
  OBVIOUS
<1>1. Now \in Nat /\ Retention \in Nat
  BY DEF OutcomesIInv, OutcomesShape, OutcomesAssumption
<1>2. CASE Price
  <2>1. Now + 1 \in Trim(memory \cup {Now + 1}, Now + 1)
    BY <1>1 DEF Trim
  <2>2. Trim(memory \cup {Now + 1}, Now + 1) \subseteq 0..(Now + 1)
    <3>1. \A m \in memory : m \in 0..(Now + 1)
      BY <1>1 DEF OutcomesIInv, OutcomesShape
    <3>2. QED
      BY <1>1, <3>1 DEF Trim
  <2>3. QED
    BY <1>2, <2>1, <2>2, ClockIInv DEF Price
<1>3. CASE Restart
  <2>1. Now + 1 \in Trim(0..(Now + 1), Now + 1)
    BY <1>1 DEF Trim
  <2>2. Trim(0..(Now + 1), Now + 1) \subseteq 0..(Now + 1)
    BY DEF Trim
  <2>3. QED
    BY <1>3, <2>1, <2>2, ClockIInv DEF Restart
<1>4. CASE Snapshot \/ NewSignal \/ TrimAll
  BY <1>4, SnapshotIInv, NewSignalIInv, TrimIInv
<1>5. CASE TakeUp \/ Evaluate \/ CommitOutcomes \/ Abandon
  BY <1>5, BeginIInv, EvaluateIInv, OutcomesEndIInv
<1>6. CASE UNCHANGED outcomeVars
  <2>1. UNCHANGED <<path, memory, snapshots, signalRows, tracker, outcomes>>
    BY <1>6 DEF outcomeVars
  <2>2. OneEach'
    BY <2>1 DEF OutcomesIInv, OneEach
  <2>3. QED
    BY <2>1, <2>2, TrackerStep DEF OutcomesIInv, OutcomesShape, TodoIsDue, AllFit
<1>7. QED
  BY <1>2, <1>3, <1>4, <1>5, <1>6 DEF OutcomesNext, Track

-----------------------------------------------------------------------------
(* The theorems *)

LEMMA OutcomesInvariance == ASSUME OutcomesAssumption PROVE OutcomesSpec => []OutcomesIInv
<1>1. OutcomesInit => OutcomesIInv
  BY OutcomesInitIInv
<1>2. OutcomesIInv /\ [OutcomesNext]_outcomeVars => OutcomesIInv'
  BY OutcomesNextIInv
<1>3. QED
  BY <1>1, <1>2, PTL DEF OutcomesSpec

\* Every variable keeps its type, and no signal ever has two outcomes for one
\* horizon, however evaluations are cut off and repeated.
THEOREM OutcomesTypeCorrect == ASSUME OutcomesAssumption PROVE OutcomesSpec => []OutcomesTypeOK
<1>1. OutcomesIInv => OutcomesTypeOK
  <2> SUFFICES ASSUME OutcomesIInv PROVE OutcomesTypeOK
    OBVIOUS
  <2>1. DOMAIN path = 0..Now /\ Now <= LastMoment
    BY DEF OutcomesIInv, OutcomesShape, OutcomesAssumption
  <2>2. memory \subseteq 0..Now /\ \A o \in outcomes \cup tracker.rows : o \in OutcomeRows
    BY DEF OutcomesIInv, OutcomesShape
  <2>3. \A o, q \in outcomes : (o.signal = q.signal /\ o.horizon = q.horizon) => o = q
    BY DEF OutcomesIInv, OneEach, SameKey
  <2>4. QED
    BY <2>1, <2>2, <2>3 DEF OutcomesTypeOK
<1>2. QED
  BY <1>1, OutcomesInvariance, PTL

\* However late an outcome is computed, from memory or from snapshots, with gaps
\* in both and restarts in between: it claims no larger excursion than the market
\* made within its horizon, and its last price is the entry price or one of them.
THEOREM OutcomesAreTrue == ASSUME OutcomesAssumption PROVE OutcomesSpec => []OutcomeFromWindow
<1>1. OutcomesIInv => OutcomeFromWindow
  <2> SUFFICES ASSUME OutcomesIInv, NEW o \in outcomes
               PROVE  LET truth == Excursions(o.signal, Window(o))
                      IN  /\ o.mfe <= truth.mfe /\ o.mae <= truth.mae
                          /\ o.after \in Window(o) \cup {o.signal.entry}
    BY DEF OutcomeFromWindow
  <2>1. Fits(o)
    BY DEF OutcomesIInv, AllFit
  <2>2. o \in OutcomeRows /\ DOMAIN path = 0..Now /\ Now \in Nat
    BY DEF OutcomesIInv, OutcomesShape, OutcomesAssumption
  <2>3. o.signal.at \in Nat /\ o.horizon \in Nat
    <3>1. o.signal.at \in 0..LastMoment /\ o.horizon \in Horizons
      BY <2>2 DEF OutcomeRows, Moments
    <3>2. LastMoment \in Nat /\ Horizons \subseteq Nat
      BY DEF OutcomesAssumption
    <3>3. o.horizon \in Nat
      BY <3>1, <3>2
    <3>4. o.signal.at \in Nat
      <4> DEFINE a == o.signal.at
      <4> HIDE DEF a
      <4>1. a \in 0..LastMoment
        BY <3>1 DEF a
      <4>2. a \in Nat
        BY <3>2, <4>1
      <4>3. QED
        BY <4>2 DEF a
    <3>5. QED
      BY <3>3, <3>4
  <2>4. o.signal.at + o.horizon <= Now
    BY <2>1 DEF Fits
  <2>5. {x \in DOMAIN path : x >= o.signal.at /\ x <= o.signal.at + o.horizon}
          = o.signal.at..(o.signal.at + o.horizon)
    BY <2>2, <2>3, <2>4
  <2>6. Window(o) = Between(o.signal.at, o.signal.at + o.horizon)
    BY <2>5 DEF Window, Between
  <2>7. QED
    BY <2>1, <2>6 DEF Fits
<1>2. QED
  BY <1>1, OutcomesInvariance, PTL
==============================================================================

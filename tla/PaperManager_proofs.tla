------------------------- MODULE PaperManager_proofs -------------------------
(***************************************************************************)
(* Proofs about PaperManager for every set of signals, profiles and        *)
(* symbols, for all limits and for all amounts of money.                   *)
(***************************************************************************)
EXTENDS PaperManager, FiniteSetTheorems, WellFoundedInduction, TLAPS

InSession == {"read", "inserted", "watched"}
Selecting == {"selected", "loaded"}

\* The shape of the state, as far as the proofs need it.
Shape ==
    /\ status \in [Trades -> {"NONE", "OPEN", "CLOSED"}]
    /\ pnl \in [Trades -> Int]
    /\ DOMAIN tick = Feeds
    /\ \A f \in Feeds : tick[f].pc \in {"waiting"} \cup Selecting =>
         tick[f].sym \in Symbols
    /\ \A f \in Feeds : tick[f].pc \in Selecting => tick[f].trades \subseteq Trades
    /\ opener.pc \in InSession =>
         opener.sig \in Signals /\ opener.prof \in Profiles
    /\ opener.pc \in {"check"} \cup InSession =>
         opener.sig \in Signals /\ opener.todo \subseteq Profiles

\* The inductive invariant.
IInv == Shape /\ WithinLimits /\ InFlightAdmissible /\ TickOwnsItsTrades

-----------------------------------------------------------------------------
(* Sets of open trades *)

LEMMA TradesFinite == IsFiniteSet(Trades)
BY SetsAssumption, FS_Product DEF Trades

LEMMA OpenFinite ==
    ASSUME NEW p, NEW s
    PROVE  /\ IsFiniteSet(OpenOf(p)) /\ Cardinality(OpenOf(p)) \in Nat
           /\ IsFiniteSet(OpenOn(p, s)) /\ Cardinality(OpenOn(p, s)) \in Nat
<1>1. OpenOf(p) \subseteq Trades /\ OpenOn(p, s) \subseteq Trades
  BY DEF OpenOf, OpenOn, OpenTrades
<1>2. IsFiniteSet(OpenOf(p)) /\ IsFiniteSet(OpenOn(p, s))
  BY <1>1, TradesFinite, FS_Subset
<1>3. QED
  BY <1>2, FS_CardinalityType

\* When no trade opens, no count of open trades grows.
LEMMA CountsShrink ==
    ASSUME \A t \in Trades : status'[t] = "OPEN" => status[t] = "OPEN",
           NEW p, NEW s
    PROVE  /\ Cardinality(OpenOf(p)') <= Cardinality(OpenOf(p))
           /\ Cardinality(OpenOn(p, s)') <= Cardinality(OpenOn(p, s))
           /\ Cardinality(OpenOf(p)') \in Nat
           /\ Cardinality(OpenOn(p, s)') \in Nat
<1>1. OpenOf(p)' \subseteq OpenOf(p) /\ OpenOn(p, s)' \subseteq OpenOn(p, s)
  BY DEF OpenOf, OpenOn, OpenTrades, MarketOf, ProfileOf
<1>2. IsFiniteSet(OpenOf(p)') /\ IsFiniteSet(OpenOn(p, s)')
  BY <1>1, OpenFinite, FS_Subset
<1>3. QED
  BY <1>1, <1>2, OpenFinite, FS_Subset, FS_CardinalityType

\* A new trade counts for its own profile and symbol, and for no other.
LEMMA CountsGrow ==
    ASSUME NEW t \in Trades, status[t] = "NONE",
           status \in [Trades -> {"NONE", "OPEN", "CLOSED"}],
           status' = [status EXCEPT ![t] = "OPEN"],
           NEW p, NEW s
    PROVE  /\ Cardinality(OpenOf(p)') = IF ProfileOf(t) = p
                                        THEN Cardinality(OpenOf(p)) + 1
                                        ELSE Cardinality(OpenOf(p))
           /\ Cardinality(OpenOn(p, s)') = IF ProfileOf(t) = p /\ MarketOf(t) = s
                                           THEN Cardinality(OpenOn(p, s)) + 1
                                           ELSE Cardinality(OpenOn(p, s))
<1>1. t \notin OpenOf(p) /\ t \notin OpenOn(p, s)
  BY DEF OpenOf, OpenOn, OpenTrades
<1>2. OpenTrades' = OpenTrades \cup {t}
  BY DEF OpenTrades
<1>3. OpenOf(p)' = IF ProfileOf(t) = p THEN OpenOf(p) \cup {t} ELSE OpenOf(p)
  BY <1>2 DEF OpenOf, ProfileOf
<1>4. OpenOn(p, s)' = IF ProfileOf(t) = p /\ MarketOf(t) = s
                      THEN OpenOn(p, s) \cup {t} ELSE OpenOn(p, s)
  BY <1>3 DEF OpenOn, MarketOf
<1>5. QED
  BY <1>1, <1>3, <1>4, OpenFinite, FS_AddElement
-----------------------------------------------------------------------------
(* What preserves the parts of the invariant *)

LEMMA LimitsKept ==
    ASSUME WithinLimits,
           \A t \in Trades : status'[t] = "OPEN" => status[t] = "OPEN"
    PROVE  WithinLimits'
<1> SUFFICES ASSUME NEW p \in Profiles
             PROVE  /\ Cardinality(OpenOf(p)') <= MaxOpen[p]
                    /\ \A s \in Symbols : Cardinality(OpenOn(p, s)') <= MaxPerSymbol[p]
  BY DEF WithinLimits
<1>1. MaxOpen[p] \in Nat /\ MaxPerSymbol[p] \in Nat
  BY LimitsAssumption
<1>2. Cardinality(OpenOf(p)') <= MaxOpen[p]
  <2>1. Cardinality(OpenOf(p)) <= MaxOpen[p]
    BY DEF WithinLimits
  <2>2. QED
    BY <1>1, <2>1, CountsShrink, OpenFinite
<1>3. ASSUME NEW s \in Symbols
      PROVE  Cardinality(OpenOn(p, s)') <= MaxPerSymbol[p]
  <2>1. Cardinality(OpenOn(p, s)) <= MaxPerSymbol[p]
    BY DEF WithinLimits
  <2>2. QED
    BY <1>1, <2>1, CountsShrink, OpenFinite
<1>4. QED
  BY <1>2, <1>3

LEMMA AdmissibleKept ==
    ASSUME NEW t \in Trades, Admissible(t), status'[t] = "NONE",
           \A u \in Trades : status'[u] = "OPEN" => status[u] = "OPEN"
    PROVE  Admissible(t)'
<1> DEFINE p == ProfileOf(t)
           s == MarketOf(t)
<1>1. p \in Profiles /\ MaxOpen[p] \in Nat /\ MaxPerSymbol[p] \in Nat
  BY LimitsAssumption DEF Trades, ProfileOf
<1>2. Cardinality(OpenOf(p)) < MaxOpen[p] /\ Cardinality(OpenOn(p, s)) < MaxPerSymbol[p]
  BY DEF Admissible
<1>3. /\ Cardinality(OpenOf(p)') <= Cardinality(OpenOf(p))
      /\ Cardinality(OpenOn(p, s)') <= Cardinality(OpenOn(p, s))
      /\ Cardinality(OpenOf(p)') \in Nat /\ Cardinality(OpenOn(p, s)') \in Nat
  BY CountsShrink
<1>4. Cardinality(OpenOf(p)') < MaxOpen[p] /\ Cardinality(OpenOn(p, s)') < MaxPerSymbol[p]
  BY <1>1, <1>2, <1>3, OpenFinite
<1>5. QED
  BY <1>4 DEF Admissible, ProfileOf, MarketOf

LEMMA TicksKept ==
    ASSUME TickOwnsItsTrades, UNCHANGED tick,
           \A t \in Trades : status[t] = "OPEN" => status'[t] = "OPEN",
           \A f \in Feeds : tick[f].pc \in Selecting => tick[f].trades \subseteq Trades
    PROVE  TickOwnsItsTrades'
BY DEF TickOwnsItsTrades, Selecting, MarketOf
-----------------------------------------------------------------------------
(* The invariant is inductive *)

LEMMA InitIInv == Init => IInv
<1> SUFFICES ASSUME Init PROVE IInv
  OBVIOUS
<1>1. Shape
  BY DEF Init, Shape, Idle, InSession, Selecting
<1>2. WithinLimits
  <2>1. ASSUME NEW p, NEW s PROVE OpenOf(p) = {} /\ OpenOn(p, s) = {}
    BY DEF Init, OpenOf, OpenOn, OpenTrades
  <2>2. QED
    BY <2>1, FS_EmptySet, LimitsAssumption DEF WithinLimits
<1>3. InFlightAdmissible /\ TickOwnsItsTrades
  BY DEF Init, Idle, InFlightAdmissible, TickOwnsItsTrades
<1>4. QED
  BY <1>1, <1>2, <1>3 DEF IInv

\* Steps that leave the rows and the ticks alone and open no new session.
LEMMA OpenerRests ==
    ASSUME IInv, UNCHANGED <<status, pnl, tick>>,
           opener' = opener \/ opener'.pc \notin InSession,
           Shape'
    PROVE  IInv'
<1>1. WithinLimits' /\ TickOwnsItsTrades'
  BY LimitsKept, TicksKept DEF IInv, Shape
<1>2. InFlightAdmissible'
  <2>1. CASE opener'.pc \notin InSession
    BY <2>1 DEF InFlightAdmissible, InSession
  <2>2. CASE opener' = opener /\ opener.pc \in InSession
    <3>1. PICK t \in Trades : t = <<opener.sig, opener.prof>> /\ Admissible(t)
      BY <2>2 DEF IInv, Shape, InFlightAdmissible, InSession, Trades
    <3>2. Admissible(t)'
      BY <3>1, AdmissibleKept DEF Admissible
    <3>3. QED
      BY <2>2, <3>1, <3>2
         DEF InFlightAdmissible, Admissible, OpenOf, OpenOn, ProfileOf, MarketOf
  <2>3. QED
    BY <2>1, <2>2
<1>3. QED
  BY <1>1, <1>2 DEF IInv

\* Steps of the session that opens a trade, up to its commit.
LEMMA OpenerAdvances ==
    ASSUME IInv, UNCHANGED <<status, pnl, tick>>,
           NEW t \in Trades, Admissible(t), t = <<opener'.sig, opener'.prof>>,
           Shape'
    PROVE  IInv'
<1>1. WithinLimits' /\ TickOwnsItsTrades'
  BY LimitsKept, TicksKept DEF IInv, Shape
<1>2. status'[t] = "NONE"
  BY DEF Admissible
<1>3. Admissible(t)'
  BY <1>2, AdmissibleKept
<1>4. InFlightAdmissible'
  BY <1>3 DEF InFlightAdmissible, Admissible, OpenOf, OpenOn, ProfileOf, MarketOf
<1>5. QED
  BY <1>1, <1>4 DEF IInv

\* The ticks' steps before they settle.
LEMMA TickWaits ==
    ASSUME IInv, NEW f \in Feeds, UNCHANGED <<status, pnl, opener>>,
           NEW v, tick' = [tick EXCEPT ![f] = v],
           v.pc \in {"waiting"} \cup Selecting => v.sym \in Symbols,
           v.pc \notin Selecting
             \/ /\ v.trades # {}
                /\ v.trades \subseteq OpenRows(v.sym)
                /\ \A g \in Feeds \ {f} : tick[g].pc \notin Selecting
    PROVE  IInv'
<1>1. Shape'
  BY DEF IInv, Shape, OpenRows, OpenTrades
<1>2. WithinLimits'
  BY LimitsKept DEF IInv
<1>3. InFlightAdmissible'
  <2> SUFFICES ASSUME opener.pc \in InSession
               PROVE  Admissible(<<opener.sig, opener.prof>>)'
    BY DEF InFlightAdmissible, InSession
  <2>1. PICK t \in Trades : t = <<opener.sig, opener.prof>> /\ Admissible(t)
    BY DEF IInv, Shape, InFlightAdmissible, InSession, Trades
  <2>2. Admissible(t)'
    BY <2>1, AdmissibleKept DEF Admissible
  <2>3. QED
    BY <2>1, <2>2 DEF Admissible, OpenOf, OpenOn, ProfileOf, MarketOf
<1>4. TickOwnsItsTrades'
  <2>1. TickOwnsItsTrades /\ DOMAIN tick = Feeds
    BY DEF IInv, Shape
  <2>2. CASE v.pc \notin Selecting
    BY <2>1, <2>2 DEF TickOwnsItsTrades, Selecting, MarketOf
  <2>3. CASE /\ v.trades # {}
             /\ v.trades \subseteq OpenRows(v.sym)
             /\ \A g \in Feeds \ {f} : tick[g].pc \notin Selecting
    <3>1. \A t \in v.trades : status[t] = "OPEN" /\ MarketOf(t) = v.sym
      BY <2>3 DEF OpenRows, OpenTrades
    <3>2. tick'[f] = v /\ \A g \in Feeds \ {f} : tick'[g] = tick[g]
      BY <2>1
    <3>3. QED
      BY <2>3, <3>1, <3>2 DEF TickOwnsItsTrades, Selecting, MarketOf
  <2>4. QED
    BY <2>2, <2>3
<1>5. QED
  BY <1>1, <1>2, <1>3, <1>4 DEF IInv
\* The commit of a trade that is under way counts it within the limits.
LEMMA CommitIInv == IInv /\ CommitOpen => IInv'
<1> SUFFICES ASSUME IInv, CommitOpen PROVE IInv'
  OBVIOUS
<1>1. PICK t \in Trades : t = <<opener.sig, opener.prof>> /\ Admissible(t)
  BY DEF IInv, Shape, InFlightAdmissible, InSession, Trades, CommitOpen
<1>2. /\ status' = [status EXCEPT ![t] = "OPEN"]
      /\ pnl' = [pnl EXCEPT ![t] = -EntryFee]
      /\ opener' = [pc |-> "check", sig |-> opener.sig, todo |-> opener.todo \ {opener.prof}]
      /\ UNCHANGED tick
  BY <1>1 DEF CommitOpen, NextProfile
<1>3. status[t] = "NONE" /\ t \in Trades
  BY <1>1 DEF Admissible
<1>4. Shape'
  BY <1>1, <1>2, LimitsAssumption DEF IInv, Shape, InSession, CommitOpen
<1>5. WithinLimits'
  <2>1. ASSUME NEW p \in Profiles PROVE Cardinality(OpenOf(p)') <= MaxOpen[p]
    <3>1. /\ MaxOpen[p] \in Nat
          /\ Cardinality(OpenOf(p)) \in Nat
          /\ Cardinality(OpenOf(p)) <= MaxOpen[p]
      BY OpenFinite, LimitsAssumption DEF IInv, WithinLimits
    <3>2. ProfileOf(t) = p => Cardinality(OpenOf(p)) < MaxOpen[p]
      BY <1>1 DEF Admissible
    <3>3. Cardinality(OpenOf(p)') = IF ProfileOf(t) = p THEN Cardinality(OpenOf(p)) + 1
                                                       ELSE Cardinality(OpenOf(p))
      BY <1>2, <1>3, CountsGrow DEF IInv, Shape
    <3>4. QED
      BY <3>1, <3>2, <3>3
  <2>2. ASSUME NEW p \in Profiles, NEW s \in Symbols
        PROVE  Cardinality(OpenOn(p, s)') <= MaxPerSymbol[p]
    <3>1. /\ MaxPerSymbol[p] \in Nat
          /\ Cardinality(OpenOn(p, s)) \in Nat
          /\ Cardinality(OpenOn(p, s)) <= MaxPerSymbol[p]
      BY OpenFinite, LimitsAssumption DEF IInv, WithinLimits
    <3>2. ProfileOf(t) = p /\ MarketOf(t) = s => Cardinality(OpenOn(p, s)) < MaxPerSymbol[p]
      BY <1>1 DEF Admissible
    <3>3. Cardinality(OpenOn(p, s)') = IF ProfileOf(t) = p /\ MarketOf(t) = s
                                      THEN Cardinality(OpenOn(p, s)) + 1
                                      ELSE Cardinality(OpenOn(p, s))
      BY <1>2, <1>3, CountsGrow DEF IInv, Shape
    <3>4. QED
      BY <3>1, <3>2, <3>3
  <2>3. QED
    BY <2>1, <2>2 DEF WithinLimits
<1>6. InFlightAdmissible'
  BY <1>2 DEF InFlightAdmissible
<1>7. TickOwnsItsTrades'
  BY <1>2, TicksKept DEF IInv, Shape
<1>8. QED
  BY <1>4, <1>5, <1>6, <1>7 DEF IInv

\* A tick that settles closes open trades only, so it frees room in the limits
\* and leaves the trade under way admissible.
LEMMA SettleIInv ==
    ASSUME IInv, NEW f \in Feeds, SettleTick(f)
    PROVE  IInv'
<1>1. PICK closed \in SUBSET tick[f].trades, reduced \in SUBSET (tick[f].trades \ partial) :
        \E gain \in [closed \cup reduced -> Gains] : Settle(f, closed, reduced, gain)
  BY DEF SettleTick
<1>2. PICK gain \in [closed \cup reduced -> Gains] : Settle(f, closed, reduced, gain)
  BY <1>1
<1>3. /\ \A t \in closed : status[t] = "OPEN" /\ t \in Trades
      /\ \A g \in Feeds \ {f} : tick[g].pc \notin Selecting
      /\ DOMAIN tick = Feeds
  BY DEF SettleTick, IInv, Shape, TickOwnsItsTrades, Selecting
<1>4. /\ status' = [t \in Trades |-> IF t \in closed THEN "CLOSED" ELSE status[t]]
      /\ tick' = [tick EXCEPT ![f] = Idle]
      /\ opener' = opener
  BY <1>2 DEF Settle
<1>5. \A t \in Trades : status'[t] = "OPEN" => status[t] = "OPEN"
  BY <1>4
<1>6. Shape'
  <2>1. pnl' \in [Trades -> Int]
    <3>1. \A t \in closed \cup reduced : gain[t] \in Int
      BY LimitsAssumption
    <3>2. \A t \in Trades : pnl[t] \in Int
      BY DEF IInv, Shape
    <3>3. QED
      BY <1>2, <3>1, <3>2 DEF Settle
  <2>2. status' \in [Trades -> {"NONE", "OPEN", "CLOSED"}]
    BY <1>4 DEF IInv, Shape
  <2>3. QED
    BY <1>3, <1>4, <2>1, <2>2 DEF IInv, Shape, Idle, Selecting
<1>7. WithinLimits'
  BY <1>5, LimitsKept DEF IInv
<1>8. InFlightAdmissible'
  <2> SUFFICES ASSUME opener.pc \in InSession
               PROVE  Admissible(<<opener.sig, opener.prof>>)'
    BY <1>4 DEF InFlightAdmissible, InSession
  <2>1. PICK t \in Trades : t = <<opener.sig, opener.prof>> /\ Admissible(t)
    BY DEF IInv, Shape, InFlightAdmissible, InSession, Trades
  <2>2. status'[t] = "NONE"
    BY <1>3, <1>4, <2>1 DEF Admissible
  <2>3. Admissible(t)'
    BY <1>5, <2>1, <2>2, AdmissibleKept
  <2>4. QED
    BY <1>4, <2>1, <2>3 DEF Admissible, OpenOf, OpenOn, ProfileOf, MarketOf
<1>9. TickOwnsItsTrades'
  BY <1>3, <1>4 DEF TickOwnsItsTrades, Selecting, Idle
<1>10. QED
  BY <1>6, <1>7, <1>8, <1>9 DEF IInv
LEMMA NextIInv == IInv /\ [Next]_vars => IInv'
<1> SUFFICES ASSUME IInv, [Next]_vars PROVE IInv'
  OBVIOUS
<1>1. ASSUME NEW g \in Signals, Offer(g) PROVE IInv'
  BY <1>1, OpenerRests DEF Offer, IInv, Shape, InSession, rows, Trades
<1>2. ASSUME NEW p \in Profiles, Skip(p) PROVE IInv'
  BY <1>2, OpenerRests DEF Skip, NextProfile, IInv, Shape, InSession, rows, Trades
<1>3. ASSUME NEW p \in Profiles, ReadProfile(p) PROVE IInv'
  <2>1. <<opener.sig, p>> \in Trades /\ opener'.sig = opener.sig /\ opener'.prof = p
    BY <1>3 DEF ReadProfile, IInv, Shape, Trades
  <2>2. Shape'
    BY <1>3 DEF ReadProfile, IInv, Shape, InSession, rows, Trades
  <2>3. QED
    BY <1>3, <2>1, <2>2, OpenerAdvances DEF ReadProfile, rows
<1>4. CASE Reject \/ Done \/ OpenFails
  BY <1>4, OpenerRests
     DEF Reject, Done, OpenFails, NextProfile, Idle, IInv, Shape, InSession, rows, Trades
<1>5. CASE Insert \/ Watch
  <2>1. PICK t \in Trades : t = <<opener.sig, opener.prof>> /\ Admissible(t)
    BY <1>5 DEF Insert, Watch, IInv, Shape, InFlightAdmissible, InSession, Trades
  <2>2. /\ UNCHANGED <<status, pnl, tick>>
        /\ opener'.sig = opener.sig /\ opener'.prof = opener.prof
        /\ opener'.todo = opener.todo
        /\ opener.pc \in InSession
    BY <1>5 DEF Insert, Watch, HoldLock, rows, InSession
  <2>3. Shape'
    BY <2>2 DEF IInv, Shape, InSession, Trades
  <2>4. QED
    BY <2>1, <2>2, <2>3, OpenerAdvances
<1>6. CASE CommitOpen
  BY <1>6, CommitIInv
<1>7. ASSUME NEW f \in Feeds,
             (\E s \in Symbols : Arrive(f, s)) \/ SelectNone(f) \/ SelectRows(f)
               \/ LoadProfile(f) \/ TickTimeout(f)
      PROVE  IInv'
  <2>1. UNCHANGED <<status, pnl, opener>>
    BY <1>7 DEF Arrive, SelectNone, SelectRows, LoadProfile, TickTimeout, rows
  <2>2. CASE (\E s \in Symbols : Arrive(f, s)) \/ SelectNone(f) \/ TickTimeout(f)
    <3>1. PICK v \in {Idle} \cup [pc : {"waiting"}, sym : Symbols] :
            tick' = [tick EXCEPT ![f] = v]
      BY <2>2 DEF Arrive, SelectNone, TickTimeout
    <3>2. v.pc \notin Selecting /\ (v.pc = "waiting" => v.sym \in Symbols)
      BY DEF Idle, Selecting
    <3>3. QED
      BY <2>1, <3>1, <3>2, TickWaits
  <2>3. CASE SelectRows(f)
    <3> DEFINE v == [pc |-> "selected", sym |-> tick[f].sym, trades |-> OpenRows(tick[f].sym)]
    <3>1. tick' = [tick EXCEPT ![f] = v]
      BY <2>3 DEF SelectRows
    <3>2. v.trades # {} /\ v.trades \subseteq OpenRows(v.sym) /\ v.sym \in Symbols
      BY <2>3 DEF SelectRows, IInv, Shape
    <3>3. \A g \in Feeds \ {f} : tick[g].pc \notin Selecting
      BY <2>3 DEF SelectRows, PriceLockFree, Selecting
    <3> HIDE DEF v
    <3>4. QED
      BY <2>1, <3>1, <3>2, <3>3, TickWaits
  <2>4. CASE LoadProfile(f)
    <3>1. PICK v : /\ tick' = [tick EXCEPT ![f] = v]
                   /\ v.sym = tick[f].sym /\ v.trades = tick[f].trades
      BY <2>4 DEF LoadProfile
    <3>2. /\ v.sym \in Symbols
          /\ v.trades # {} /\ v.trades \subseteq OpenRows(v.sym)
          /\ \A g \in Feeds \ {f} : tick[g].pc \notin Selecting
      BY <2>4, <3>1
         DEF LoadProfile, IInv, Shape, TickOwnsItsTrades, Selecting, OpenRows, OpenTrades
    <3>3. QED
      BY <2>1, <3>1, <3>2, TickWaits
  <2>5. QED
    BY <1>7, <2>2, <2>3, <2>4
<1>8. ASSUME NEW f \in Feeds, SettleTick(f) PROVE IInv'
  BY <1>8, SettleIInv
<1>9. CASE (\E p \in ResetProfiles : ResetCheck(p)) \/ ResetRead \/ ResetWrite
             \/ ResetTimeout \/ Midnight \/ UNCHANGED vars
  <2>1. UNCHANGED <<status, pnl, tick, opener>>
    BY <1>9 DEF ResetCheck, ResetRead, ResetWrite, ResetTimeout, Midnight, rows, vars
  <2>2. Shape'
    BY <2>1 DEF IInv, Shape, Trades
  <2>3. QED
    BY <2>1, <2>2, OpenerRests
<1>10. CASE Restart
  <2>1. UNCHANGED <<status, pnl>> /\ opener' = Idle /\ tick' = [f \in Feeds |-> Idle]
    BY <1>10 DEF Restart, rows
  <2>2. Shape'
    BY <2>1 DEF IInv, Shape, Trades, Idle, InSession, Selecting
  <2>3. WithinLimits'
    BY <2>1, LimitsKept DEF IInv
  <2>4. InFlightAdmissible' /\ TickOwnsItsTrades'
    BY <2>1 DEF InFlightAdmissible, TickOwnsItsTrades, Idle
  <2>5. QED
    BY <2>2, <2>3, <2>4 DEF IInv
<1>11. QED
  BY <1>1, <1>2, <1>3, <1>4, <1>5, <1>6, <1>7, <1>8, <1>9, <1>10
     DEF Next, OpenerStep, TickSelect

\* However the coroutines interleave, time out or die: no profile exceeds its
\* limits, a trade under way is still admissible when it is committed, and the
\* trades a tick has selected stay open and its own until it commits.
THEOREM Limits == Spec => [](WithinLimits /\ InFlightAdmissible /\ TickOwnsItsTrades)
<1>1. Spec => []IInv
  BY InitIInv, NextIInv, PTL DEF Spec
<1>2. IInv => WithinLimits /\ InFlightAdmissible /\ TickOwnsItsTrades
  BY DEF IInv
<1>3. QED
  BY <1>1, <1>2, PTL

-----------------------------------------------------------------------------
(* The rows of the database implement PaperBook *)

LEMMA InitBook == Init => Book!Init
BY DEF Init, Book!Init, Trades, Book!Trades

\* PaperBook counts with the same Cardinality.
LEMMA SameCardinality == ASSUME NEW S PROVE Book!Cardinality(S) = Cardinality(S)
BY DEF Book!Cardinality, Cardinality

LEMMA CommitBook == IInv /\ CommitOpen => \E t \in Book!Trades : Book!Open(t)
<1> SUFFICES ASSUME IInv, CommitOpen PROVE \E t \in Book!Trades : Book!Open(t)
  OBVIOUS
<1>1. PICK t \in Trades : t = <<opener.sig, opener.prof>> /\ Admissible(t)
  BY DEF IInv, Shape, InFlightAdmissible, InSession, Trades, CommitOpen
<1>2. Book!OpenOf(t[2]) = OpenOf(t[2])
      /\ Book!OpenOn(t[2], SymbolOf[t[1]]) = OpenOn(t[2], SymbolOf[t[1]])
  BY DEF Book!OpenOf, Book!OpenOn, Book!OpenTrades, Book!Trades, OpenOf, OpenOn,
         OpenTrades, Trades, ProfileOf, MarketOf
<1>3. /\ status[t] = "NONE"
      /\ Cardinality(OpenOf(t[2])) < MaxOpen[t[2]]
      /\ Cardinality(OpenOn(t[2], SymbolOf[t[1]])) < MaxPerSymbol[t[2]]
  BY <1>1 DEF Admissible, ProfileOf, MarketOf
<1>4. /\ status' = [status EXCEPT ![t] = "OPEN"]
      /\ pnl' = [pnl EXCEPT ![t] = -EntryFee]
  BY <1>1 DEF CommitOpen
<1>5. Book!Open(t)
  BY <1>2, <1>3, <1>4, SameCardinality DEF Book!Open
<1>6. QED
  BY <1>1, <1>5 DEF Book!Trades, Trades

LEMMA SettleBook ==
    ASSUME IInv, NEW f \in Feeds, SettleTick(f)
    PROVE  Book!Settle(tick[f].sym)
<1>1. PICK closed \in SUBSET tick[f].trades, reduced \in SUBSET (tick[f].trades \ partial) :
        \E gain \in [closed \cup reduced -> Gains] : Settle(f, closed, reduced, gain)
  BY DEF SettleTick
<1>2. /\ status' = [t \in Trades |-> IF t \in closed THEN "CLOSED" ELSE status[t]]
      /\ DOMAIN pnl' = Trades
      /\ \A t \in Trades \ (closed \cup reduced) : pnl'[t] = pnl[t]
  BY <1>1 DEF Settle
<1>3. closed \cup reduced \subseteq {t \in Book!OpenTrades : SymbolOf[t[1]] = tick[f].sym}
  BY DEF SettleTick, IInv, Shape, TickOwnsItsTrades, Selecting, MarketOf, Trades,
         Book!OpenTrades, Book!Trades
<1>4. QED
  BY <1>2, <1>3 DEF Book!Settle, Trades, Book!Trades

\* Whatever the sessions do, the committed trades open one at a time and within
\* the limits, settle by market, and never change once closed.
THEOREM BookRefinement == Spec => ImplementsBook
<1>1. IInv /\ [Next]_vars => [Book!Next]_(Book!book)
  <2> SUFFICES ASSUME IInv, [Next]_vars PROVE [Book!Next]_(Book!book)
    OBVIOUS
  <2>1. CASE CommitOpen
    BY <2>1, CommitBook DEF Book!Next
  <2>2. ASSUME NEW f \in Feeds, SettleTick(f) PROVE [Book!Next]_(Book!book)
    <3>1. tick[f].sym \in Symbols
      BY <2>2 DEF SettleTick, IInv, Shape, Selecting
    <3>2. QED
      BY <2>2, <3>1, SettleBook DEF Book!Next
  <2>3. CASE ~CommitOpen /\ ~(\E f \in Feeds : SettleTick(f))
    BY <2>3
       DEF Next, vars, rows, Book!book, OpenerStep, TickSelect, Offer, Skip, ReadProfile,
           Reject, Insert, Watch, Done, OpenFails, Arrive, SelectNone, SelectRows,
           LoadProfile, TickTimeout, ResetCheck, ResetRead, ResetWrite, ResetTimeout,
           Midnight, Restart
  <2>4. QED
    BY <2>1, <2>2, <2>3
<1>2. QED
  BY InitIInv, NextIInv, InitBook, <1>1, PTL DEF Spec, ImplementsBook, Book!Spec
-----------------------------------------------------------------------------
(* Sums over finite sets of trades.  SumOver is a fold, that is, a recursive *)
(* function on the subsets: it exists, and its values are what one expects.  *)

LEMMA Least ==
    ASSUME NEW B \in SUBSET Nat, B # {}
    PROVE  \E n \in B : \A m \in B : n <= m
<1> DEFINE R == OpToRel(<, Nat)
<1>1. IsWellFoundedOn(R, Nat)
  BY NatLessThanWellFounded
<1>2. \A m, n \in Nat : m < n => <<m, n>> \in R
  BY DEF OpToRel
<1> HIDE DEF R
<1>3. PICK n \in B : \A m \in B : ~(<<m, n>> \in R)
  BY <1>1, WFMin
<1>4. \A m \in B : ~(m < n)
  BY <1>2, <1>3
<1>5. QED
  BY <1>3, <1>4

Pick(s) == CHOOSE x \in s : TRUE

\* it adds up amount over each of the sets, one member after the other.
Adds(it, amount, Sets) ==
    it = [s \in Sets |-> IF s = {} THEN 0 ELSE amount[Pick(s)] + it[s \ {Pick(s)}]]

Upto(n, S) == {s \in SUBSET S : Cardinality(s) <= n}

LEMMA PickSmaller ==
    ASSUME NEW S, IsFiniteSet(S), NEW s \in SUBSET S, s # {}
    PROVE  /\ Pick(s) \in s
           /\ IsFiniteSet(s) /\ Cardinality(s) \in Nat \ {0}
           /\ s \ {Pick(s)} \in SUBSET S
           /\ Cardinality(s \ {Pick(s)}) = Cardinality(s) - 1
<1>1. Pick(s) \in s
  BY DEF Pick
<1>2. IsFiniteSet(s)
  BY FS_Subset
<1>3. Cardinality(s) \in Nat /\ Cardinality(s) # 0
  BY <1>2, FS_CardinalityType, FS_EmptySet
<1>4. Cardinality(s \ {Pick(s)}) = Cardinality(s) - 1
  BY <1>1, <1>2, FS_RemoveElement
<1>5. QED
  BY <1>1, <1>2, <1>3, <1>4

LEMMA AdderExists ==
    ASSUME NEW amount, NEW S, IsFiniteSet(S)
    PROVE  \E it : Adds(it, amount, SUBSET S)
<1> DEFINE Bad == {n \in Nat : ~\E it : Adds(it, amount, Upto(n, S))}
<1>1. Bad = {}
  <2>1. SUFFICES ASSUME Bad # {} PROVE FALSE
    OBVIOUS
  <2>2. PICK n \in Bad : \A m \in Bad : n <= m
    BY <2>1, Least
  <2>3. n # 0
    <3>1. \A s \in Upto(0, S) : s = {}
      <4> SUFFICES ASSUME NEW s \in Upto(0, S), s # {} PROVE FALSE
        OBVIOUS
      <4>1. s \in SUBSET S /\ Cardinality(s) <= 0
        BY DEF Upto
      <4>2. Cardinality(s) \in Nat \ {0}
        BY <4>1, PickSmaller
      <4>3. QED
        BY <4>1, <4>2
    <3>2. Adds([s \in Upto(0, S) |-> 0], amount, Upto(0, S))
      BY <3>1 DEF Adds
    <3>3. QED
      BY <3>2
  <2>4. n \in Nat /\ n - 1 \in Nat /\ n - 1 \notin Bad
    BY <2>2, <2>3
  <2>5. PICK h : Adds(h, amount, Upto(n - 1, S))
    BY <2>4
  <2> DEFINE g == [s \in Upto(n, S) |-> IF s = {} THEN 0
                                        ELSE amount[Pick(s)] + h[s \ {Pick(s)}]]
  <2>6. ASSUME NEW s \in Upto(n, S), s # {}
        PROVE  s \ {Pick(s)} \in Upto(n - 1, S)
    <3>1. s \in SUBSET S /\ Cardinality(s) <= n
      BY DEF Upto
    <3>2. /\ Cardinality(s) \in Nat \ {0} /\ s \ {Pick(s)} \in SUBSET S
          /\ Cardinality(s \ {Pick(s)}) = Cardinality(s) - 1
      BY <2>6, <3>1, PickSmaller
    <3>3. Cardinality(s \ {Pick(s)}) <= n - 1
      BY <2>4, <3>1, <3>2
    <3>4. QED
      BY <3>2, <3>3 DEF Upto
  <2>7. ASSUME NEW s \in Upto(n - 1, S) PROVE s \in Upto(n, S) /\ g[s] = h[s]
    <3>1. s \in SUBSET S /\ Cardinality(s) <= n - 1
      BY DEF Upto
    <3>2. Cardinality(s) \in Nat
      BY <3>1, FS_Subset, FS_CardinalityType
    <3>3. s \in Upto(n, S)
      BY <2>4, <3>1, <3>2 DEF Upto
    <3>4. QED
      BY <2>5, <3>3 DEF Adds
  <2>8. g = [s \in Upto(n, S) |-> IF s = {} THEN 0
                                  ELSE amount[Pick(s)] + g[s \ {Pick(s)}]]
    BY <2>6, <2>7
  <2>9. Adds(g, amount, Upto(n, S))
    BY <2>8 DEF Adds
  <2>10. QED
    BY <2>2, <2>9
<1>2. Cardinality(S) \in Nat
  BY FS_CardinalityType
<1>3. PICK it : Adds(it, amount, Upto(Cardinality(S), S))
  BY <1>1, <1>2
<1>4. Upto(Cardinality(S), S) = SUBSET S
  BY FS_Subset DEF Upto
<1>5. QED
  BY <1>3, <1>4

LEMMA SumIs ==
    ASSUME NEW amount, NEW S, IsFiniteSet(S)
    PROVE  \E it : Adds(it, amount, SUBSET S) /\ SumOver(amount, S) = it[S]
<1> DEFINE Adder == CHOOSE it : it = [s \in SUBSET S |->
                      IF s = {} THEN 0
                      ELSE amount[CHOOSE x \in s : TRUE] + it[s \ {CHOOSE x \in s : TRUE}]]
<1>1. SumOver(amount, S) = Adder[S]
  BY DEF SumOver, MapThenSumSet, MapThenFoldSet
<1>2. Adds(Adder, amount, SUBSET S)
  <2>1. Adder = CHOOSE it : Adds(it, amount, SUBSET S)
    BY DEF Adds, Pick
  <2> HIDE DEF Adder
  <2>2. QED
    BY <2>1, AdderExists
<1>3. QED
  BY <1>1, <1>2

LEMMA SumEmpty == ASSUME NEW amount PROVE SumOver(amount, {}) = 0
<1>1. PICK it : Adds(it, amount, SUBSET {}) /\ SumOver(amount, {}) = it[{}]
  BY SumIs, FS_EmptySet
<1>2. it[{}] = 0
  BY <1>1 DEF Adds
<1>3. QED
  BY <1>1, <1>2

LEMMA SumIsInt ==
    ASSUME NEW amount, NEW S, IsFiniteSet(S), \A x \in S : amount[x] \in Int
    PROVE  SumOver(amount, S) \in Int
<1>1. PICK it : Adds(it, amount, SUBSET S) /\ SumOver(amount, S) = it[S]
  BY SumIs
<1> DEFINE Bad == {n \in Nat : \E s \in SUBSET S : Cardinality(s) = n /\ it[s] \notin Int}
<1>2. Bad = {}
  <2>1. SUFFICES ASSUME Bad # {} PROVE FALSE
    OBVIOUS
  <2>2. PICK n \in Bad : \A m \in Bad : n <= m
    BY <2>1, Least
  <2>3. PICK s \in SUBSET S : Cardinality(s) = n /\ it[s] \notin Int
    BY <2>2
  <2>4. it[s] = IF s = {} THEN 0 ELSE amount[Pick(s)] + it[s \ {Pick(s)}]
    BY <1>1, <2>3 DEF Adds
  <2>5. /\ Pick(s) \in s /\ s \ {Pick(s)} \in SUBSET S
        /\ n \in Nat \ {0} /\ Cardinality(s \ {Pick(s)}) = n - 1
        /\ s # {}
    BY <2>3, <2>4, PickSmaller
  <2>6. n - 1 \in Nat /\ n - 1 \notin Bad
    BY <2>2, <2>5
  <2>7. it[s \ {Pick(s)}] \in Int /\ amount[Pick(s)] \in Int
    BY <2>5, <2>6
  <2>8. QED
    BY <2>3, <2>4, <2>7
<1>3. Cardinality(S) \in Nat
  BY FS_CardinalityType
<1>4. QED
  BY <1>1, <1>2, <1>3

-----------------------------------------------------------------------------
(* Types *)

LEMMA TypeInit == Init => TypeOK
BY LimitsAssumption DEF Init, TypeOK, OpenerStates, TickStates, ResetStates, Idle

LEMMA OpenerTyped ==
    ASSUME TypeOK
    PROVE  /\ opener.pc = "check" =>
                /\ opener = [pc |-> "check", sig |-> opener.sig, todo |-> opener.todo]
                /\ opener.sig \in Signals /\ opener.todo \in SUBSET Profiles
           /\ opener.pc \in InSession =>
                /\ opener.sig \in Signals /\ opener.prof \in Profiles
                /\ opener.todo \in SUBSET Profiles /\ opener.loaded \in Int
BY DEF TypeOK, OpenerStates, Idle, InSession

LEMMA TickTyped ==
    ASSUME TypeOK, NEW f \in Feeds
    PROVE  /\ tick[f] \in TickStates
           /\ tick[f].pc # "idle" => tick[f].sym \in Symbols
           /\ tick[f].pc \in Selecting => tick[f].trades \in SUBSET Trades
           /\ tick[f].pc = "loaded" => tick[f].prof \in Profiles /\ tick[f].loaded \in Int
<1>1. tick[f] \in TickStates
  BY DEF TypeOK
<1>2. QED
  BY <1>1 DEF TickStates, Idle, Selecting

\* What a tick books on a profile is an amount.
LEMMA DeltaTyped ==
    ASSUME NEW T \in SUBSET Trades, NEW gain \in [T -> Gains], NEW p
    PROVE  Delta(p, gain) \in Int
<1> DEFINE S == {t \in DOMAIN gain : ProfileOf(t) = p}
<1>1. S \subseteq Trades /\ \A t \in S : gain[t] \in Int
  BY LimitsAssumption
<1>2. IsFiniteSet(S)
  BY <1>1, TradesFinite, FS_Subset
<1>3. SumOver(gain, S) \in Int
  BY <1>1, <1>2, SumIsInt
<1>4. QED
  BY <1>3 DEF Delta

LEMMA SettleTyped ==
    ASSUME TypeOK, NEW f \in Feeds, SettleTick(f)
    PROVE  TypeOK'
<1>1. PICK closed \in SUBSET tick[f].trades, reduced \in SUBSET (tick[f].trades \ partial) :
        \E gain \in [closed \cup reduced -> Gains] : Settle(f, closed, reduced, gain)
  BY DEF SettleTick
<1>2. PICK gain \in [closed \cup reduced -> Gains] : Settle(f, closed, reduced, gain)
  BY <1>1
<1>3. closed \cup reduced \in SUBSET Trades
  BY TickTyped DEF SettleTick, Selecting
<1>4. \A p \in Profiles : Delta(p, gain) \in Int
  BY <1>3, DeltaTyped
<1>5. pnl' \in [Trades -> Int]
  <2>1. \A t \in closed \cup reduced : gain[t] \in Int
    BY LimitsAssumption
  <2>2. QED
    BY <1>2, <2>1 DEF Settle, TypeOK
<1>6. \A p \in Profiles : Loaded(f, p) \in Int
  BY TickTyped DEF Loaded, SettleTick, TypeOK
<1>7. balance' \in [Profiles -> Int]
  <2>1. \A p \in Profiles : OrmWrite(balance[p], Loaded(f, p), Delta(p, gain)) \in Int
    BY <1>4, <1>6 DEF OrmWrite, TypeOK
  <2>2. QED
    BY <1>2, <2>1 DEF Settle
<1>8. ledger' \in [Profiles -> Int]
  BY <1>2, <1>4 DEF Settle, TypeOK
<1>9. tick' \in [Feeds -> TickStates]
  BY <1>2 DEF Settle, TypeOK, TickStates
<1>10. QED
  BY <1>2, <1>3, <1>5, <1>7, <1>8, <1>9 DEF Settle, TypeOK

LEMMA OpenerStepTyped ==
    ASSUME TypeOK,
           \/ \E g \in Signals : Offer(g)
           \/ OpenerStep
           \/ OpenFails
    PROVE  TypeOK'
<1>1. ASSUME NEW g \in Signals, Offer(g) PROVE TypeOK'
  BY <1>1 DEF Offer, TypeOK, OpenerStates, rows
<1>2. ASSUME NEW p \in Profiles, Skip(p) PROVE TypeOK'
  BY <1>2, OpenerTyped DEF Skip, NextProfile, TypeOK, OpenerStates, rows
<1>3. ASSUME NEW p \in Profiles, ReadProfile(p) PROVE TypeOK'
  <2>1. balance[p] \in Int /\ opener.sig \in Signals /\ opener.todo \in SUBSET Profiles
    BY <1>3, OpenerTyped DEF ReadProfile, TypeOK
  <2>2. opener' \in OpenerStates
    BY <1>3, <2>1 DEF ReadProfile, OpenerStates
  <2>3. QED
    BY <1>3, <2>2 DEF ReadProfile, TypeOK, rows
<1>4. CASE Reject
  BY <1>4, OpenerTyped DEF Reject, NextProfile, TypeOK, OpenerStates, InSession, rows
<1>5. CASE Insert \/ Watch
  <2>1. /\ opener.sig \in Signals /\ opener.prof \in Profiles
        /\ opener.todo \in SUBSET Profiles /\ opener.loaded \in Int
    BY <1>5, OpenerTyped DEF Insert, Watch, InSession
  <2>2. opener' \in OpenerStates
    BY <1>5, <2>1 DEF Insert, Watch, HoldLock, OpenerStates
  <2>3. openSymbols' \subseteq Symbols
    BY <1>5, <2>1, SetsAssumption DEF Insert, Watch, TypeOK
  <2>4. QED
    BY <1>5, <2>2, <2>3 DEF Insert, Watch, TypeOK, rows
<1>6. CASE CommitOpen
  <2>1. /\ opener.sig \in Signals /\ opener.prof \in Profiles
        /\ opener.todo \in SUBSET Profiles /\ opener.loaded \in Int
        /\ <<opener.sig, opener.prof>> \in Trades
    BY <1>6, OpenerTyped DEF CommitOpen, InSession, Trades
  <2>2. opener' \in OpenerStates
    BY <1>6, <2>1 DEF CommitOpen, NextProfile, OpenerStates
  <2>3. ChargedBalance(opener.prof) \in Int /\ EntryFee \in Int
    BY <2>1, LimitsAssumption DEF ChargedBalance, OrmWrite, TypeOK
  <2>4. /\ status' = [status EXCEPT ![<<opener.sig, opener.prof>>] = "OPEN"]
        /\ pnl' = [pnl EXCEPT ![<<opener.sig, opener.prof>>] = -EntryFee]
        /\ balance' = [balance EXCEPT ![opener.prof] = ChargedBalance(opener.prof)]
        /\ ledger' = [ledger EXCEPT ![opener.prof] = @ - EntryFee]
    BY <1>6 DEF CommitOpen
  <2>5. /\ status' \in [Trades -> {"NONE", "OPEN", "CLOSED"}]
        /\ pnl' \in [Trades -> Int]
        /\ balance' \in [Profiles -> Int]
        /\ ledger' \in [Profiles -> Int]
    <3>1. status \in [Trades -> {"NONE", "OPEN", "CLOSED"}] /\ pnl \in [Trades -> Int]
      BY DEF TypeOK
    <3>2. balance \in [Profiles -> Int] /\ ledger \in [Profiles -> Int]
      BY DEF TypeOK
    <3>3. -EntryFee \in Int
      BY <2>3
    <3>4. \A p \in Profiles : ledger[p] - EntryFee \in Int
      BY <2>3, <3>2
    <3>5. status' \in [Trades -> {"NONE", "OPEN", "CLOSED"}] /\ pnl' \in [Trades -> Int]
      BY <2>4, <3>1, <3>3
    <3>6. balance' \in [Profiles -> Int] /\ ledger' \in [Profiles -> Int]
      BY <2>3, <2>4, <3>2, <3>4
    <3>7. QED
      BY <3>5, <3>6
  <2>6. QED
    BY <1>6, <2>1, <2>2, <2>5 DEF CommitOpen, TypeOK
<1>7. CASE Done \/ OpenFails
  BY <1>7 DEF Done, OpenFails, TypeOK, OpenerStates, rows
<1>8. QED
  BY <1>1, <1>2, <1>3, <1>4, <1>5, <1>6, <1>7 DEF OpenerStep

LEMMA TypeNext == TypeOK /\ [Next]_vars => TypeOK'
<1> SUFFICES ASSUME TypeOK, [Next]_vars PROVE TypeOK'
  OBVIOUS
<1>1. CASE (\E g \in Signals : Offer(g)) \/ OpenerStep \/ OpenFails
  BY <1>1, OpenerStepTyped
<1>2. ASSUME NEW f \in Feeds,
             (\E s \in Symbols : Arrive(f, s)) \/ TickSelect(f) \/ LoadProfile(f)
               \/ TickTimeout(f)
      PROVE  TypeOK'
  <2>1. PICK v \in TickStates :
          /\ tick' = [tick EXCEPT ![f] = v]
          /\ openSymbols' \subseteq openSymbols
    <3>1. CASE (\E s \in Symbols : Arrive(f, s)) \/ SelectNone(f) \/ TickTimeout(f)
      BY <3>1 DEF Arrive, SelectNone, TickTimeout, TickStates
    <3>2. CASE SelectRows(f)
      <4>1. tick[f].sym \in Symbols /\ OpenRows(tick[f].sym) \in SUBSET Trades
        BY <3>2, TickTyped DEF SelectRows, OpenRows, OpenTrades
      <4>2. QED
        BY <3>2, <4>1 DEF SelectRows, TickStates
    <3>3. CASE LoadProfile(f)
      <4>1. tick[f].sym \in Symbols /\ tick[f].trades \in SUBSET Trades
        BY <3>3, TickTyped DEF LoadProfile, Selecting
      <4>2. PICK t \in tick[f].trades :
              tick' = [tick EXCEPT ![f] =
                        [pc |-> "loaded", sym |-> tick[f].sym, trades |-> tick[f].trades,
                         prof |-> ProfileOf(t), loaded |-> balance[ProfileOf(t)]]]
        BY <3>3 DEF LoadProfile
      <4>3. ProfileOf(t) \in Profiles /\ balance[ProfileOf(t)] \in Int
        BY <4>1 DEF Trades, ProfileOf, TypeOK
      <4>4. QED
        BY <3>3, <4>1, <4>2, <4>3 DEF LoadProfile, TickStates
    <3>4. QED
      BY <1>2, <3>1, <3>2, <3>3 DEF TickSelect
  <2>2. UNCHANGED <<rows, balance, offered, opener, reset, ledger>>
    BY <1>2 DEF Arrive, TickSelect, SelectNone, SelectRows, LoadProfile, TickTimeout
  <2>3. QED
    BY <2>1, <2>2 DEF TypeOK, rows
<1>3. ASSUME NEW f \in Feeds, SettleTick(f) PROVE TypeOK'
  BY <1>3, SettleTyped
<1>4. CASE (\E p \in ResetProfiles : ResetCheck(p)) \/ ResetRead \/ ResetTimeout
  <2>1. reset' \in ResetStates
    BY <1>4, SetsAssumption
       DEF ResetCheck, ResetRead, ResetTimeout, TypeOK, ResetStates, Idle
  <2>2. QED
    BY <1>4, <2>1 DEF ResetCheck, ResetRead, ResetTimeout, TypeOK, rows
<1>5. CASE ResetWrite
  <2>1. reset.prof \in Profiles
    BY <1>5 DEF ResetWrite, TypeOK, ResetStates, Idle
  <2>2. Initial[reset.prof] \in Int
    BY <2>1, LimitsAssumption
  <2>3. QED
    BY <1>5, <2>1, <2>2 DEF ResetWrite, TypeOK, ResetStates, rows
<1>6. CASE Midnight \/ UNCHANGED vars
  BY <1>6 DEF Midnight, vars, TypeOK
<1>7. CASE Restart
  <2>1. openSymbols' \subseteq Symbols
    BY <1>7, SetsAssumption DEF Restart, OpenTrades, Trades, MarketOf
  <2>2. QED
    BY <1>7, <2>1 DEF Restart, TypeOK, OpenerStates, TickStates, ResetStates, rows
<1>8. QED
  BY <1>1, <1>2, <1>3, <1>4, <1>5, <1>6, <1>7 DEF Next

\* Every variable keeps its type, the balances and the histories of fees and
\* gains included, for any set of trades and any amounts.
THEOREM TypeCorrect == Spec => []TypeOK
BY TypeInit, TypeNext, PTL DEF Spec

\* The trades a tick has selected are open and its own until it commits.
THEOREM TicksOwnTheirTrades == Spec => []TickOwnsItsTrades
<1>1. Spec => []IInv
  BY InitIInv, NextIInv, PTL DEF Spec
<1>2. IInv => TickOwnsItsTrades
  BY DEF IInv
<1>3. QED
  BY <1>1, <1>2, PTL
-----------------------------------------------------------------------------
(* The daily loss *)

HoldsLock == {"inserted", "watched"}

\* The session that inserts a trade still finds its profile above the loss it
\* may have in a day: the trades of the day settle under the lock it holds.
LossAsChecked ==
    opener.pc \in HoldsLock =>
        RealizedToday(opener.prof) > -MaxDailyLoss[opener.prof]

LEMMA RealizedKept ==
    ASSUME UNCHANGED <<pnl, today>>
    PROVE  \A p : RealizedToday(p)' = RealizedToday(p)
BY DEF RealizedToday, ProfileOf

LEMMA RealizedTyped ==
    ASSUME TypeOK, NEW p
    PROVE  RealizedToday(p) \in Int
<1> DEFINE S == {t \in today : ProfileOf(t) = p}
<1>1. S \subseteq Trades /\ \A t \in S : pnl[t] \in Int
  BY DEF TypeOK
<1>2. IsFiniteSet(S)
  BY <1>1, TradesFinite, FS_Subset
<1>3. SumOver(pnl, S) \in Int
  BY <1>1, <1>2, SumIsInt
<1>4. QED
  BY <1>3 DEF RealizedToday

\* A limit of nothing at all would be passed by midnight itself, which sets what
\* the day has brought to zero.
LEMMA LossNext ==
    ASSUME \A p \in Profiles : MaxDailyLoss[p] > 0,
           TypeOK, LossAsChecked, [Next]_vars
    PROVE  LossAsChecked'
<1>1. CASE Insert
  <2>1. /\ opener.prof \in Profiles /\ opener'.prof = opener.prof
        /\ UNCHANGED <<pnl, today>>
    BY <1>1, OpenerTyped DEF Insert, HoldLock, InSession, rows
  <2>2. RealizedToday(opener.prof) > -MaxDailyLoss[opener.prof]
    BY <1>1, <2>1, RealizedTyped, LimitsAssumption DEF Insert, Refused
  <2>3. RealizedToday(opener.prof)' = RealizedToday(opener.prof)
    BY <2>1, RealizedKept
  <2>4. QED
    BY <2>1, <2>2, RealizedKept DEF LossAsChecked, RealizedToday
<1>2. CASE Watch
  <2>1. /\ opener.pc \in HoldsLock /\ opener'.prof = opener.prof
        /\ UNCHANGED <<pnl, today>>
    BY <1>2 DEF Watch, HoldLock, HoldsLock, rows
  <2>2. QED
    BY <2>1 DEF LossAsChecked, RealizedToday
<1>3. CASE Midnight
  <2>1. CASE opener.pc \in HoldsLock
    <3>1. opener'.prof = opener.prof /\ opener.prof \in Profiles /\ today' = {}
      BY <1>3, <2>1, OpenerTyped DEF Midnight, InSession, HoldsLock
    <3>2. RealizedToday(opener.prof)' = SumOver(pnl', {})
      <4>1. {t \in today' : ProfileOf(t) = opener'.prof} = {}
        BY <3>1
      <4>2. QED
        BY <4>1 DEF RealizedToday, ProfileOf
    <3>3. RealizedToday(opener.prof)' = 0
      BY <3>2, SumEmpty
    <3>4. MaxDailyLoss[opener.prof] \in Nat /\ MaxDailyLoss[opener.prof] > 0
      BY <3>1, LimitsAssumption
    <3>5. QED
      BY <3>1, <3>3, <3>4 DEF LossAsChecked
  <2>2. QED
    BY <1>3, <2>1 DEF Midnight, LossAsChecked
<1>4. CASE opener'.pc \notin HoldsLock
  BY <1>4 DEF LossAsChecked
<1>5. CASE UNCHANGED <<pnl, today, opener>>
  <2>1. /\ opener'.pc = opener.pc /\ opener'.prof = opener.prof
        /\ UNCHANGED <<pnl, today>>
    BY <1>5
  <2>2. QED
    BY <2>1 DEF LossAsChecked, RealizedToday, HoldsLock
<1>6. ASSUME NEW f \in Feeds, SettleTick(f) PROVE opener'.pc \notin HoldsLock
  BY <1>6 DEF SettleTick, Settle, WriteLockFree, HoldsLock
<1>7. CASE (\E g \in Signals : Offer(g)) \/ (\E p \in Profiles : Skip(p) \/ ReadProfile(p))
             \/ Reject \/ CommitOpen \/ Done \/ OpenFails \/ Restart
  <2>1. opener'.pc \in {"idle", "check", "read"}
    <3>1. ASSUME NEW p \in Profiles, Skip(p) \/ ReadProfile(p)
          PROVE  opener'.pc \in {"check", "read"}
      BY <3>1 DEF Skip, ReadProfile, NextProfile
    <3>2. ASSUME NEW g \in Signals, Offer(g) PROVE opener'.pc = "check"
      BY <3>2 DEF Offer
    <3>3. Reject \/ CommitOpen => opener'.pc = "check"
      BY DEF Reject, CommitOpen, NextProfile
    <3>4. Done \/ OpenFails \/ Restart => opener'.pc = "idle"
      BY DEF Done, OpenFails, Restart, Idle
    <3>5. QED
      BY <1>7, <3>1, <3>2, <3>3, <3>4
  <2>2. QED
    BY <1>4, <2>1 DEF HoldsLock
<1>8. CASE \/ \E f \in Feeds : \/ \E s \in Symbols : Arrive(f, s)
                               \/ TickSelect(f) \/ LoadProfile(f) \/ TickTimeout(f)
           \/ \E p \in ResetProfiles : ResetCheck(p)
           \/ ResetRead \/ ResetWrite \/ ResetTimeout \/ UNCHANGED vars
  BY <1>5, <1>8
     DEF Arrive, TickSelect, SelectNone, SelectRows, LoadProfile, TickTimeout,
         ResetCheck, ResetRead, ResetWrite, ResetTimeout, vars, rows
<1>9. QED
  BY <1>1, <1>2, <1>3, <1>4, <1>6, <1>7, <1>8 DEF Next, OpenerStep

\* A step that opens a trade is the commit of the session that checked it.
LEMMA OpensByCommit ==
    ASSUME TypeOK, [Next]_vars, NEW p \in Profiles, OpenOf(p)' \ OpenOf(p) # {}
    PROVE  CommitOpen /\ opener.prof = p
<1>1. PICK t \in Trades : status'[t] = "OPEN" /\ status[t] # "OPEN" /\ ProfileOf(t) = p
  BY DEF OpenOf, OpenTrades
<1>2. ASSUME NEW f \in Feeds, SettleTick(f) PROVE FALSE
  BY <1>1, <1>2 DEF SettleTick, Settle
<1>3. CASE CommitOpen
  BY <1>1, <1>3 DEF CommitOpen, TypeOK, ProfileOf
<1>4. CASE ~CommitOpen /\ ~(\E f \in Feeds : SettleTick(f))
  BY <1>1, <1>4
     DEF Next, vars, rows, OpenerStep, TickSelect, Offer, Skip, ReadProfile, Reject,
         Insert, Watch, Done, OpenFails, Arrive, SelectNone, SelectRows, LoadProfile,
         TickTimeout, ResetCheck, ResetRead, ResetWrite, ResetTimeout, Midnight, Restart
<1>5. QED
  BY <1>2, <1>3, <1>4

\* As long as every profile may lose something in a day: no trade opens on a
\* profile that has used up its daily loss, whatever settles between the check
\* and the commit, and also over midnight.
THEOREM DailyLoss ==
    ASSUME \A p \in Profiles : MaxDailyLoss[p] > 0
    PROVE  Spec => OpensWithinDailyLoss
<1> DEFINE A == \A p \in Profiles : OpenOf(p)' \ OpenOf(p) # {}
                  => RealizedToday(p) > -MaxDailyLoss[p]
           I == TypeOK /\ LossAsChecked
<1>1. Init => I
  BY TypeInit DEF Init, Idle, LossAsChecked, HoldsLock
<1>2. I /\ [Next]_vars => I'
  BY TypeNext, LossNext
<1>3. I /\ [Next]_vars => [A]_vars
  BY OpensByCommit DEF CommitOpen, LossAsChecked, HoldsLock
<1>4. QED
  BY <1>1, <1>2, <1>3, PTL DEF Spec, OpensWithinDailyLoss
-----------------------------------------------------------------------------
(* The balances and the history of what was booked on them *)

\* A write from the value the row still has adds exactly its delta.
LEMMA FreshWrite ==
    ASSUME NEW now \in Int, NEW delta \in Int
    PROVE  OrmWrite(now, now, delta) = now + delta
BY DEF OrmWrite

LEMMA CommitGap ==
    ASSUME TypeOK, CommitOpen, NEW p \in Profiles, ~StaleWriter(p)
    PROVE  Gap(p)' = Gap(p)
<1>1. /\ balance' = [balance EXCEPT ![opener.prof] = ChargedBalance(opener.prof)]
      /\ ledger' = [ledger EXCEPT ![opener.prof] = @ - EntryFee]
      /\ balance \in [Profiles -> Int] /\ ledger \in [Profiles -> Int]
      /\ EntryFee \in Nat /\ -EntryFee \in Int
  BY LimitsAssumption DEF CommitOpen, TypeOK
<1>2. CASE p # opener.prof
  BY <1>1, <1>2 DEF Gap
<1>3. CASE p = opener.prof
  <2>1. opener.loaded = balance[p]
    BY <1>3 DEF StaleWriter, CommitOpen
  <2>2. ChargedBalance(opener.prof) = balance[p] + (-EntryFee)
    BY <1>1, <1>3, <2>1, FreshWrite DEF ChargedBalance
  <2>3. balance'[p] = balance[p] - EntryFee /\ ledger'[p] = ledger[p] - EntryFee
    BY <1>1, <1>3, <2>2
  <2>4. balance[p] \in Int /\ ledger[p] \in Int
    BY <1>1
  <2>5. QED
    BY <1>1, <2>3, <2>4 DEF Gap
<1>4. QED
  BY <1>2, <1>3

LEMMA SettleGap ==
    ASSUME TypeOK, NEW f \in Feeds, SettleTick(f), NEW p \in Profiles, ~StaleWriter(p)
    PROVE  Gap(p)' = Gap(p)
<1>1. PICK closed \in SUBSET tick[f].trades, reduced \in SUBSET (tick[f].trades \ partial) :
        \E gain \in [closed \cup reduced -> Gains] : Settle(f, closed, reduced, gain)
  BY DEF SettleTick
<1>2. PICK gain \in [closed \cup reduced -> Gains] : Settle(f, closed, reduced, gain)
  BY <1>1
<1>3. closed \cup reduced \in SUBSET Trades
  BY TickTyped DEF SettleTick, Selecting
<1>4. Delta(p, gain) \in Int
  BY <1>3, DeltaTyped
<1>5. balance[p] \in Int /\ ledger[p] \in Int
  BY DEF TypeOK
<1>6. Loaded(f, p) = balance[p]
  BY DEF Loaded, StaleWriter, SettleTick
<1>7. balance'[p] = balance[p] + Delta(p, gain) /\ ledger'[p] = ledger[p] + Delta(p, gain)
  BY <1>2, <1>4, <1>5, <1>6, FreshWrite DEF Settle
<1>8. QED
  BY <1>4, <1>5, <1>7 DEF Gap

\* A reset either puts both on the initial balance or leaves both alone.
LEMMA ResetGap ==
    ASSUME TypeOK, ResetWrite, NEW p \in Profiles
    PROVE  Gap(p)' \in {0, Gap(p)}
<1> DEFINE wrote == reset.loaded # Initial[reset.prof]
<1>1. /\ balance' = [balance EXCEPT ![reset.prof] = IF wrote THEN Initial[reset.prof] ELSE @]
      /\ ledger' = [ledger EXCEPT ![reset.prof] = IF wrote THEN Initial[reset.prof] ELSE @]
      /\ balance \in [Profiles -> Int] /\ ledger \in [Profiles -> Int]
  BY DEF ResetWrite, TypeOK
<1>2. CASE p = reset.prof /\ wrote
  <2>1. balance'[p] = Initial[p] /\ ledger'[p] = Initial[p] /\ Initial[p] \in Int
    <3>1. Initial[p] \in Int
      BY LimitsAssumption
    <3>2. QED
      BY <1>1, <1>2, <3>1
  <2>2. QED
    BY <2>1 DEF Gap
<1>3. CASE ~(p = reset.prof /\ wrote)
  <2>1. balance'[p] = balance[p] /\ ledger'[p] = ledger[p]
    BY <1>1, <1>3
  <2>2. QED
    BY <2>1 DEF Gap
<1>4. QED
  BY <1>2, <1>3

\* A balance departs from what was booked on it only where a session writes one
\* it loaded before another session's write.
THEOREM Drift == Spec => DriftOnlyFromStaleRead
<1> DEFINE A == \A p \in Profiles : Gap(p)' \notin {0, Gap(p)} => StaleWriter(p)
<1>1. TypeOK /\ [Next]_vars => [A]_vars
  <2> SUFFICES ASSUME TypeOK, [Next]_vars, NEW p \in Profiles, ~StaleWriter(p)
               PROVE  Gap(p)' \in {0, Gap(p)}
    OBVIOUS
  <2>1. CASE CommitOpen
    BY <2>1, CommitGap
  <2>2. ASSUME NEW f \in Feeds, SettleTick(f) PROVE Gap(p)' \in {0, Gap(p)}
    BY <2>2, SettleGap
  <2>3. CASE ResetWrite
    BY <2>3, ResetGap
  <2>4. CASE UNCHANGED <<balance, ledger>>
    BY <2>4 DEF Gap
  <2>5. QED
    BY <2>1, <2>2, <2>3, <2>4
       DEF Next, vars, rows, OpenerStep, TickSelect, Offer, Skip, ReadProfile, Reject,
           Insert, Watch, Done, OpenFails, Arrive, SelectNone, SelectRows, LoadProfile,
           TickTimeout, ResetCheck, ResetRead, ResetTimeout, Midnight, Restart
<1>2. QED
  BY TypeInit, TypeNext, <1>1, PTL DEF Spec, DriftOnlyFromStaleRead
=============================================================================

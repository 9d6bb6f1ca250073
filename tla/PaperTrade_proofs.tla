-------------------------- MODULE PaperTrade_proofs --------------------------
(* Proofs about PaperTrade for every entry, percentage, feed and settings. *)
EXTENDS PaperTrade, TLAPS

\* A percentage of a price that is at most 100 does not exceed the price, and
\* one of at least 100 does not fall below it.
LEMMA PctBounds ==
    ASSUME NEW x \in Nat, NEW p \in Nat
    PROVE  /\ Pct(x, p) \in Nat
           /\ p <= 100 => Pct(x, p) <= x
           /\ p >= 100 => Pct(x, p) >= x
<1>1. x * p \in Nat
  OBVIOUS
<1>2. (p <= 100 => x * p <= x * 100) /\ (p >= 100 => x * p >= x * 100)
  OBVIOUS
<1>3. QED
  BY <1>1, <1>2 DEF Pct

\* Reaching any multiple of the risk means being at the entry or better.
LEMMA ReachedIsFavourable ==
    ASSUME NEW price \in Nat \ {0}, NEW rr \in Nat, dir \in {"LONG", "SHORT"},
           RRReached(price, rr)
    PROVE  AtOrBeyond(price, Entry)
<1>1. rr * StopPct * Entry >= 0 /\ rr * StopPct * price >= 0
  BY PlanAssumption
<1>2. CASE dir = "LONG"
  BY <1>1, <1>2, PlanAssumption DEF RRReached, AtOrBeyond
<1>3. CASE dir = "SHORT"
  BY <1>1, <1>3, PlanAssumption DEF RRReached, AtOrBeyond
<1>4. QED
  BY <1>2, <1>3

\* Where the plan puts the two ends of the bracket.
LEMMA PlanFacts ==
    ASSUME dir \in {"LONG", "SHORT"}
    PROVE  /\ Entry \in Nat
           /\ take \in Int /\ PlannedStop(dir) \in Int
           /\ Pct(Entry, StopPct) \in Nat
           /\ ~AtOrBeyond(Entry, take)
           /\ AtOrBeyond(Entry, PlannedStop(dir))
<1>1. /\ Entry \in Nat
      /\ Pct(Entry, StopPct) \in Nat
      /\ Pct(Entry, TakePct) \in Nat \ {0}
  BY PlanAssumption, PctBounds DEF Pct
<1>2. QED
  BY <1>1 DEF take, PlannedStop, AtOrBeyond

\* Better picks one of its arguments, and never the worse one.
LEMMA BetterFacts ==
    ASSUME NEW p \in Int, NEW q \in Int, dir \in {"LONG", "SHORT"}
    PROVE  /\ Better(p, q) \in {p, q}
           /\ AtOrBeyond(Better(p, q), p)
           /\ AtOrBeyond(Better(p, q), q)
BY DEF Better, AtOrBeyond

\* The trailing stop hangs behind the watermark it is measured from.
LEMMA TrailBehindMark ==
    ASSUME NEW mark \in Nat, dir \in {"LONG", "SHORT"}, cfg \in Config
    PROVE  TrailFrom(mark) \in Nat /\ AtOrBeyond(mark, TrailFrom(mark))
<1>1. cfg.distance \in 0..100
  BY DEF Config
<1>2. 100 - cfg.distance \in Nat /\ 100 - cfg.distance <= 100
  BY <1>1
<1>3. 100 + cfg.distance \in Nat /\ 100 + cfg.distance >= 100
  BY <1>1
<1>4. QED
  BY <1>2, <1>3, PctBounds DEF TrailFrom, AtOrBeyond

\* What a tick does to the stop: it does not loosen it, and while neither the
\* tick nor anything before it has reached the take price, nor does the stop.
LEMMA StopMove ==
    ASSUME TypeOK, NEW price \in Prices
    PROVE  /\ TrailedStop(price) \in Int
           /\ AtOrBeyond(TrailedStop(price), stop)
           /\ (/\ ~AtOrBeyond(stop, take)
               /\ ~AtOrBeyond(watermark, take)
               /\ ~AtOrBeyond(price, take)) => ~AtOrBeyond(TrailedStop(price), take)
<1> DEFINE mark == Better(watermark, price)
           trail == TrailFrom(mark)
           floor == Better(Entry, trail)
           even == BreakevenStop(price)
<1>1. /\ dir \in {"LONG", "SHORT"} /\ stop \in Int /\ cfg \in Config
      /\ price \in Nat \ {0} /\ watermark \in Nat /\ Entry \in Nat /\ take \in Int
  BY PlanFacts, FeedAssumption DEF TypeOK
<1>2. mark \in {watermark, price}
  BY <1>1, BetterFacts
<1>3. trail \in Nat /\ AtOrBeyond(mark, trail)
  BY <1>1, <1>2, TrailBehindMark
<1>4. floor \in {Entry, trail}
  BY <1>1, <1>3, BetterFacts
<1>5. even \in {stop, Entry} /\ AtOrBeyond(even, stop)
  BY <1>1, BetterFacts DEF BreakevenStop, AtOrBeyond
<1>6. TrailedStop(price) \in {even, floor} /\ AtOrBeyond(TrailedStop(price), even)
  <2>1. TrailedStop(price) \in {even, Better(even, floor)}
    BY DEF TrailedStop
  <2>2. even \in Int /\ floor \in Int
    BY <1>1, <1>3, <1>4, <1>5
  <2>3. Better(even, floor) \in {even, floor} /\ AtOrBeyond(Better(even, floor), even)
    BY <1>1, <2>2, BetterFacts
  <2>4. QED
    BY <1>1, <2>1, <2>2, <2>3 DEF AtOrBeyond
<1>7. TrailedStop(price) \in Int /\ AtOrBeyond(TrailedStop(price), stop)
  BY <1>1, <1>3, <1>4, <1>5, <1>6 DEF AtOrBeyond
<1>8. ASSUME ~AtOrBeyond(stop, take), ~AtOrBeyond(watermark, take), ~AtOrBeyond(price, take)
      PROVE  ~AtOrBeyond(TrailedStop(price), take)
  <2>1. ~AtOrBeyond(Entry, take)
    BY <1>1, PlanFacts
  <2>2. ~AtOrBeyond(trail, take)
    BY <1>1, <1>2, <1>3, <1>8 DEF AtOrBeyond
  <2>3. QED
    BY <1>4, <1>5, <1>6, <1>8, <2>1, <2>2
<1>9. QED
  BY <1>7, <1>8

\* What closing part of the position at a price books, by where the price is.
LEMMA GainBounds ==
    ASSUME NEW exit \in Int, NEW size \in 0..100, dir \in {"LONG", "SHORT"}
    PROVE  /\ Gain(exit, size) \in Int
           /\ AtOrBeyond(exit, Entry) => Gain(exit, size) >= 0
           /\ (size > 0 /\ exit = take) => Gain(exit, size) > 0
           /\ AtOrBeyond(exit, PlannedStop(dir))
                => Gain(exit, size) >= -100 * Pct(Entry, StopPct)
<1> DEFINE move == IF dir = "LONG" THEN exit - Entry ELSE Entry - exit
           risk == Pct(Entry, StopPct)
<1>1. /\ Entry \in Nat /\ risk \in Nat /\ move \in Int /\ take \in Int
      /\ ~AtOrBeyond(Entry, take)
  BY PlanFacts
<1>2. Gain(exit, size) = move * size
  BY DEF Gain
<1>3. AtOrBeyond(exit, Entry) => move >= 0
  BY <1>1 DEF AtOrBeyond
<1>4. exit = take => move > 0
  BY <1>1 DEF AtOrBeyond
<1>5. AtOrBeyond(exit, PlannedStop(dir)) => move >= -risk
  BY <1>1 DEF AtOrBeyond, PlannedStop
<1>6. \A m \in Int, n \in 0..100, r \in Nat :
        /\ m * n \in Int
        /\ m >= 0 => m * n >= 0
        /\ (m > 0 /\ n > 0) => m * n > 0
        /\ m >= -r => m * n >= -100 * r
  <2> TAKE m \in Int, n \in 0..100, r \in Nat
  <2>1. m * n \in Int /\ (m >= 0 => m * n >= 0) /\ ((m > 0 /\ n > 0) => m * n > 0)
    OBVIOUS
  <2>2. ASSUME m >= -r PROVE m * n >= -100 * r
    <3>1. m * n >= (-r) * n
      BY <2>2
    <3>2. r * n <= r * 100
      OBVIOUS
    <3>3. QED
      BY <3>1, <3>2
  <2>3. QED
    BY <2>1, <2>2
<1>7. QED
  BY <1>1, <1>2, <1>3, <1>4, <1>5, <1>6

\* A partial close leaves a size between nothing and all, and banks no loss.
LEMMA PartialStep ==
    ASSUME TypeOK, NEW price \in Prices
    PROVE  /\ Left(price) \in 0..100
           /\ Left(price) <= remaining
           /\ Banked(price) \in Int
           /\ Banked(price) >= gain
<1> DEFINE share == Pct(remaining, FirstTpPct)
<1>1. /\ remaining \in 0..100 /\ gain \in Int /\ price \in Nat \ {0}
      /\ dir \in {"LONG", "SHORT"} /\ FirstTpPct \in 0..100 /\ FirstTargetRR \in Nat
  BY PartialAssumption, FeedAssumption DEF TypeOK
<1>2. share \in Nat /\ share <= remaining
  <2>1. remaining \in Nat /\ FirstTpPct \in Nat /\ FirstTpPct <= 100
    BY <1>1
  <2>2. QED
    BY <2>1, PctBounds
<1>3. CASE PartialDue(price)
  <2>1. AtOrBeyond(price, Entry)
    BY <1>1, <1>3, ReachedIsFavourable DEF PartialDue
  <2>2. Gain(price, share) \in Int /\ Gain(price, share) >= 0
    <3>1. price \in Int /\ share \in 0..100
      BY <1>1, <1>2
    <3>2. QED
      BY <1>1, <2>1, <3>1, GainBounds
  <2>3. QED
    BY <1>1, <1>2, <1>3, <2>2 DEF Left, Banked
<1>4. CASE ~PartialDue(price)
  BY <1>1, <1>4 DEF Left, Banked
<1>5. QED
  BY <1>3, <1>4

-----------------------------------------------------------------------------
LEMMA TypeInit == Init => TypeOK
<1> SUFFICES ASSUME Init PROVE TypeOK
  OBVIOUS
<1>1. stop \in Int /\ Entry \in Nat
  BY PlanFacts DEF Init
<1>2. partial \in BOOLEAN /\ cfg \in Configs /\ dir \in {"LONG", "SHORT"}
  BY Zenon DEF Init
<1>3. watermark \in Nat /\ remaining \in 0..100 /\ gain \in Int
  BY <1>1 DEF Init
<1>4. status \in {"OPEN"} \cup Closed
  BY DEF Init
<1>5. QED
  BY <1>1, <1>2, <1>3, <1>4 DEF TypeOK

\* Every variable keeps its type, whatever the configuration.
THEOREM TypeCorrect == Spec => []TypeOK
<1>1. Init => TypeOK
  BY TypeInit
<1>2. TypeOK /\ [Next]_vars => TypeOK'
  <2> SUFFICES ASSUME TypeOK, [Next]_vars PROVE TypeOK'
    OBVIOUS
  <2>1. ASSUME NEW price \in Prices, NEW age \in Ages, Tick(price, age)
        PROVE  TypeOK'
    <3>1. /\ dir' = dir /\ cfg' = cfg /\ stop' = TrailedStop(price)
          /\ watermark' = Better(watermark, price) /\ partial' = (partial \/ PartialDue(price))
      BY <2>1 DEF Tick, Expire, TakeProfit, StopOut, Hold, Manage
    <3>2. stop' \in Int
      BY <3>1, StopMove
    <3>3. watermark' \in Nat
      BY <3>1, BetterFacts, FeedAssumption DEF TypeOK
    <3>4. partial' \in BOOLEAN
      BY <3>1, Zenon DEF TypeOK, PartialDue
    <3>5. /\ \A t \in Int : Gain(t, Left(price)) \in Int
          /\ Left(price) \in 0..100 /\ Banked(price) \in Int
      BY PartialStep, GainBounds DEF TypeOK
    <3>6. price \in Int /\ take \in Int /\ TrailedStop(price) \in Int
      BY FeedAssumption, PlanFacts, StopMove DEF TypeOK
    <3>7. remaining' \in 0..100 /\ gain' \in Int /\ status' \in {"OPEN"} \cup Closed
      BY <2>1, <3>5, <3>6 DEF Tick, Expire, TakeProfit, StopOut, Hold, Close, TypeOK, Closed
    <3>8. QED
      BY <3>1, <3>2, <3>3, <3>4, <3>7 DEF TypeOK
  <2>2. CASE Reconfigure
    BY <2>2 DEF Reconfigure, TypeOK
  <2>3. CASE UNCHANGED vars
    BY <2>3 DEF vars, TypeOK
  <2>4. QED
    BY <2>1, <2>2, <2>3 DEF Next
<1>3. QED
  BY <1>1, <1>2, PTL DEF Spec

\* The stop ratchets: no tick and no change of settings ever loosens it.
THEOREM StopRatchet == Spec => StopOnlyTightens
<1>1. TypeOK /\ [Next]_vars => [AtOrBeyond(stop', stop)]_vars
  <2> SUFFICES ASSUME TypeOK, Next PROVE AtOrBeyond(stop', stop)
    OBVIOUS
  <2>1. ASSUME NEW price \in Prices, NEW age \in Ages, Tick(price, age)
        PROVE  AtOrBeyond(stop', stop)
    <3>1. stop' = TrailedStop(price)
      BY <2>1 DEF Tick, Expire, TakeProfit, StopOut, Hold, Manage
    <3>2. QED
      BY <3>1, StopMove
  <2>2. CASE Reconfigure
    BY <2>2 DEF Reconfigure, TypeOK, AtOrBeyond
  <2>3. QED
    BY <2>1, <2>2 DEF Next
<1>2. QED
  BY <1>1, TypeCorrect, PTL DEF Spec, StopOnlyTightens

-----------------------------------------------------------------------------
\* A first target below 100 % leaves something to close.
LEMMA RestIsPositive ==
    ASSUME FirstTpPct < 100, TypeOK, SizeBooked, status = "OPEN", NEW price \in Prices
    PROVE  /\ Left(price) > 0
           /\ Left(price) = IF partial \/ PartialDue(price)
                            THEN 100 - Pct(100, FirstTpPct) ELSE 100
<1>1. Pct(100, FirstTpPct) = FirstTpPct /\ FirstTpPct \in 0..100
  BY PartialAssumption DEF Pct
<1>2. remaining = IF partial THEN 100 - Pct(100, FirstTpPct) ELSE 100
  BY DEF SizeBooked
<1>3. CASE PartialDue(price)
  BY <1>1, <1>2, <1>3 DEF Left, PartialDue
<1>4. CASE ~PartialDue(price)
  BY <1>1, <1>2, <1>4 DEF Left
<1>5. QED
  BY <1>3, <1>4

\* The strengthening that makes the three invariants inductive together: an
\* open trade has booked no loss yet and its stop is no worse than planned.
IInv ==
    /\ TypeOK
    /\ SizeBooked
    /\ BracketOrdered
    /\ status = "OPEN" => gain >= 0 /\ AtOrBeyond(stop, PlannedStop(dir))
    /\ ExitsMatchTheirName

LEMMA InitIInv == Init => IInv
<1> SUFFICES ASSUME Init PROVE IInv
  OBVIOUS
<1>1. TypeOK
  BY TypeInit
<1>2. Entry \in Int /\ take \in Int /\ ~AtOrBeyond(Entry, take)
      /\ PlannedStop(dir) \in Int /\ AtOrBeyond(Entry, PlannedStop(dir))
  BY PlanFacts DEF Init
<1>3. ~AtOrBeyond(stop, take) /\ ~AtOrBeyond(watermark, take)
  BY <1>2 DEF Init, AtOrBeyond
<1>4. AtOrBeyond(stop, PlannedStop(dir))
  BY <1>2 DEF Init, AtOrBeyond
<1>5. SizeBooked
  BY DEF Init, SizeBooked
<1>6. QED
  BY <1>1, <1>3, <1>4, <1>5 DEF Init, IInv, BracketOrdered, ExitsMatchTheirName

\* Every tick that closes the trade books at least the gain its name promises.
LEMMA TickIInv ==
    ASSUME FirstTpPct < 100, IInv, TypeOK', NEW price \in Prices, NEW age \in Ages,
           Tick(price, age)
    PROVE  IInv'
<1> DEFINE rest == Left(price)
           moved == TrailedStop(price)
<1>1. /\ status = "OPEN" /\ dir' = dir /\ cfg' = cfg /\ stop' = moved
      /\ watermark' = Better(watermark, price) /\ partial' = (partial \/ PartialDue(price))
  BY DEF Tick, Expire, TakeProfit, StopOut, Hold, Manage
<1>2. /\ dir \in {"LONG", "SHORT"} /\ stop \in Int /\ price \in Int /\ take \in Int
      /\ watermark \in Int /\ Entry \in Int /\ PlannedStop(dir) \in Int /\ gain \in Int
  BY PlanFacts, FeedAssumption DEF IInv, TypeOK
<1>3. take' = take /\ PlannedStop(dir') = PlannedStop(dir)
  BY <1>1 DEF take
<1>4. rest \in 1..100 /\ rest = IF partial \/ PartialDue(price)
                                THEN 100 - Pct(100, FirstTpPct) ELSE 100
  BY <1>1, RestIsPositive, PartialStep DEF IInv
<1>5. Banked(price) \in Int /\ Banked(price) >= 0
  BY <1>1, <1>2, PartialStep DEF IInv
<1>6. moved \in Int /\ AtOrBeyond(moved, stop) /\ AtOrBeyond(moved, PlannedStop(dir))
  <2>1. moved \in Int /\ AtOrBeyond(moved, stop)
    BY StopMove DEF IInv
  <2>2. AtOrBeyond(stop, PlannedStop(dir))
    BY <1>1 DEF IInv
  <2>3. QED
    BY <1>2, <2>1, <2>2 DEF AtOrBeyond
<1>7. CASE status' = "OPEN"
  <2>1. /\ ~AtOrBeyond(price, take) /\ remaining' = rest /\ gain' = Banked(price)
    BY <1>4, <1>7 DEF Tick, Expire, TakeProfit, StopOut, Hold, Close
  <2>2. ~AtOrBeyond(stop', take')
    BY <1>1, <1>3, <2>1, StopMove DEF IInv, BracketOrdered
  <2>3. ~AtOrBeyond(watermark', take')
    BY <1>1, <1>2, <1>3, <2>1, BetterFacts DEF IInv, BracketOrdered
  <2>4. BracketOrdered'
    BY <1>1, <2>2, <2>3 DEF BracketOrdered, AtOrBeyond
  <2>5. SizeBooked'
    <3>1. remaining' = IF partial' THEN 100 - Pct(100, FirstTpPct) ELSE 100
      BY <1>1, <1>4, <2>1, Zenon
    <3>2. QED
      BY <1>4, <1>7, <2>1, <3>1 DEF SizeBooked
  <2>6. gain' >= 0 /\ AtOrBeyond(stop, PlannedStop(dir))'
    BY <1>1, <1>3, <1>5, <1>6, <2>1 DEF AtOrBeyond
  <2>7. QED
    BY <1>7, <2>4, <2>5, <2>6 DEF IInv, ExitsMatchTheirName
<1>8. CASE status' # "OPEN"
  <2>1. remaining' = 0
    BY <1>1, <1>4, <1>8 DEF Tick, Expire, TakeProfit, StopOut, Hold, Close
  <2>2. SizeBooked' /\ BracketOrdered'
    BY <1>8, <2>1 DEF SizeBooked, BracketOrdered
  <2>3. CASE Expire(price, age)
    <3>1. status' = "EXPIRED"
      BY <1>4, <2>3 DEF Expire, Close
    <3>2. QED
      BY <2>2, <3>1 DEF IInv, ExitsMatchTheirName
  <2>4. CASE TakeProfit(price, age)
    <3>1. status' = "CLOSED_TP" /\ gain' = Banked(price) + Gain(take, rest)
      BY <1>4, <2>4 DEF TakeProfit, Close
    <3>2. Gain(take, rest) \in Int /\ Gain(take, rest) > 0
      <4>1. take \in Int /\ rest \in 0..100 /\ rest > 0
        BY <1>2, <1>4
      <4>2. QED
        BY <1>2, <4>1, GainBounds
    <3>3. gain' > 0
      BY <1>5, <3>1, <3>2
    <3>4. QED
      BY <2>2, <3>1, <3>3 DEF IInv, ExitsMatchTheirName
  <2>5. CASE StopOut(price, age)
    <3>1. status' = "CLOSED_SL" /\ gain' = Banked(price) + Gain(moved, rest)
      BY <1>4, <2>5 DEF StopOut, Close
    <3>2. /\ Gain(moved, rest) \in Int
          /\ Gain(moved, rest) >= -100 * Pct(Entry, StopPct)
          /\ AtOrBeyond(moved, Entry) => Gain(moved, rest) >= 0
      <4>1. moved \in Int /\ rest \in 0..100
        BY <1>4, <1>6
      <4>2. QED
        BY <1>2, <1>6, <4>1, GainBounds
    <3>3. Pct(Entry, StopPct) \in Nat
      BY <1>2, PlanFacts
    <3>4. /\ gain' >= -100 * Pct(Entry, StopPct)
          /\ AtOrBeyond(moved, Entry) => gain' >= 0
      BY <1>5, <3>1, <3>2, <3>3
    <3>5. AtOrBeyond(stop, Entry)' => AtOrBeyond(moved, Entry)
      BY <1>1 DEF AtOrBeyond
    <3>6. QED
      BY <2>2, <3>1, <3>4, <3>5, <1>8 DEF IInv, ExitsMatchTheirName
  <2>6. QED
    BY <1>1, <1>8, <2>3, <2>4, <2>5 DEF Tick, Hold
<1>9. QED
  BY <1>7, <1>8

\* The bracket, the size bookkeeping and the meaning of the closing statuses
\* hold for every configuration that leaves part of the position to run.
THEOREM TradeSafety ==
    ASSUME FirstTpPct < 100
    PROVE  Spec => [](SizeBooked /\ BracketOrdered /\ ExitsMatchTheirName)
<1>1. IInv /\ TypeOK' /\ [Next]_vars => IInv'
  <2> SUFFICES ASSUME IInv, TypeOK', [Next]_vars PROVE IInv'
    OBVIOUS
  <2>1. ASSUME NEW price \in Prices, NEW age \in Ages, Tick(price, age) PROVE IInv'
    BY <2>1, TickIInv
  <2>2. CASE Reconfigure
    BY <2>2 DEF Reconfigure, IInv, SizeBooked, BracketOrdered, ExitsMatchTheirName,
                AtOrBeyond, take, PlannedStop
  <2>3. CASE UNCHANGED vars
    BY <2>3 DEF vars, IInv, SizeBooked, BracketOrdered, ExitsMatchTheirName,
                AtOrBeyond, take, PlannedStop
  <2>4. QED
    BY <2>1, <2>2, <2>3 DEF Next
<1>2. IInv => SizeBooked /\ BracketOrdered /\ ExitsMatchTheirName
  BY DEF IInv
<1>3. QED
  BY <1>1, <1>2, InitIInv, TypeCorrect, PTL DEF Spec

\* A position is open exactly while something of it is left, and its partial
\* close has taken the planned share once.
THEOREM SizeIsBookedOnce ==
    ASSUME FirstTpPct < 100
    PROVE  Spec => []SizeBooked
BY TradeSafety, PTL
=============================================================================

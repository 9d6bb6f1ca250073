-------------------------- MODULE MarketData_proofs --------------------------
(***************************************************************************)
(* Proofs about BybitFeed, for any connections, levels, sizes and depths,  *)
(* about Density, for any keys, sizes, limits and number of events, and    *)
(* about FeatureStore, for any prices, windows, limits and late events.    *)
(***************************************************************************)
EXTENDS BybitFeed, Density, FeatureStore, FiniteSetTheorems, FunctionTheorems,
        SequenceTheorems, WellFoundedInduction, TLAPS

(* --------------------------- the order book feed ---------------------------- *)

(* Books *)

LEMMA BestIsBook ==
    ASSUME BookFeedAssumption, NEW b \in Books, NEW n \in Nat
    PROVE  Best(b, n) \in Books
BY DEF BookFeedAssumption, Best, Books

\* A book that has been cut to d levels a side is not changed by a wider cut.
LEMMA BestOfBest ==
    ASSUME BookFeedAssumption, NEW b \in Books, NEW d \in Nat, NEW n \in Nat, d <= n
    PROVE  Best(Best(b, d), n) = Best(b, d)
<1> DEFINE c == Best(b, d)
<1>1. c \in Books
  BY BestIsBook
<1>2. ASSUME NEW s \in Sides, NEW l \in Levels, c[s][l] # 0
      PROVE  Cardinality({m \in 1..l : c[s][m] > 0}) <= n
  <2> DEFINE B == {m \in 1..l : b[s][m] > 0}
             C == {m \in 1..l : c[s][m] > 0}
  <2>1. l \in 1..LastLevel /\ l \in Nat /\ LastLevel \in Nat
    BY DEF BookFeedAssumption, Levels
  <2>2. IsFiniteSet(B)
    <3>1. IsFiniteSet(1..l)
      BY <2>1, FS_Interval
    <3>2. B \subseteq 1..l
      OBVIOUS
    <3> HIDE DEF B
    <3>3. QED
      BY <3>1, <3>2, FS_Subset
  <2>3. C \subseteq B
    <3> SUFFICES ASSUME NEW m \in 1..l, c[s][m] > 0 PROVE b[s][m] > 0
      OBVIOUS
    <3>1. m \in Levels
      BY <2>1 DEF Levels
    <3>2. c[s][m] \in {0, b[s][m]}
      BY <3>1 DEF Best
    <3>3. QED
      BY <3>2
  <2>4. Cardinality(B) <= d
    BY <1>2 DEF Best
  <2>5. Cardinality(C) <= Cardinality(B) /\ Cardinality(C) \in Nat /\ Cardinality(B) \in Nat
    BY <2>2, <2>3, FS_Subset, FS_CardinalityType
  <2>6. Cardinality(C) <= n
    BY <2>4, <2>5
  <2>7. QED
    BY <2>6
<1>3. ASSUME NEW s \in Sides, NEW l \in Levels
      PROVE  (IF Cardinality({m \in 1..l : c[s][m] > 0}) <= n THEN c[s][l] ELSE 0) = c[s][l]
  BY <1>2
<1> HIDE DEF c
<1>4. Best(c, n) = [s \in Sides |-> [l \in Levels |-> c[s][l]]]
  BY <1>3 DEF Best
<1>5. c = [s \in Sides |-> [l \in Levels |-> c[s][l]]]
  BY <1>1 DEF Books
<1>6. QED
  BY <1>4, <1>5 DEF c

LEMMA SameBook ==
    ASSUME NEW b \in Books, NEW c \in Books,
           \A s \in Sides, l \in Levels : b[s][l] = c[s][l]
    PROVE  b = c
<1>1. b = [s \in Sides |-> [l \in Levels |-> b[s][l]]]
  BY DEF Books
<1>2. c = [s \in Sides |-> [l \in Levels |-> c[s][l]]]
  BY DEF Books
<1>3. QED
  BY <1>1, <1>2

-----------------------------------------------------------------------------
(* Messages *)

Cuts == {Best(b, Depth) : b \in Books}
Messages == [type : {"snapshot", "delta"}, levels : SUBSET (Sides \X Levels), book : Cuts]

\* The message says all that makes its book another one than m.
Follows(m, message) ==
    \A s \in Sides, l \in Levels : <<s, l>> \notin message.levels => m[s][l] = message.book[s][l]

\* m is c with some levels missing.
Lacks(m, c) == \A s \in Sides, l \in Levels : m[s][l] \in {0, c[s][l]}

LEMMA CutsAreBooks == BookFeedAssumption => Cuts \subseteq Books
BY BestIsBook DEF BookFeedAssumption, Cuts

LEMMA AppliedIsNext ==
    ASSUME BookFeedAssumption, NEW m \in Books, NEW message \in Messages, Follows(m, message)
    PROVE  Applied(m, message) = message.book
<1>1. message.book \in Books
  BY CutsAreBooks DEF Messages
<1>2. Applied(m, message) = [s \in Sides |-> [l \in Levels |-> message.book[s][l]]]
  BY DEF Applied, Follows
<1>3. QED
  BY <1>1, <1>2 DEF Books

\* A message that follows a book also updates what lacks levels of it.
LEMMA AppliedLacks ==
    ASSUME BookFeedAssumption, NEW m \in Books, NEW c \in Books, NEW message \in Messages,
           Lacks(m, c), Follows(c, message)
    PROVE  Applied(m, message) \in Books /\ Lacks(Applied(m, message), message.book)
<1>1. message.book \in Books
  BY CutsAreBooks DEF Messages
<1>2. Applied(m, message) \in Books
  BY <1>1 DEF Applied, Books
<1>3. ASSUME NEW s \in Sides, NEW l \in Levels
      PROVE  Applied(m, message)[s][l] \in {0, message.book[s][l]}
  BY DEF Applied, Lacks, Follows
<1>4. QED
  BY <1>2, <1>3 DEF Lacks

\* A cut leaves a level as it is or takes it out.
LEMMA BestLacks ==
    ASSUME NEW m, NEW c, NEW n, Lacks(m, c) PROVE Lacks(Best(m, n), c)
<1>1. ASSUME NEW s \in Sides, NEW l \in Levels PROVE Best(m, n)[s][l] \in {0, m[s][l]}
  BY DEF Best
<1>2. QED
  BY <1>1 DEF Lacks

LEMMA ExchangeMessages ==
    ASSUME BookFeedAssumption, NEW b \in Books, NEW c \in Books
    PROVE  /\ DeltaMessage(b, c) \in Messages
           /\ DeltaMessage(b, c).book = Best(c, Depth)
           /\ Follows(Best(b, Depth), DeltaMessage(b, c))
           /\ SnapshotMessage(b) \in Messages
           /\ SnapshotMessage(b).book = Best(b, Depth)
           /\ \A m : Follows(m, SnapshotMessage(b))
           /\ Changes(b, c) = {} => Best(b, Depth) = Best(c, Depth)
<1>1. Best(b, Depth) \in Books /\ Best(c, Depth) \in Books
  BY BestIsBook DEF BookFeedAssumption
<1>2. ASSUME NEW s \in Sides, NEW l \in Levels, <<s, l>> \notin Changes(b, c)
      PROVE  Best(b, Depth)[s][l] = Best(c, Depth)[s][l]
  BY <1>2 DEF Changes
<1>3. Changes(b, c) \subseteq Sides \X Levels
  BY DEF Changes
<1>4. DeltaMessage(b, c) \in Messages /\ SnapshotMessage(b) \in Messages
  BY <1>3 DEF Messages, Cuts, DeltaMessage, SnapshotMessage
<1>5. /\ Follows(Best(b, Depth), DeltaMessage(b, c))
      /\ \A m : Follows(m, SnapshotMessage(b))
  BY <1>2 DEF Follows, DeltaMessage, SnapshotMessage
<1>6. Changes(b, c) = {} => Best(b, Depth) = Best(c, Depth)
  BY <1>1, <1>2, SameBook
<1>7. QED
  BY <1>4, <1>5, <1>6 DEF DeltaMessage, SnapshotMessage

-----------------------------------------------------------------------------
(* The inductive invariant *)

FeedShape ==
    /\ depthLimit \in DepthLimits
    /\ book \in Books /\ mirror \in Books /\ delivered \in Books
    /\ up \in SUBSET Groups /\ lost \in SUBSET Groups /\ refused \in SUBSET Groups
    /\ up \cap Waiting = {} /\ lost \cap refused = {}
    /\ channel \in Seq(Messages)
    /\ Len(channel) <= MaxQueue + 1
    /\ BookGroup \notin up => channel = <<>>

\* What an untrimmed mirror that now holds b will be once the first n messages are handled.
Before(b, n) == IF n = 0 THEN b ELSE channel[n].book

\* Each message says what changes after the one before it, and the last one, or the book b
\* if there is none, is the book of the exchange.
ChainedFrom(b) ==
    /\ \A i \in 1..Len(channel) : Follows(Before(b, i - 1), channel[i])
    /\ Before(b, Len(channel)) = Best(book, Depth)

\* The mirror has all of b, or what the limit has left of it.
Mirrored(b) == Lacks(mirror, b) /\ (Depth <= depthLimit => mirror = b)

Chained == BookGroup \in up => \E b \in Books : Mirrored(b) /\ ChainedFrom(b)

Counted ==
    /\ connections \in Nat /\ failures \in Nat /\ CountedConnections
    /\ failures = 0 => refused = {}

FeedIInv == FeedShape /\ Chained /\ Counted

LEMMA FeedShapeInit == BookFeedAssumption /\ FeedInit => FeedShape
BY DEF BookFeedAssumption, FeedInit, FeedShape, Waiting, Books, NoBook

LEMMA UpIsFinite ==
    ASSUME BookFeedAssumption, NEW S \in SUBSET Groups
    PROVE  IsFiniteSet(S) /\ Cardinality(S) \in Nat
BY FS_Subset, FS_CardinalityType DEF BookFeedAssumption

LEMMA FeedInitIInv == BookFeedAssumption /\ FeedInit => FeedIInv
<1> SUFFICES ASSUME BookFeedAssumption, FeedInit PROVE FeedIInv
  OBVIOUS
<1>1. Cardinality({}) = 0
  BY FS_EmptySet
<1>2. QED
  BY <1>1, FeedShapeInit DEF FeedInit, FeedIInv, Chained, Counted, CountedConnections

\* The chain is kept by a step that leaves the book, the mirror and the channel alone.
LEMMA SameChain ==
    ASSUME Chained, BookGroup \in up' => BookGroup \in up,
           BookGroup \in up' => UNCHANGED <<depthLimit, book, mirror, channel>>
    PROVE  Chained'
<1> SUFFICES ASSUME BookGroup \in up'
             PROVE  (\E b \in Books : Mirrored(b) /\ ChainedFrom(b))'
  BY DEF Chained
<1>1. PICK b \in Books : Mirrored(b) /\ ChainedFrom(b)
  BY DEF Chained
<1>2. Mirrored(b)' /\ ChainedFrom(b)'
  BY <1>1 DEF Mirrored, Lacks, ChainedFrom, Before, Follows
<1>3. QED
  BY <1>2

LEMMA QuoteIInv == BookFeedAssumption /\ FeedIInv /\ Quote => FeedIInv'
<1> SUFFICES ASSUME BookFeedAssumption, FeedIInv, Quote PROVE FeedIInv'
  OBVIOUS
<1> USE DEF FeedIInv
<1>1. book' \in Books
  BY DEF Quote, FeedShape, Books
<1>2. UNCHANGED <<depthLimit, mirror, delivered, up, lost, refused, connections, failures>>
  BY DEF Quote
<1>3. CASE BookGroup \in up /\ Changes(book, book') # {}
  <2> DEFINE message == DeltaMessage(book, book')
  <2>0. PICK n \in Nat : n = Len(channel)
    BY DEF FeedShape
  <2>b. PICK b \in Books : Mirrored(b) /\ ChainedFrom(b)
    BY <1>3 DEF Chained
  <2>1. /\ message \in Messages /\ message.book = Best(book', Depth)
        /\ Follows(Best(book, Depth), message)
    BY <1>1, ExchangeMessages DEF FeedShape
  <2>2. channel' = Append(channel, message) /\ n < MaxQueue
    BY <1>3, <2>0 DEF Quote
  <2> HIDE DEF message
  <2>3. /\ channel' \in Seq(Messages) /\ Len(channel') = n + 1
        /\ \A i \in 1..n : channel'[i] = channel[i]
        /\ channel'[n + 1] = message
    BY <2>0, <2>1, <2>2 DEF FeedShape
  <2>4. Before(b, n + 1)' = message.book
    BY <2>3 DEF Before
  <2>5. \A i \in 0..n : Before(b, i)' = Before(b, i)
    BY <1>2, <2>3 DEF Before
  <2>6. ASSUME NEW i \in 1..(n + 1) PROVE Follows(Before(b, i - 1)', channel'[i])
    <3>1. CASE i \in 1..n
      <4>1. i - 1 \in 0..n
        BY <3>1
      <4>2. Follows(Before(b, i - 1), channel[i])
        BY <2>0, <2>b, <3>1 DEF ChainedFrom
      <4>3. Before(b, i - 1)' = Before(b, i - 1) /\ channel'[i] = channel[i]
        BY <2>3, <2>5, <3>1, <4>1
      <4>4. QED
        BY <4>2, <4>3
    <3>2. CASE i = n + 1
      <4>1. Before(b, i - 1)' = Best(book, Depth) /\ channel'[i] = message
        BY <2>b, <2>0, <2>3, <2>5, <3>2 DEF ChainedFrom
      <4>2. QED
        BY <2>1, <4>1
    <3>3. QED
      BY <2>3, <3>1, <3>2
  <2>7. ChainedFrom(b)'
    BY <2>1, <2>3, <2>4, <2>6 DEF ChainedFrom, Follows
  <2>8. Mirrored(b)'
    BY <1>2, <2>b DEF Mirrored, Lacks
  <2>9. FeedShape'
    BY <1>1, <1>2, <1>3, <2>2, <2>3 DEF FeedShape, Waiting, BookFeedAssumption
  <2>10. QED
    BY <1>2, <2>7, <2>8, <2>9 DEF Chained, Counted, CountedConnections
<1>4. CASE ~(BookGroup \in up /\ Changes(book, book') # {})
  <2>1. channel' = channel
    BY <1>4 DEF Quote
  <2>2. BookGroup \in up => Best(book', Depth) = Best(book, Depth)
    BY <1>1, <1>4, ExchangeMessages DEF FeedShape
  <2>3. ASSUME BookGroup \in up, NEW b \in Books, Mirrored(b), ChainedFrom(b)
        PROVE  Mirrored(b)' /\ ChainedFrom(b)'
    BY <1>2, <2>1, <2>2, <2>3 DEF Mirrored, Lacks, ChainedFrom, Before, Follows
  <2>4. Chained'
    BY <1>2, <2>3 DEF Chained
  <2>5. QED
    BY <1>1, <1>2, <2>1, <2>4 DEF FeedShape, Waiting, Counted, CountedConnections
<1>5. QED
  BY <1>3, <1>4

LEMMA HandleIInv == BookFeedAssumption /\ FeedIInv /\ HandleOrderbook => FeedIInv'
<1> SUFFICES ASSUME BookFeedAssumption, FeedIInv, HandleOrderbook PROVE FeedIInv'
  OBVIOUS
<1> USE DEF FeedIInv
<1> DEFINE message == Head(channel)
           m == Applied(mirror, message)
<1>1. UNCHANGED <<depthLimit, book, up, lost, refused, connections, failures>>
  BY DEF HandleOrderbook
<1>2. PICK n \in Nat : n + 1 = Len(channel)
  BY DEF HandleOrderbook, FeedShape
<1>3. /\ message \in Messages /\ message = channel[1]
      /\ channel' \in Seq(Messages) /\ Len(channel') = n
      /\ \A i \in 1..n : channel'[i] = channel[i + 1]
  BY <1>2 DEF HandleOrderbook, FeedShape
<1>4. BookGroup \in up
  BY DEF HandleOrderbook, FeedShape
<1>b. PICK b \in Books : Mirrored(b) /\ ChainedFrom(b)
  BY <1>4 DEF Chained
<1>5. Follows(b, message)
  BY <1>2, <1>3, <1>b DEF ChainedFrom, Before
<1>6. PICK c \in Books : message.book = Best(c, Depth)
  BY <1>3 DEF Messages, Cuts
<1> HIDE DEF message
<1>7. message.book \in Books
  BY <1>6, BestIsBook DEF BookFeedAssumption
<1>8. m \in Books /\ Lacks(m, message.book)
  BY <1>3, <1>5, <1>b, AppliedLacks DEF Mirrored, FeedShape
<1>9. depthLimit \in Nat /\ Depth \in Nat
  BY DEF FeedShape, BookFeedAssumption
<1>10. Depth <= depthLimit => m = message.book
  BY <1>3, <1>5, <1>b, AppliedIsNext DEF Mirrored, FeedShape
<1>11. Depth <= depthLimit => Best(m, depthLimit) = message.book
  BY <1>6, <1>9, <1>10, BestOfBest
<1>12. Best(m, depthLimit) \in Books /\ Lacks(Best(m, depthLimit), message.book)
  BY <1>8, <1>9, BestIsBook, BestLacks
<1>13. Best(m, Depth) \in Books
  BY <1>8, <1>9, BestIsBook
<1>14. mirror' \in {m, Best(m, depthLimit)} /\ delivered' \in {delivered, Best(m, Depth)}
  BY DEF HandleOrderbook, message
<1> HIDE DEF m
<1>15. /\ mirror' \in Books /\ delivered' \in Books
       /\ Lacks(mirror', message.book) /\ (Depth <= depthLimit => mirror' = message.book)
  BY <1>8, <1>10, <1>11, <1>12, <1>13, <1>14 DEF FeedShape
<1>16. FeedShape'
  BY <1>1, <1>2, <1>3, <1>4, <1>15 DEF FeedShape, Waiting, BookFeedAssumption
<1>c. PICK next \in Books : next = message.book
  BY <1>7
<1>17. \A i \in 0..n : Before(next, i)' = Before(b, i + 1)
  BY <1>3, <1>c DEF Before
<1>18. ASSUME NEW i \in 1..n PROVE Follows(Before(next, i - 1)', channel'[i])
  <2>1. Follows(Before(b, i), channel[i + 1])
    <3>1. i + 1 \in 1..Len(channel) /\ (i + 1) - 1 = i
      BY <1>2
    <3>2. QED
      BY <1>b, <3>1 DEF ChainedFrom
  <2>2. Before(next, i - 1)' = Before(b, i) /\ channel'[i] = channel[i + 1]
    <3>1. i - 1 \in 0..n /\ (i - 1) + 1 = i
      OBVIOUS
    <3>2. QED
      BY <1>3, <1>17, <3>1
  <2>3. QED
    BY <2>1, <2>2
<1>19. Before(next, n)' = Best(book, Depth)
  BY <1>2, <1>b, <1>17 DEF ChainedFrom
<1>20. ChainedFrom(next)'
  BY <1>1, <1>3, <1>18, <1>19 DEF ChainedFrom, Follows
<1>21. Mirrored(next)'
  BY <1>1, <1>15, <1>c DEF Mirrored, Lacks
<1>22. QED
  BY <1>1, <1>16, <1>20, <1>21 DEF Chained, Counted, CountedConnections

LEMMA ConnectIInv ==
    ASSUME BookFeedAssumption, FeedIInv, NEW g \in Groups, Connect(g) PROVE FeedIInv'
<1> USE DEF FeedIInv
<1>1. /\ g \notin up \cup Waiting /\ up' = up \cup {g}
      /\ UNCHANGED <<depthLimit, book, mirror, delivered, lost, refused, failures>>
      /\ channel' = IF g = BookGroup THEN <<SnapshotMessage(book)>> ELSE channel
  BY DEF Connect
<1>2. /\ SnapshotMessage(book) \in Messages
      /\ SnapshotMessage(book).book = Best(book, Depth)
      /\ Follows(mirror, SnapshotMessage(book))
  BY ExchangeMessages DEF FeedShape
<1>3. /\ Cardinality((up \cup lost)') = Cardinality(up \cup lost) + 1
      /\ Cardinality(up \cup lost) \in Nat
  <2>1. up \cup lost \in SUBSET Groups /\ g \notin up \cup lost
        /\ (up \cup lost)' = (up \cup lost) \cup {g}
    BY <1>1 DEF FeedShape, Waiting
  <2>2. QED
    BY <2>1, UpIsFinite, FS_AddElement
<1>4. connections' = connections + 1
  BY DEF Connect, MarkPublicWsConnected, Counted
<1>5. Counted'
  BY <1>1, <1>3, <1>4 DEF Counted, CountedConnections
<1>6. CASE g = BookGroup
  <2>1. /\ channel' \in Seq(Messages) /\ Len(channel') = 1
        /\ channel'[1] = SnapshotMessage(book)
    BY <1>1, <1>2, <1>6
  <2>2. FeedShape'
    BY <1>1, <1>6, <2>1 DEF FeedShape, Waiting, BookFeedAssumption
  <2>3. PICK b \in Books : b = mirror
    BY DEF FeedShape
  <2>4. Mirrored(b)' /\ ChainedFrom(b)'
    BY <1>1, <1>2, <2>1, <2>3 DEF Mirrored, Lacks, ChainedFrom, Before, Follows
  <2>5. QED
    BY <1>5, <2>2, <2>4 DEF Chained
<1>7. CASE g # BookGroup
  <2>1. channel' = channel /\ (BookGroup \in up <=> BookGroup \in up')
    BY <1>1, <1>7
  <2>2. Chained'
    BY <1>1, <2>1, SameChain
  <2>3. QED
    BY <1>1, <1>5, <2>1, <2>2 DEF FeedShape, Waiting
<1>8. QED
  BY <1>6, <1>7

LEMMA ConnectFailsIInv ==
    ASSUME BookFeedAssumption, FeedIInv, NEW g \in Groups, ConnectFails(g) PROVE FeedIInv'
<1> USE DEF FeedIInv
<1>1. /\ UNCHANGED <<depthLimit, book, mirror, delivered, up, lost, channel, connections>>
      /\ g \notin up \cup Waiting /\ refused' = refused \cup {g} /\ failures' = failures + 1
  BY DEF ConnectFails
<1>2. Counted'
  BY <1>1 DEF Counted, CountedConnections
<1>3. Chained'
  BY <1>1, SameChain
<1>4. QED
  BY <1>1, <1>2, <1>3 DEF FeedShape, Waiting

LEMMA BreaksIInv ==
    ASSUME BookFeedAssumption, FeedIInv, NEW g \in Groups, Breaks(g) PROVE FeedIInv'
<1> USE DEF FeedIInv
<1>1. /\ g \in up /\ up' = up \ {g} /\ lost' = lost \cup {g}
      /\ UNCHANGED <<depthLimit, book, mirror, delivered, refused, connections, failures>>
      /\ channel' = IF g = BookGroup THEN <<>> ELSE channel
  BY DEF Breaks
<1>2. (up \cup lost)' = up \cup lost
  BY <1>1
<1>3. Counted'
  BY <1>1, <1>2 DEF Counted, CountedConnections
<1>4. BookGroup \in up' => BookGroup \in up /\ channel' = channel
  BY <1>1
<1>5. Chained'
  BY <1>1, <1>4, SameChain DEF Chained
<1>6. QED
  BY <1>1, <1>3, <1>5 DEF FeedShape, Waiting, BookFeedAssumption

\* What is left when one connection of those counted goes, with one count less.
LEMMA OneLess ==
    ASSUME BookFeedAssumption, NEW S \in SUBSET Groups, NEW g \in S, NEW n \in Nat
    PROVE  /\ n <= Cardinality(S) => (IF n + (-1) > 0 THEN n + (-1) ELSE 0) <= Cardinality(S \ {g})
           /\ n = Cardinality(S) => (IF n + (-1) > 0 THEN n + (-1) ELSE 0) = Cardinality(S \ {g})
<1>1. IsFiniteSet(S) /\ IsFiniteSet(S \ {g})
  BY UpIsFinite, FS_Subset
<1>2. /\ Cardinality(S \ {g}) = Cardinality(S) - 1
      /\ Cardinality(S) \in Nat /\ Cardinality(S \ {g}) \in Nat
  BY <1>1, FS_RemoveElement, FS_CardinalityType
<1>3. QED
  BY <1>2

LEMMA ClosesIInv ==
    ASSUME BookFeedAssumption, FeedIInv, NEW g \in Groups, HangsUp(g) PROVE FeedIInv'
<1> USE DEF FeedIInv
<1>1. /\ g \in up /\ up' = up \ {g}
      /\ UNCHANGED <<depthLimit, book, mirror, delivered, lost, refused, failures>>
      /\ channel' = IF g = BookGroup THEN <<>> ELSE channel
  BY DEF HangsUp
<1>2. connections' = IF connections + (-1) > 0 THEN connections + (-1) ELSE 0
  BY DEF HangsUp, MarkPublicWsConnected
<1>3. (up \cup lost)' = (up \cup lost) \ {g} /\ g \in up \cup lost
  BY <1>1 DEF FeedShape, Waiting
<1>4. up \cup lost \in SUBSET Groups
  BY DEF FeedShape
<1>5. Counted'
  BY <1>1, <1>2, <1>3, <1>4, OneLess DEF Counted, CountedConnections
<1>6. BookGroup \in up' => BookGroup \in up /\ channel' = channel
  BY <1>1
<1>7. Chained'
  BY <1>1, <1>6, SameChain DEF Chained
<1>8. QED
  BY <1>1, <1>5, <1>7 DEF FeedShape, Waiting, BookFeedAssumption

LEMMA ResumesIInv ==
    ASSUME BookFeedAssumption, FeedIInv, NEW g \in Groups, Resumes(g) PROVE FeedIInv'
<1> USE DEF FeedIInv
<1>1. /\ g \in Waiting /\ lost' = lost \ {g} /\ refused' = refused \ {g}
      /\ UNCHANGED <<depthLimit, book, mirror, delivered, up, channel, failures>>
  BY DEF Resumes
<1>2. connections' = IF connections + (-1) > 0 THEN connections + (-1) ELSE 0
  BY DEF Resumes, MarkPublicWsConnected
<1>3. connections' \in Nat /\ connections' <= connections
  BY <1>2 DEF Counted
<1>4. Counted'
  <2>1. CASE g \in lost
    <3>1. (up \cup lost)' = (up \cup lost) \ {g} /\ g \in up \cup lost
      BY <1>1, <2>1 DEF FeedShape, Waiting
    <3>2. up \cup lost \in SUBSET Groups
      BY DEF FeedShape
    <3>3. QED
      BY <1>1, <1>2, <1>3, <3>1, <3>2, OneLess DEF Counted, CountedConnections
  <2>2. CASE g \in refused
    <3>1. lost' = lost
      BY <1>1, <2>2 DEF FeedShape
    <3>2. Cardinality(up \cup lost) \in Nat
      BY UpIsFinite DEF FeedShape
    <3>3. QED
      BY <1>1, <1>3, <2>2, <3>1, <3>2 DEF Counted, CountedConnections
  <2>3. QED
    BY <1>1, <2>1, <2>2 DEF Waiting
<1>5. Chained'
  BY <1>1, SameChain
<1>6. QED
  BY <1>1, <1>4, <1>5 DEF FeedShape, Waiting

LEMMA FeedNextIInv == BookFeedAssumption /\ FeedIInv /\ [FeedNext]_feedVars => FeedIInv'
<1> SUFFICES ASSUME BookFeedAssumption, FeedIInv, [FeedNext]_feedVars PROVE FeedIInv'
  OBVIOUS
<1>1. CASE UNCHANGED feedVars
  <2>1. Chained'
    BY <1>1, SameChain DEF feedVars, FeedIInv
  <2>2. QED
    BY <1>1, <2>1 DEF feedVars, FeedIInv, FeedShape, Waiting, Counted, CountedConnections
<1>2. CASE FeedNext
  BY <1>2, QuoteIInv, ConnectIInv, ConnectFailsIInv, BreaksIInv, ClosesIInv, ResumesIInv,
     HandleIInv DEF FeedNext
<1>3. QED
  BY <1>1, <1>2

LEMMA FeedInvariance == ASSUME BookFeedAssumption PROVE FeedSpec => []FeedIInv
<1>1. FeedInit => FeedIInv
  BY FeedInitIInv
<1>2. FeedIInv /\ [FeedNext]_feedVars => FeedIInv'
  BY FeedNextIInv
<1>3. QED
  BY <1>1, <1>2, PTL DEF FeedSpec

\* Every variable keeps its type, the counter stays within the number of connections, and
\* only a live connection has messages under way.
THEOREM FeedTypeCorrect == ASSUME BookFeedAssumption PROVE FeedSpec => []FeedTypeOK
<1>1. FeedIInv => FeedTypeOK
  <2> SUFFICES ASSUME FeedIInv PROVE FeedTypeOK
    OBVIOUS
  <2>0. up \cup lost \in SUBSET Groups
    BY DEF FeedIInv, FeedShape
  <2>1. Cardinality(up \cup lost) <= Cardinality(Groups)
    BY <2>0, FS_Subset DEF BookFeedAssumption
  <2>2. Cardinality(up \cup lost) \in Nat /\ Cardinality(Groups) \in Nat
    BY <2>0, UpIsFinite, FS_CardinalityType DEF BookFeedAssumption
  <2>3. connections \in 0..Cardinality(Groups)
    BY <2>1, <2>2 DEF FeedIInv, Counted, CountedConnections
  <2>4. QED
    BY <2>3 DEF FeedIInv, FeedShape, FeedTypeOK
<1>2. QED
  BY FeedInvariance, <1>1, PTL

\* For any depth, any number of levels and any limit: once every message of a live connection
\* is handled, the mirror has the exchange's size of a level or lacks the level, and lacks none
\* unless the limit is smaller than the depth, whatever reconnects went before.
THEOREM MirrorIsBook == ASSUME BookFeedAssumption PROVE FeedSpec => []BookMirrors
<1>1. FeedIInv => BookMirrors
  <2> SUFFICES ASSUME FeedIInv, BookGroup \in up, channel = <<>>
               PROVE  /\ Lacks(mirror, Best(book, Depth))
                      /\ Depth <= depthLimit => mirror = Best(book, Depth)
    BY DEF BookMirrors, Lacks
  <2>1. PICK b \in Books : Mirrored(b) /\ ChainedFrom(b)
    BY DEF FeedIInv, Chained
  <2>2. b = Best(book, Depth)
    BY <2>1 DEF ChainedFrom, Before
  <2>3. QED
    BY <2>1, <2>2 DEF Mirrored
<1>2. QED
  BY FeedInvariance, <1>1, PTL

\* For any number of connections: none is counted that is not there, and all are as long as
\* every attempt succeeds.
THEOREM ConnectionsCounted == ASSUME BookFeedAssumption PROVE FeedSpec => []CountedConnections
<1>1. FeedIInv => CountedConnections
  BY DEF FeedIInv, Counted
<1>2. QED
  BY FeedInvariance, <1>1, PTL

-----------------------------------------------------------------------------
(* ------------------------- the order book densities ------------------------- *)

(* Numbers in order *)

LEMMA RankIsOneToOne ==
    ASSUME NEW S \in SUBSET Nat, IsFiniteSet(S)
    PROVE  /\ Cardinality(S) \in Nat
           /\ \A k \in S : Cardinality({j \in S : j <= k}) \in 1..Cardinality(S)
           /\ \A k, l \in S : Cardinality({j \in S : j <= k}) = Cardinality({j \in S : j <= l})
                => k = l
           /\ \A i \in 1..Cardinality(S) : \E k \in S : Cardinality({j \in S : j <= k}) = i
<1> DEFINE upTo(k) == {j \in S : j <= k}
           rank == [k \in S |-> Cardinality(upTo(k))]
<1>1. Cardinality(S) \in Nat
  BY FS_CardinalityType
<1>2. ASSUME NEW k \in S
      PROVE  IsFiniteSet(upTo(k)) /\ Cardinality(upTo(k)) \in 1..Cardinality(S)
  <2>1. IsFiniteSet(upTo(k)) /\ Cardinality(upTo(k)) <= Cardinality(S)
    BY FS_Subset
  <2>2. Cardinality(upTo(k)) \in Nat /\ k \in upTo(k)
    BY <2>1, FS_CardinalityType
  <2>3. Cardinality(upTo(k)) # 0
    BY <2>1, <2>2, FS_EmptySet
  <2>4. QED
    BY <1>1, <2>1, <2>2, <2>3
<1>3. ASSUME NEW k \in S, NEW l \in S, k < l
      PROVE  Cardinality(upTo(k)) # Cardinality(upTo(l))
  <2>1. \A j \in S : j \in Nat
    OBVIOUS
  <2>2. upTo(k) \subseteq upTo(l)
    <3>1. ASSUME NEW j \in S, j <= k PROVE j <= l
      BY <1>3, <2>1, <3>1
    <3>2. QED
      BY <3>1
  <2>3. l \in upTo(l) /\ l \notin upTo(k)
    BY <1>3, <2>1
  <2>4. QED
    BY <1>2, <2>2, <2>3, FS_Subset
<1>4. ASSUME NEW k \in S, NEW l \in S, Cardinality(upTo(k)) = Cardinality(upTo(l)) PROVE k = l
  BY <1>3, <1>4
<1>5. rank \in Injection(S, 1..Cardinality(S))
  BY <1>2, <1>4 DEF Injection, IsInjective
<1>6. IsFiniteSet(1..Cardinality(S)) /\ Cardinality(1..Cardinality(S)) = Cardinality(S)
  BY <1>1, FS_Interval
<1>7. rank \in Surjection(S, 1..Cardinality(S))
  BY <1>5, <1>6, FS_Injection
<1>8. \A i \in 1..Cardinality(S) : \E k \in S : Cardinality(upTo(k)) = i
  BY <1>7 DEF Surjection
<1>9. QED
  BY <1>1, <1>2, <1>4, <1>8

LEMMA GreatestExists ==
    ASSUME NEW S \in SUBSET Nat, IsFiniteSet(S), S # {}
    PROVE  \E k \in S : \A j \in S : j <= k
<1>1. Cardinality(S) \in Nat \ {0}
  BY FS_EmptySet, FS_CardinalityType
<1>2. PICK k \in S : Cardinality({j \in S : j <= k}) = Cardinality(S)
  BY <1>1, RankIsOneToOne
<1>3. {j \in S : j <= k} = S
  BY <1>2, FS_Subset
<1>4. QED
  BY <1>3

\* Every number of the set is in its ascending order, in one place.
LEMMA AscendingOnce ==
    ASSUME NEW S \in SUBSET Nat, IsFiniteSet(S)
    PROVE  /\ Cardinality(S) \in Nat
           /\ \A i \in 1..Cardinality(S) : Ascending(S)[i] \in S
           /\ \A i, j \in 1..Cardinality(S) : Ascending(S)[i] = Ascending(S)[j] => i = j
           /\ \A k \in S : \E i \in 1..Cardinality(S) : Ascending(S)[i] = k
<1>1. ASSUME NEW i \in 1..Cardinality(S)
      PROVE  /\ Ascending(S)[i] \in S
             /\ Cardinality({j \in S : j <= Ascending(S)[i]}) = i
  <2>1. \E k \in S : Cardinality({j \in S : j <= k}) = i
    BY RankIsOneToOne
  <2>2. Ascending(S)[i] = CHOOSE k \in S : Cardinality({j \in S : j <= k}) = i
    BY DEF Ascending
  <2>3. QED
    BY <2>1, <2>2
<1>2. ASSUME NEW k \in S PROVE \E i \in 1..Cardinality(S) : Ascending(S)[i] = k
  <2> DEFINE i == Cardinality({j \in S : j <= k})
  <2>1. i \in 1..Cardinality(S)
    BY RankIsOneToOne
  <2>2. /\ Ascending(S)[i] \in S
        /\ Cardinality({j \in S : j <= Ascending(S)[i]}) = Cardinality({j \in S : j <= k})
    BY <1>1, <2>1
  <2>3. \A l, m \in S : Cardinality({j \in S : j <= l}) = Cardinality({j \in S : j <= m})
                           => l = m
    BY RankIsOneToOne
  <2>4. Ascending(S)[i] = k
    BY <2>2, <2>3
  <2>5. QED
    BY <2>1, <2>4
<1>3. ASSUME NEW i \in 1..Cardinality(S), NEW j \in 1..Cardinality(S),
             Ascending(S)[i] = Ascending(S)[j]
      PROVE  i = j
  BY <1>1, <1>3
<1>4. QED
  BY <1>1, <1>2, <1>3, FS_CardinalityType

-----------------------------------------------------------------------------
(* Sequences *)

LEMMA ConcatIs ==
    ASSUME NEW S, NEW a \in Seq(S), NEW b \in Seq(S)
    PROVE  /\ a \o b \in Seq(S) /\ Len(a \o b) = Len(a) + Len(b)
           /\ Len(a) \in Nat /\ Len(b) \in Nat
           /\ \A i \in 1..Len(a) : (a \o b)[i] = a[i]
           /\ \A i \in 1..Len(b) : (a \o b)[Len(a) + i] = b[i]
           /\ \A i \in 1..Len(a \o b) : i \in 1..Len(a) \/ i - Len(a) \in 1..Len(b)
OBVIOUS

\* The part of s that begins after its first n elements.
LEMMA PartIs ==
    ASSUME NEW S, NEW s \in Seq(S), NEW n \in 0..Len(s), NEW m \in n..Len(s)
    PROVE  /\ SubSeq(s, n + 1, m) \in Seq(S) /\ Len(SubSeq(s, n + 1, m)) = m - n
           /\ \A i \in 1..(m - n) : n + i \in 1..Len(s) /\ SubSeq(s, n + 1, m)[i] = s[n + i]
<1>1. Len(s) \in Nat /\ n \in Nat /\ m \in Nat /\ n <= m /\ m <= Len(s)
  OBVIOUS
<1>2. \A i \in (n + 1)..m : s[i] \in S
  BY <1>1
<1>3. SubSeq(s, n + 1, m) \in Seq(S) /\ Len(SubSeq(s, n + 1, m)) = m - n
  BY <1>1, <1>2
<1>4. \A i \in 1..(m - n) : n + i \in 1..Len(s) /\ SubSeq(s, n + 1, m)[i] = s[n + i]
  BY <1>1
<1>5. QED
  BY <1>3, <1>4

LEMMA LastOfIs ==
    ASSUME NEW S, NEW s \in Seq(S), NEW n \in Nat
    PROVE  /\ LastOf(s, n) \in Seq(S) /\ Len(LastOf(s, n)) <= n
           /\ \E d \in Nat : /\ Len(s) = d + Len(LastOf(s, n))
                             /\ \A i \in 1..Len(LastOf(s, n)) : LastOf(s, n)[i] = s[d + i]
<1>1. CASE Len(s) <= n
  BY <1>1 DEF LastOf
<1>2. CASE Len(s) > n
  <2> DEFINE d == Len(s) - n
  <2>1. d \in 0..Len(s) /\ Len(s) \in d..Len(s) /\ Len(s) - d = n /\ d \in Nat
    BY <1>2
  <2>2. LastOf(s, n) = SubSeq(s, d + 1, Len(s))
    BY <1>2 DEF LastOf
  <2> HIDE DEF d
  <2>3. /\ LastOf(s, n) \in Seq(S) /\ Len(LastOf(s, n)) = n
        /\ \A i \in 1..n : LastOf(s, n)[i] = s[d + i]
    BY <2>1, <2>2, PartIs
  <2>4. Len(s) = d + n
    BY <2>1
  <2>5. Len(s) = d + Len(LastOf(s, n))
    BY <2>3, <2>4
  <2>6. \A i \in 1..Len(LastOf(s, n)) : LastOf(s, n)[i] = s[d + i]
    BY <2>3
  <2>7. QED
    BY <2>1, <2>3, <2>5, <2>6
<1>3. QED
  BY <1>1, <1>2

Rising(s) == \A i, j \in 1..Len(s) : i < j => s[i] < s[j]
Precedes(s, t) == \A i \in 1..Len(s), j \in 1..Len(t) : s[i] < t[j]

LEMMA RisingConcat ==
    ASSUME NEW S \in SUBSET Nat, NEW a \in Seq(S), NEW b \in Seq(S),
           Rising(a), Rising(b), Precedes(a, b)
    PROVE  Rising(a \o b)
<1> SUFFICES ASSUME NEW i \in 1..Len(a \o b), NEW j \in 1..Len(a \o b), i < j
             PROVE  (a \o b)[i] < (a \o b)[j]
  BY DEF Rising
<1>1. CASE j \in 1..Len(a)
  BY <1>1, ConcatIs DEF Rising
<1>2. CASE j \notin 1..Len(a) /\ i \in 1..Len(a)
  <2>1. j - Len(a) \in 1..Len(b) /\ j = Len(a) + (j - Len(a))
    BY <1>2, ConcatIs
  <2>2. (a \o b)[j] = b[j - Len(a)] /\ (a \o b)[i] = a[i]
    BY <1>2, <2>1, ConcatIs
  <2>3. QED
    BY <1>2, <2>1, <2>2 DEF Precedes
<1>3. CASE j \notin 1..Len(a) /\ i \notin 1..Len(a)
  <2>1. /\ j - Len(a) \in 1..Len(b) /\ j = Len(a) + (j - Len(a))
        /\ i - Len(a) \in 1..Len(b) /\ i = Len(a) + (i - Len(a))
        /\ i - Len(a) < j - Len(a)
    BY <1>3, ConcatIs
  <2>2. (a \o b)[j] = b[j - Len(a)] /\ (a \o b)[i] = b[i - Len(a)]
    BY <2>1, ConcatIs
  <2>3. QED
    BY <2>1, <2>2 DEF Rising
<1>4. QED
  BY <1>1, <1>2, <1>3

\* s is the part of t that begins after its first d elements.
Part(s, t, d) == /\ Len(s) \in Nat /\ d + Len(s) <= Len(t)
                 /\ \A i \in 1..Len(s) : s[i] = t[d + i]

LEMMA PartOfRising ==
    ASSUME NEW s, NEW t, NEW d \in Nat, Part(s, t, d), Len(t) \in Nat
    PROVE  /\ Rising(t) => Rising(s)
           /\ \A u : Precedes(u, t) => Precedes(u, s)
           /\ \A u : Precedes(t, u) => Precedes(s, u)
<1>1. \A i \in 1..Len(s) : d + i \in 1..Len(t) /\ s[i] = t[d + i]
  BY DEF Part
<1>2. \A i, j \in 1..Len(s) : i < j => d + i < d + j
  BY DEF Part
<1>3. QED
  BY <1>1, <1>2 DEF Rising, Precedes

-----------------------------------------------------------------------------
(* Reports *)

Kinds == {"appeared", "refilled", "holding", "eaten", "pulled", "absorbed"}
Reports == [key : Keys, kind : Kinds]
LevelRecords == [first : Nat, last : Nat, max : Nat, size : Nat]

TellsOnce(new, k, kind) ==
    \E i \in 1..Len(new) : /\ new[i] = [key |-> k, kind |-> kind]
                          /\ \A j \in 1..Len(new) : new[j].key = k => j = i
TellsNothing(new, k) == \A i \in 1..Len(new) : new[i].key # k

LEMMA KeysAreFinite == DensityAssumption => IsFiniteSet(Keys) /\ Keys \subseteq Nat
<1> SUFFICES ASSUME DensityAssumption PROVE IsFiniteSet(Keys) /\ Keys \subseteq Nat
  OBVIOUS
<1>1. LastKey \in Nat /\ 1 \in Nat
  BY DEF DensityAssumption
<1>2. QED
  BY <1>1, FS_Interval DEF Keys

LEMMA ReportsOfIs ==
    ASSUME DensityAssumption, NEW S \in SUBSET Keys,
           NEW kind \in [Keys -> Kinds \cup {"none"}]
    PROVE  /\ ReportsOf(S, kind) \in Seq(Reports)
           /\ \A i \in 1..Len(ReportsOf(S, kind)) : ReportsOf(S, kind)[i].key \in S
           /\ \A k \in Keys : k \notin S \/ kind[k] = "none"
                                => TellsNothing(ReportsOf(S, kind), k)
           /\ \A k \in S : kind[k] # "none" => TellsOnce(ReportsOf(S, kind), k, kind[k])
<1> DEFINE told == {k \in S : kind[k] # "none"}
           new == ReportsOf(S, kind)
<1>1. told \in SUBSET Nat /\ IsFiniteSet(told)
  BY KeysAreFinite, FS_Subset
<1>2. PICK n \in Nat : n = Cardinality(told)
  BY <1>1, FS_CardinalityType
<1>3. new = [i \in 1..n |-> [key |-> Ascending(told)[i], kind |-> kind[Ascending(told)[i]]]]
  BY <1>2 DEF ReportsOf
<1>4. /\ \A i \in 1..n : Ascending(told)[i] \in told
      /\ \A i, j \in 1..n : Ascending(told)[i] = Ascending(told)[j] => i = j
      /\ \A k \in told : \E i \in 1..n : Ascending(told)[i] = k
  BY <1>1, <1>2, AscendingOnce
<1>5. \A k \in told : k \in S /\ k \in Keys /\ kind[k] \in Kinds /\ kind[k] # "none"
  OBVIOUS
<1>6. \A k \in S : kind[k] # "none" => k \in told
  OBVIOUS
<1> HIDE DEF told, new
<1>7. new \in Seq(Reports) /\ Len(new) = n
  BY <1>3, <1>4, <1>5 DEF Reports
<1>8. \A i \in 1..n : /\ new[i].key = Ascending(told)[i] /\ new[i].kind = kind[new[i].key]
                      /\ new[i] = [key |-> new[i].key, kind |-> new[i].kind]
  BY <1>3
<1>9. \A i \in 1..n : new[i].key \in S /\ kind[new[i].key] # "none"
  BY <1>4, <1>5, <1>8
<1>10. ASSUME NEW k \in S, kind[k] # "none" PROVE TellsOnce(new, k, kind[k])
  <2>1. PICK i \in 1..n : Ascending(told)[i] = k
    BY <1>4, <1>6, <1>10
  <2>2. new[i] = [key |-> k, kind |-> kind[k]]
    BY <1>8, <2>1
  <2>3. ASSUME NEW j \in 1..n, new[j].key = k PROVE j = i
    BY <1>4, <1>8, <2>1, <2>3
  <2>4. QED
    BY <1>7, <2>2, <2>3 DEF TellsOnce
<1>11. ASSUME NEW k \in Keys, k \notin S \/ kind[k] = "none" PROVE TellsNothing(new, k)
  BY <1>7, <1>9, <1>11 DEF TellsNothing
<1>12. QED
  BY <1>7, <1>9, <1>10, <1>11 DEF new

\* Two rounds of reports about different keys.
LEMMA TellsConcat ==
    ASSUME NEW a \in Seq(Reports), NEW b \in Seq(Reports), NEW k, NEW kind
    PROVE  /\ a \o b \in Seq(Reports)
           /\ TellsNothing(a, k) /\ TellsNothing(b, k) => TellsNothing(a \o b, k)
           /\ TellsOnce(a, k, kind) /\ TellsNothing(b, k) => TellsOnce(a \o b, k, kind)
           /\ TellsNothing(a, k) /\ TellsOnce(b, k, kind) => TellsOnce(a \o b, k, kind)
<1> DEFINE c == a \o b
<1>1. /\ c \in Seq(Reports) /\ Len(c) = Len(a) + Len(b) /\ Len(a) \in Nat /\ Len(b) \in Nat
      /\ \A i \in 1..Len(a) : i \in 1..Len(c) /\ c[i] = a[i]
      /\ \A i \in 1..Len(b) : Len(a) + i \in 1..Len(c) /\ c[Len(a) + i] = b[i]
      /\ \A i \in 1..Len(c) : \/ i \in 1..Len(a)
                              \/ /\ i - Len(a) \in 1..Len(b)
                                 /\ i = Len(a) + (i - Len(a)) /\ c[i] = b[i - Len(a)]
  BY ConcatIs
<1> HIDE DEF c
<1>2. TellsNothing(a, k) /\ TellsNothing(b, k) => TellsNothing(c, k)
  BY <1>1 DEF TellsNothing
<1>3. ASSUME TellsOnce(a, k, kind), TellsNothing(b, k) PROVE TellsOnce(c, k, kind)
  <2>1. PICK i \in 1..Len(a) : /\ a[i] = [key |-> k, kind |-> kind]
                              /\ \A j \in 1..Len(a) : a[j].key = k => j = i
    BY <1>3 DEF TellsOnce
  <2>2. ASSUME NEW j \in 1..Len(c), c[j].key = k PROVE j = i
    BY <1>1, <1>3, <2>1, <2>2 DEF TellsNothing
  <2>3. QED
    BY <1>1, <2>1, <2>2 DEF TellsOnce
<1>4. ASSUME TellsNothing(a, k), TellsOnce(b, k, kind) PROVE TellsOnce(c, k, kind)
  <2>1. PICK i \in 1..Len(b) : /\ b[i] = [key |-> k, kind |-> kind]
                              /\ \A j \in 1..Len(b) : b[j].key = k => j = i
    BY <1>4 DEF TellsOnce
  <2>2. ASSUME NEW j \in 1..Len(c), c[j].key = k PROVE j = Len(a) + i
    <3>1. j - Len(a) \in 1..Len(b) /\ j = Len(a) + (j - Len(a)) /\ c[j] = b[j - Len(a)]
      BY <1>1, <1>4, <2>2 DEF TellsNothing
    <3>2. j - Len(a) = i
      BY <2>1, <2>2, <3>1
    <3>3. QED
      BY <3>1, <3>2
  <2>3. Len(a) + i \in 1..Len(c) /\ c[Len(a) + i] = [key |-> k, kind |-> kind]
    BY <1>1, <2>1
  <2>4. QED
    BY <2>2, <2>3 DEF TellsOnce
<1>5. QED
  BY <1>1, <1>2, <1>3, <1>4 DEF c

-----------------------------------------------------------------------------
(* The inductive invariant *)

LevelsFit ==
    \A k \in Live : /\ levels[k].first <= levels[k].last /\ levels[k].last <= now
                    /\ 10 * levels[k].size <= 11 * levels[k].max

DensityShape ==
    /\ now \in Nat /\ levels \in [Keys -> LevelRecords] /\ LevelsFit
    /\ held \subseteq Live /\ reports \in Seq(Reports)
    /\ actionable \in 0..Len(reports) /\ rows \subseteq Keys

Numbers == 1..Len(reports)

\* What is stored came before what is being stored, and that before what is queued.
InOrder ==
    /\ queue \in Seq(Numbers) /\ batch \in Seq(Numbers) /\ stored \in Seq(Numbers)
    /\ Len(queue) <= QueueLimit /\ Len(batch) <= DrainLimit
    /\ Rising(queue) /\ Rising(batch) /\ Rising(stored)
    /\ Precedes(stored, batch) /\ Precedes(stored, queue) /\ Precedes(batch, queue)

DensityIInv == DensityShape /\ InOrder

LEMMA DensityInitIInv == DensityAssumption /\ DensityInit => DensityIInv
<1> SUFFICES ASSUME DensityAssumption, DensityInit PROVE DensityIInv
  OBVIOUS
<1>1. Live = {}
  BY DEF DensityInit, Live
<1>2. NoLevel \in LevelRecords
  BY DEF NoLevel, LevelRecords
<1>3. DensityShape
  BY <1>1, <1>2 DEF DensityInit, DensityShape, LevelsFit
<1>4. InOrder
  BY DEF DensityInit, InOrder, Rising, Precedes, DensityAssumption
<1>5. QED
  BY <1>3, <1>4 DEF DensityIInv

\* What is reported of a density.
LEMMA KindIs ==
    ASSUME NEW k \in Keys, NEW level \in LevelRecords, NEW z \in Nat
    PROVE  /\ Kind(k, level, z) \in Kinds \cup {"none"}
           /\ level = NoLevel => Kind(k, level, z) = "appeared"
           /\ level # NoLevel => Kind(k, level, z) \in {"refilled", "holding", "eaten", "none"}
           /\ Kind(k, level, z) = "holding" => k \notin held
<1>1. CASE level = NoLevel
  BY <1>1 DEF Kind, Kinds
<1>2. CASE level # NoLevel /\ 10 * z > 11 * level.max
  BY <1>2 DEF Kind, Kinds
<1>3. CASE level # NoLevel /\ ~(10 * z > 11 * level.max)
  <2>1. 10 * z <= 11 * level.max
    BY <1>3 DEF LevelRecords
  <2>2. Kind(k, level, z) = IF now - level.first >= HoldAfter /\ k \notin held THEN "holding"
                            ELSE IF 100 * z < 35 * level.size THEN "eaten" ELSE "none"
    BY <1>3, <2>1 DEF Kind
  <2>3. QED
    BY <1>3, <2>2 DEF Kinds
<1>4. QED
  BY <1>1, <1>2, <1>3

LEMMA EndIs == ASSUME NEW level PROVE End(level) \in {"pulled", "absorbed"}
BY DEF End

\* A density that is seen has a level, whose sizes and times fit.
LEMMA SeenIs ==
    ASSUME NEW level \in LevelRecords, NEW z \in Nat \ {0}, now \in Nat,
           level # NoLevel => level.first <= level.last /\ level.last <= now
    PROVE  /\ Seen(level, z) \in LevelRecords /\ Seen(level, z) # NoLevel
           /\ Seen(level, z).first <= Seen(level, z).last /\ Seen(level, z).last <= now
           /\ 10 * Seen(level, z).size <= 11 * Seen(level, z).max
<1>1. CASE level = NoLevel
  BY <1>1 DEF Seen, NoLevel, LevelRecords
<1>2. CASE level # NoLevel
  <2>1. /\ Seen(level, z) \in LevelRecords
        /\ Seen(level, z).first = level.first /\ Seen(level, z).last = now
        /\ Seen(level, z).size = z
        /\ Seen(level, z).max = IF 10 * z > 11 * level.max THEN z ELSE level.max
    BY <1>2 DEF Seen, LevelRecords
  <2>2. level.max \in Nat /\ level.first <= now
    BY <1>2 DEF LevelRecords
  <2>3. QED
    BY <2>1, <2>2 DEF NoLevel
<1>3. QED
  BY <1>1, <1>2

-----------------------------------------------------------------------------
(* One order book *)

Lives(k) == levels[k] # NoLevel

\* What an order book may do to the level k, and which report goes with it.
Told(new, k) ==
    \/ ~Lives(k) /\ Lives(k)' /\ k \notin held' /\ TellsOnce(new, k, "appeared")
    \/ Lives(k) /\ Lives(k)' /\ k \notin held /\ k \in held' /\ TellsOnce(new, k, "holding")
    \/ /\ Lives(k) /\ Lives(k)' /\ (k \in held' <=> k \in held)
       /\ \E kind \in {"refilled", "eaten"} : TellsOnce(new, k, kind)
    \/ /\ Lives(k) /\ ~Lives(k)' /\ k \notin held'
       /\ \E kind \in {"pulled", "absorbed"} : TellsOnce(new, k, kind)
    \/ /\ (Lives(k)' <=> Lives(k)) /\ (k \in held' <=> k \in held)
       /\ TellsNothing(new, k)

LEMMA UpdateIs ==
    ASSUME DensityAssumption, DensityShape, Update
    PROVE  \E new \in Seq(Reports) :
              /\ levels' \in [Keys -> LevelRecords] /\ LevelsFit' /\ held' \subseteq Live'
              /\ Emit(new)
              /\ \A k \in Keys : Told(new, k)
              /\ UNCHANGED <<now, batch, stored, rows>>
<1> DEFINE dense(size) == {k \in Keys : size[k] >= MinSize}
           kind(size) == [k \in Keys |-> Kind(k, levels[k], size[k])]
           end == [k \in Keys |-> End(levels[k])]
<1>1. PICK size \in [Keys -> Sizes] :
        \E gone \in SUBSET (Live \ dense(size)) :
           /\ levels' = [k \in Keys |->
                           IF k \in dense(size) THEN Seen(levels[k], size[k])
                           ELSE IF k \in gone THEN NoLevel ELSE levels[k]]
           /\ held' = Held({k \in dense(size) : kind(size)[k] = "holding"}, gone)
           /\ Emit(ReportsOf(dense(size), kind(size)) \o ReportsOf(gone, end))
           /\ UNCHANGED <<now, batch, stored, rows>>
  BY DEF Update
<1>2. PICK D, g : D = dense(size) /\ g = kind(size)
  OBVIOUS
<1>3. PICK gone \in SUBSET (Live \ D) :
           /\ levels' = [k \in Keys |-> IF k \in D THEN Seen(levels[k], size[k])
                                        ELSE IF k \in gone THEN NoLevel ELSE levels[k]]
           /\ held' = Held({k \in D : g[k] = "holding"}, gone)
           /\ Emit(ReportsOf(D, g) \o ReportsOf(gone, end))
           /\ UNCHANGED <<now, batch, stored, rows>>
  BY <1>1, <1>2
<1>4. /\ D \in SUBSET Keys /\ gone \in SUBSET Keys
      /\ \A k \in Keys : size[k] \in Nat
      /\ \A k \in D : size[k] \in Nat \ {0}
  <2>1. D = dense(size) /\ dense(size) \in SUBSET Keys
    BY <1>2
  <2>2. D \in SUBSET Keys /\ gone \in SUBSET Keys
    BY <2>1 DEF Live
  <2>3. \A k \in Keys : size[k] \in Nat
    BY DEF DensityAssumption
  <2>4. ASSUME NEW k \in D PROVE size[k] >= MinSize /\ MinSize \in Nat \ {0}
    BY <2>1 DEF DensityAssumption
  <2>5. \A k \in D : size[k] \in Nat \ {0}
    BY <2>2, <2>3, <2>4
  <2>6. QED
    BY <2>2, <2>3, <2>5
<1>5. /\ g \in [Keys -> Kinds \cup {"none"}]
      /\ \A k \in Keys : /\ levels[k] = NoLevel => g[k] = "appeared"
                         /\ levels[k] # NoLevel
                              => g[k] \in {"refilled", "holding", "eaten", "none"}
                         /\ g[k] = "holding" => k \notin held
  BY <1>2, <1>4, KindIs DEF DensityShape
<1>6. /\ end \in [Keys -> Kinds \cup {"none"}]
      /\ \A k \in Keys : end[k] \in {"pulled", "absorbed"}
  BY EndIs DEF Kinds
<1> HIDE DEF dense, kind, end
<1> DEFINE first == ReportsOf(D, g)
           second == ReportsOf(gone, end)
<1>7. /\ first \in Seq(Reports)
      /\ \A k \in Keys : k \notin D \/ g[k] = "none" => TellsNothing(first, k)
      /\ \A k \in D : g[k] # "none" => TellsOnce(first, k, g[k])
  BY <1>4, <1>5, ReportsOfIs
<1>8. /\ second \in Seq(Reports)
      /\ \A k \in Keys : k \notin gone => TellsNothing(second, k)
      /\ \A k \in gone : TellsOnce(second, k, end[k])
  BY <1>4, <1>6, ReportsOfIs
<1>9. PICK new \in Seq(Reports) : new = first \o second
  BY <1>7, <1>8, TellsConcat
<1>10. Emit(new)
  BY <1>3, <1>9
<1> HIDE DEF first, second
<1>11. /\ \A k \in D : g[k] # "none" => TellsOnce(new, k, g[k])
       /\ \A k \in gone : TellsOnce(new, k, end[k])
       /\ \A k \in Keys : (k \notin D \/ g[k] = "none") /\ k \notin gone => TellsNothing(new, k)
  BY <1>3, <1>4, <1>7, <1>8, <1>9, TellsConcat
<1>12. \A k \in D : /\ levels'[k] \in LevelRecords /\ levels'[k] # NoLevel
                    /\ levels'[k].first <= levels'[k].last /\ levels'[k].last <= now
                    /\ 10 * levels'[k].size <= 11 * levels'[k].max
  <2>1. \A k \in D : levels'[k] = Seen(levels[k], size[k])
    BY <1>3, <1>4
  <2>2. \A k \in Keys : /\ levels[k] \in LevelRecords
                       /\ levels[k] # NoLevel
                            => levels[k].first <= levels[k].last /\ levels[k].last <= now
    BY DEF DensityShape, LevelsFit, Live
  <2>3. QED
    BY <1>4, <2>1, <2>2, SeenIs DEF DensityShape
<1>13. /\ \A k \in gone : levels'[k] = NoLevel /\ Lives(k)
       /\ \A k \in Keys : k \notin D /\ k \notin gone => levels'[k] = levels[k]
  BY <1>3, <1>4 DEF Live, Lives
<1>14. levels' \in [Keys -> LevelRecords]
  <2>1. NoLevel \in LevelRecords
    BY DEF NoLevel, LevelRecords
  <2>2. \A k \in Keys : levels'[k] \in LevelRecords
    BY <1>12, <1>13, <2>1 DEF DensityShape
  <2>3. QED
    BY <1>3, <2>2
<1>15. LevelsFit'
  BY <1>3, <1>12, <1>13 DEF LevelsFit, Live, DensityShape
<1>16. held' = (held \cup {k \in D : g[k] = "holding"}) \ gone
  BY <1>3 DEF Held
<1>17. held' \subseteq Live'
  BY <1>4, <1>12, <1>13, <1>16 DEF Live, DensityShape
<1>18. ASSUME NEW k \in Keys PROVE Told(new, k)
  <2>1. k \in held => Lives(k)
    BY DEF DensityShape, Live, Lives
  <2>2. CASE k \in D
    <3>1. Lives(k)' /\ k \notin gone
      BY <1>3, <1>12, <2>2 DEF Lives
    <3>2. k \in held' <=> k \in held \/ g[k] = "holding"
      BY <1>16, <2>2, <3>1
    <3>3. CASE ~Lives(k)
      BY <1>5, <1>11, <2>1, <2>2, <3>1, <3>2, <3>3 DEF Told, Lives
    <3>4. CASE Lives(k)
      <4>1. g[k] \in {"refilled", "holding", "eaten", "none"}
        BY <1>5, <3>4 DEF Lives
      <4>2. g[k] = "holding" => k \notin held
        BY <1>5
      <4>3. QED
        BY <1>11, <2>2, <3>1, <3>2, <3>4, <4>1, <4>2 DEF Told
    <3>5. QED
      BY <3>3, <3>4
  <2>3. CASE k \in gone
    <3>1. Lives(k) /\ ~Lives(k)' /\ k \notin held'
      BY <1>13, <1>16, <2>3 DEF Lives
    <3>2. QED
      BY <1>6, <1>11, <2>3, <3>1 DEF Told
  <2>4. CASE k \notin D /\ k \notin gone
    <3>1. (Lives(k)' <=> Lives(k)) /\ (k \in held' <=> k \in held)
      BY <1>13, <1>16, <2>4 DEF Lives
    <3>2. QED
      BY <1>11, <2>4, <3>1 DEF Told
  <2>5. QED
    BY <2>2, <2>3, <2>4
<1>19. QED
  BY <1>3, <1>10, <1>14, <1>15, <1>17, <1>18

-----------------------------------------------------------------------------
(* The steps *)

LEMMA EmitIs ==
    ASSUME DensityAssumption, DensityIInv, NEW new \in Seq(Reports), Emit(new),
           UNCHANGED <<batch, stored>>
    PROVE  /\ reports' = reports \o new /\ reports' \in Seq(Reports)
           /\ actionable' \in 0..Len(reports')
           /\ InOrder'
<1> DEFINE n == Len(reports)
           m == Len(new)
           numbers == [i \in 1..m |-> n + i]
           all == queue \o numbers
<1>1. /\ n \in Nat /\ m \in Nat /\ reports' = reports \o new
      /\ reports' \in Seq(Reports) /\ Len(reports') = n + m
  BY ConcatIs DEF Emit, DensityIInv, DensityShape
<1>2. /\ queue \in Seq(1..n) /\ batch \in Seq(1..n) /\ stored \in Seq(1..n)
      /\ batch' = batch /\ stored' = stored /\ queue' = LastOf(all, QueueLimit)
      /\ QueueLimit \in Nat
  BY DEF DensityIInv, InOrder, Numbers, Emit, DensityAssumption
<1>3. actionable' \in 0..(n + m)
  <2> DEFINE acted == {i \in 1..m : new[i].kind \in Actionable}
  <2>1. actionable' = IF acted = {} THEN actionable
                      ELSE n + (CHOOSE i \in acted : \A j \in acted : j <= i)
    BY DEF Emit
  <2>2. CASE acted = {}
    BY <1>1, <2>1, <2>2 DEF DensityIInv, DensityShape
  <2>3. CASE acted # {}
    <3>1. acted \in SUBSET Nat /\ IsFiniteSet(acted)
      <4>1. IsFiniteSet(1..m) /\ acted \subseteq 1..m
        BY <1>1, FS_Interval
      <4>2. QED
        BY <4>1, FS_Subset
    <3>2. (CHOOSE i \in acted : \A j \in acted : j <= i) \in 1..m
      BY <2>3, <3>1, GreatestExists
    <3> HIDE DEF acted
    <3>3. QED
      BY <1>1, <2>1, <2>3, <3>2
  <2>4. QED
    BY <2>2, <2>3
<1> HIDE DEF n, m
<1>4. /\ numbers \in Seq(1..(n + m)) /\ Len(numbers) = m
      /\ \A i \in 1..m : numbers[i] = n + i
  BY <1>1
<1>5. /\ queue \in Seq(1..(n + m)) /\ batch \in Seq(1..(n + m))
      /\ stored \in Seq(1..(n + m)) /\ 1..(n + m) \subseteq Nat
  BY <1>1, <1>2
<1> HIDE DEF numbers
<1>6. Rising(numbers)
  BY <1>1, <1>4 DEF Rising
<1>7. \A s \in Seq(1..n) : Precedes(s, numbers)
  BY <1>1, <1>4 DEF Precedes
<1>8. all \in Seq(1..(n + m)) /\ Len(all) \in Nat
  BY <1>4, <1>5, ConcatIs
<1>9. Rising(all)
  <2>1. Rising(queue)
    BY DEF DensityIInv, InOrder
  <2>2. QED
    BY <1>2, <1>4, <1>5, <1>6, <1>7, <2>1, RisingConcat
<1>10. ASSUME NEW s \in Seq(1..n), Precedes(s, queue) PROVE Precedes(s, all)
  <2> SUFFICES ASSUME NEW i \in 1..Len(s), NEW j \in 1..Len(all) PROVE s[i] < all[j]
    BY DEF Precedes
  <2>1. j \in 1..Len(queue) \/ j - Len(queue) \in 1..Len(numbers)
    BY <1>4, <1>5, ConcatIs
  <2>2. CASE j \in 1..Len(queue)
    BY <1>4, <1>5, <1>10, <2>2, ConcatIs DEF Precedes
  <2>3. CASE j - Len(queue) \in 1..Len(numbers)
    <3>1. j = Len(queue) + (j - Len(queue))
      BY <1>5
    <3>2. all[j] = numbers[j - Len(queue)]
      BY <1>4, <1>5, <2>3, <3>1, ConcatIs
    <3>3. QED
      BY <1>7, <2>3, <3>2 DEF Precedes
  <2>4. QED
    BY <2>1, <2>2, <2>3
<1> HIDE DEF all
<1>11. PICK d \in Nat : Part(queue', all, d)
  <2>1. queue' \in Seq(1..(n + m))
    BY <1>2, <1>8, LastOfIs
  <2>2. PICK d \in Nat : /\ Len(all) = d + Len(queue')
                         /\ \A i \in 1..Len(queue') : queue'[i] = all[d + i]
    BY <1>2, <1>8, LastOfIs
  <2>3. Len(queue') \in Nat /\ d + Len(queue') <= Len(all)
    BY <1>8, <2>1, <2>2
  <2>4. QED
    BY <2>2, <2>3 DEF Part
<1>12. /\ queue' \in Seq(1..(n + m)) /\ Len(queue') <= QueueLimit
       /\ Rising(queue')
  BY <1>2, <1>8, <1>9, <1>11, LastOfIs, PartOfRising
<1>13. Precedes(stored, queue') /\ Precedes(batch, queue')
  BY <1>2, <1>8, <1>10, <1>11, PartOfRising DEF DensityIInv, InOrder
<1>14. InOrder'
  BY <1>1, <1>2, <1>5, <1>12, <1>13 DEF DensityIInv, InOrder, Numbers
<1>15. QED
  BY <1>1, <1>3, <1>14

LEMMA UpdateIInv == DensityAssumption /\ DensityIInv /\ Update => DensityIInv'
<1> SUFFICES ASSUME DensityAssumption, DensityIInv, Update PROVE DensityIInv'
  OBVIOUS
<1>1. PICK new \in Seq(Reports) :
        /\ levels' \in [Keys -> LevelRecords] /\ LevelsFit' /\ held' \subseteq Live'
        /\ Emit(new)
        /\ UNCHANGED <<now, batch, stored, rows>>
  BY UpdateIs DEF DensityIInv
<1>2. reports' \in Seq(Reports) /\ actionable' \in 0..Len(reports') /\ InOrder'
  BY <1>1, EmitIs
<1>3. QED
  BY <1>1, <1>2 DEF DensityIInv, DensityShape

LEMMA DrainIInv == DensityAssumption /\ DensityIInv /\ Drain => DensityIInv'
<1> SUFFICES ASSUME DensityAssumption, DensityIInv, Drain PROVE DensityIInv'
  OBVIOUS
<1> DEFINE n == IF Len(queue) < DrainLimit THEN Len(queue) ELSE DrainLimit
<1>1. UNCHANGED <<now, levels, held, reports, actionable, stored, rows>>
  BY DEF Drain
<1>2. queue \in Seq(Numbers) /\ Len(queue) \in Nat /\ DrainLimit \in Nat
  BY DEF DensityIInv, InOrder, DensityAssumption
<1>3. n \in 0..Len(queue) /\ n \in 0..n /\ n <= DrainLimit /\ 0 \in 0..Len(queue)
      /\ Len(queue) \in n..Len(queue)
  BY <1>2
<1>4. batch' = SubSeq(queue, 1, n)
  BY DEF Drain, Drained
<1> HIDE DEF n
<1>5. /\ batch' \in Seq(Numbers) /\ Len(batch') = n
      /\ \A i \in 1..n : batch'[i] = queue[i]
  BY <1>2, <1>3, <1>4
<1>6. queue' = SubSeq(queue, n + 1, Len(queue))
  BY <1>4, <1>5 DEF Drain
<1>7. /\ queue' \in Seq(Numbers) /\ Len(queue') = Len(queue) - n
      /\ \A i \in 1..Len(queue') : queue'[i] = queue[n + i]
  BY <1>2, <1>3, <1>6, PartIs
<1>8. Part(batch', queue, 0) /\ Part(queue', queue, n)
  <2>1. Part(batch', queue, 0)
    <3>1. \A i \in 1..Len(batch') : batch'[i] = queue[0 + i]
      BY <1>3, <1>5
    <3>2. 0 \in Nat /\ Len(batch') + 0 <= Len(queue)
      BY <1>2, <1>3, <1>5
    <3>3. QED
      BY <1>2, <1>5, <3>1, <3>2 DEF Part
  <2>2. Part(queue', queue, n)
    <3>1. n \in Nat /\ Len(queue') + n <= Len(queue)
      BY <1>2, <1>3, <1>7
    <3>2. QED
      BY <1>7, <3>1 DEF Part
  <2>3. QED
    BY <2>1, <2>2
<1>9. Rising(queue) /\ Precedes(stored, queue) /\ Len(queue) <= QueueLimit
  BY DEF DensityIInv, InOrder
<1>10. /\ Rising(batch') /\ Rising(queue')
       /\ Precedes(stored, batch') /\ Precedes(stored, queue')
  BY <1>2, <1>3, <1>8, <1>9, PartOfRising
<1>11. Precedes(batch', queue')
  <2> SUFFICES ASSUME NEW i \in 1..Len(batch'), NEW j \in 1..Len(queue')
               PROVE  batch'[i] < queue'[j]
    BY DEF Precedes
  <2>1. /\ i \in 1..Len(queue) /\ n + j \in 1..Len(queue) /\ i < n + j
        /\ batch'[i] = queue[i] /\ queue'[j] = queue[n + j]
    BY <1>2, <1>3, <1>5, <1>7
  <2>2. QED
    BY <1>9, <2>1 DEF Rising
<1>12. Len(queue') <= QueueLimit /\ Len(batch') <= DrainLimit
  BY <1>2, <1>3, <1>5, <1>7, <1>9 DEF DensityAssumption
<1>13. QED
  BY <1>1, <1>5, <1>7, <1>10, <1>11, <1>12
     DEF DensityIInv, DensityShape, InOrder, LevelsFit, Live, Numbers

LEMMA StoreIInv == DensityAssumption /\ DensityIInv /\ Store => DensityIInv'
<1> SUFFICES ASSUME DensityAssumption, DensityIInv, Store PROVE DensityIInv'
  OBVIOUS
<1>1. /\ stored' = stored \o batch /\ batch' = <<>> /\ rows' = rows \cup Live
      /\ UNCHANGED <<now, levels, held, reports, queue, actionable>>
  BY DEF Store
<1>2. /\ stored \in Seq(Numbers) /\ batch \in Seq(Numbers) /\ queue \in Seq(Numbers)
      /\ Rising(stored) /\ Rising(batch) /\ Precedes(stored, batch)
      /\ Precedes(stored, queue) /\ Precedes(batch, queue) /\ Numbers \in SUBSET Nat
  BY DEF DensityIInv, InOrder, Numbers
<1>3. stored' \in Seq(Numbers) /\ Rising(stored')
  BY <1>1, <1>2, ConcatIs, RisingConcat
<1>4. Precedes(stored', queue)
  <2> SUFFICES ASSUME NEW i \in 1..Len(stored'), NEW j \in 1..Len(queue)
               PROVE  stored'[i] < queue[j]
    BY DEF Precedes
  <2>1. i \in 1..Len(stored) \/ i - Len(stored) \in 1..Len(batch)
    BY <1>1, <1>2, ConcatIs
  <2>2. CASE i \in 1..Len(stored)
    BY <1>1, <1>2, <2>2, ConcatIs DEF Precedes
  <2>3. CASE i - Len(stored) \in 1..Len(batch)
    <3>1. i = Len(stored) + (i - Len(stored))
      BY <1>2
    <3>2. stored'[i] = batch[i - Len(stored)]
      BY <1>1, <1>2, <2>3, <3>1, ConcatIs
    <3>3. QED
      BY <1>2, <2>3, <3>2 DEF Precedes
  <2>4. QED
    BY <2>1, <2>2, <2>3
<1>5. Live' = Live /\ Live \subseteq Keys
  BY <1>1 DEF Live
<1>6. /\ <<>> \in Seq(Numbers) /\ Rising(<<>>) /\ Len(<<>>) <= DrainLimit
      /\ Precedes(stored', <<>>) /\ Precedes(<<>>, queue)
  BY DEF Rising, Precedes, DensityAssumption
<1>7. QED
  BY <1>1, <1>3, <1>4, <1>5, <1>6 DEF DensityIInv, DensityShape, InOrder, LevelsFit, Numbers

LEMMA DensityNextIInv == DensityAssumption /\ DensityIInv /\ [DensityNext]_densityVars => DensityIInv'
<1> SUFFICES ASSUME DensityAssumption, DensityIInv, [DensityNext]_densityVars PROVE DensityIInv'
  OBVIOUS
<1>1. CASE Clock
  <2>1. /\ now' = now + 1 /\ now \in Nat
        /\ UNCHANGED <<levels, held, reports, queue, actionable, batch, stored, rows>>
    BY <1>1 DEF Clock, DensityIInv, DensityShape
  <2>2. LevelsFit'
    <3>1. \A k \in Live : levels[k].last \in Nat
      BY DEF DensityIInv, DensityShape, Live, LevelRecords
    <3>2. QED
      BY <2>1, <3>1 DEF DensityIInv, DensityShape, LevelsFit, Live
  <2>3. QED
    BY <2>1, <2>2 DEF DensityIInv, DensityShape, InOrder, Live, Numbers
<1>2. CASE Skip
  <2>1. /\ <<>> \in Seq(Numbers) /\ Rising(<<>>) /\ Len(<<>>) <= DrainLimit
        /\ Precedes(stored, <<>>) /\ Precedes(<<>>, queue)
    BY DEF Rising, Precedes, DensityAssumption
  <2>2. QED
    BY <1>2, <2>1 DEF Skip, DensityIInv, DensityShape, InOrder, LevelsFit, Live, Numbers
<1>3. CASE UNCHANGED densityVars
  BY <1>3 DEF densityVars, DensityIInv, DensityShape, InOrder, LevelsFit, Live, Numbers
<1>4. QED
  BY <1>1, <1>2, <1>3, UpdateIInv, DrainIInv, StoreIInv DEF DensityNext

LEMMA DensityInvariance == ASSUME DensityAssumption PROVE DensitySpec => []DensityIInv
<1>1. DensityInit => DensityIInv
  BY DensityInitIInv
<1>2. DensityIInv /\ [DensityNext]_densityVars => DensityIInv'
  BY DensityNextIInv
<1>3. QED
  BY <1>1, <1>2, PTL DEF DensitySpec

\* Every variable keeps its type, the deque and the batches their limits, and what is
\* queued, held or stored is a number of a report.
THEOREM DensityTypeCorrect == ASSUME DensityAssumption PROVE DensitySpec => []DensityTypeOK
<1>1. DensityIInv => DensityTypeOK
  BY DEF DensityIInv, DensityShape, InOrder, LevelsFit, Numbers, DensityTypeOK, ToSet
<1>2. QED
  BY DensityInvariance, <1>1, PTL

\* However many events the deque drops and however often the database is locked: what is
\* stored of a symbol's densities is stored once and in the order it happened.
THEOREM StoredOnceInOrder == ASSUME DensityAssumption PROVE DensitySpec => []DensityHistory
<1>1. DensityIInv => DensityHistory
  BY DEF DensityIInv, InOrder, Rising, DensityHistory
<1>2. QED
  BY DensityInvariance, <1>1, PTL

-----------------------------------------------------------------------------
(* The lives of the levels *)

LEMMA LastReport ==
    ASSUME reports \in Seq(Reports), NEW new \in Seq(Reports), reports' = reports \o new,
           NEW k \in Keys
    PROVE  /\ \A kind : TellsOnce(new, k, kind) => ReportOf(k)' = kind
           /\ TellsNothing(new, k) => ReportOf(k)' = ReportOf(k)
<1> DEFINE mine == {i \in DOMAIN reports : reports[i].key = k}
           later == {i \in DOMAIN reports' : reports'[i].key = k}
<1>1. PICK n \in Nat, m \in Nat : n = Len(reports) /\ m = Len(new)
  OBVIOUS
<1>2. /\ DOMAIN reports = 1..n /\ DOMAIN reports' = 1..(n + m)
      /\ \A i \in 1..n : reports'[i] = reports[i]
      /\ \A i \in 1..m : reports'[n + i] = new[i]
      /\ \A i \in 1..(n + m) : i \in 1..n \/ (i - n \in 1..m /\ i = n + (i - n))
  BY <1>1, ConcatIs
<1>3. /\ ReportOf(k) = IF mine = {} THEN "none"
                       ELSE reports[CHOOSE i \in mine : \A j \in mine : j <= i].kind
      /\ ReportOf(k)' = IF later = {} THEN "none"
                        ELSE reports'[CHOOSE i \in later : \A j \in later : j <= i].kind
  BY DEF ReportOf
<1>4. mine \subseteq 1..n /\ mine \subseteq later
  BY <1>2
<1>5. ASSUME NEW kind, TellsOnce(new, k, kind) PROVE ReportOf(k)' = kind
  <2>1. PICK i \in 1..m : /\ new[i] = [key |-> k, kind |-> kind]
                         /\ \A j \in 1..m : new[j].key = k => j = i
    BY <1>1, <1>5 DEF TellsOnce
  <2>2. n + i \in later /\ reports'[n + i].kind = kind
    BY <1>2, <2>1
  <2>3. \A j \in later : j \in Nat /\ j <= n + i
    <3> SUFFICES ASSUME NEW j \in later PROVE j \in Nat /\ j <= n + i
      OBVIOUS
    <3>1. CASE j \in 1..n
      BY <3>1
    <3>2. CASE j - n \in 1..m /\ j = n + (j - n)
      <4>1. new[j - n].key = k
        BY <1>2, <3>2
      <4>2. QED
        BY <2>1, <3>2, <4>1
    <3>3. QED
      BY <1>2, <3>1, <3>2
  <2>4. \A x \in later : (\A j \in later : j <= x) => x = n + i
    BY <2>2, <2>3
  <2> HIDE DEF later
  <2>5. (CHOOSE x \in later : \A j \in later : j <= x) = n + i
    BY <2>2, <2>3, <2>4
  <2>6. QED
    BY <1>3, <2>2, <2>5
<1>6. ASSUME TellsNothing(new, k) PROVE ReportOf(k)' = ReportOf(k)
  <2>1. later \subseteq mine
    <3> SUFFICES ASSUME NEW j \in later PROVE j \in mine
      OBVIOUS
    <3>1. CASE j \in 1..n
      BY <1>2, <3>1
    <3>2. CASE j - n \in 1..m /\ j = n + (j - n)
      BY <1>1, <1>2, <1>6, <3>2 DEF TellsNothing
    <3>3. QED
      BY <1>2, <3>1, <3>2
  <2>2. later = mine
    BY <1>4, <2>1
  <2>3. mine # {} => \E i \in mine : \A j \in mine : j <= i
    <3> HIDE DEF mine, later
    <3>1. IsFiniteSet(1..n)
      BY FS_Interval
    <3>2. IsFiniteSet(mine)
      BY <1>4, <3>1, FS_Subset
    <3>3. \A i \in 1..n : i \in Nat
      OBVIOUS
    <3>4. mine \in SUBSET Nat
      BY <1>4, <3>3
    <3>5. QED
      BY <3>2, <3>4, GreatestExists
  <2> HIDE DEF later
  <2>4. mine # {} => (CHOOSE i \in mine : \A j \in mine : j <= i) \in 1..n
    <3> HIDE DEF mine
    <3>1. QED
      BY <1>4, <2>3
  <2> HIDE DEF mine
  <2>5. QED
    BY <1>2, <1>3, <2>2, <2>4
<1>7. QED
  BY <1>5, <1>6

LEMMA InitLife == DensityInit => Life!Init
<1> SUFFICES ASSUME DensityInit PROVE Life!Init
  OBVIOUS
<1>1. ASSUME NEW k \in Keys PROVE PhaseOf(k) = "absent" /\ ReportOf(k) = "none"
  BY DEF DensityInit, PhaseOf, Live, ReportOf
<1>2. QED
  BY <1>1 DEF Life!Init

\* An order book is a step of every life it tells of.
LEMMA UpdateLife == DensityAssumption /\ DensityIInv /\ Update => Life!Next
<1> SUFFICES ASSUME DensityAssumption, DensityIInv, Update, NEW k \in Keys
             PROVE  \/ Life!Appears(k) \/ Life!Holds(k) \/ Life!Changes(k) \/ Life!Ends(k)
                    \/ Life!Stays(k)
  BY DEF Life!Next
<1>1. PICK new \in Seq(Reports) : Emit(new) /\ Told(new, k)
  BY UpdateIs DEF DensityIInv
<1>2. reports \in Seq(Reports) /\ reports' = reports \o new
  BY <1>1 DEF DensityIInv, DensityShape, Emit
<1>3. /\ \A kind : TellsOnce(new, k, kind) => ReportOf(k)' = kind
      /\ TellsNothing(new, k) => ReportOf(k)' = ReportOf(k)
  BY <1>2, LastReport
<1>4. /\ PhaseOf(k) = IF ~Lives(k) THEN "absent" ELSE IF k \in held THEN "held" ELSE "alive"
      /\ PhaseOf(k)' = IF ~Lives(k)' THEN "absent" ELSE IF k \in held' THEN "held" ELSE "alive"
  BY DEF PhaseOf, Lives, Live
<1>5. /\ ~Lives(k) => k \notin held
      /\ ~Lives(k)' => k \notin held'
  <2>1. held' \subseteq Live'
    BY UpdateIs DEF DensityIInv
  <2>2. QED
    BY <2>1 DEF DensityIInv, DensityShape, Live, Lives
<1> DEFINE p(i) == PhaseOf(i)
           q(i) == ReportOf(i)
<1>6. /\ Life!Appears(k) <=> p(k) = "absent" /\ p(k)' = "alive" /\ q(k)' = "appeared"
      /\ Life!Holds(k) <=> p(k) = "alive" /\ p(k)' = "held" /\ q(k)' = "holding"
      /\ Life!Changes(k) <=> /\ p(k) \in {"alive", "held"} /\ p(k)' = p(k)
                             /\ q(k)' \in {"refilled", "eaten"}
      /\ Life!Ends(k) <=> /\ p(k) \in {"alive", "held"} /\ p(k)' = "absent"
                          /\ q(k)' \in {"pulled", "absorbed"}
      /\ Life!Stays(k) <=> p(k)' = p(k) /\ q(k)' = q(k)
  BY DEF Life!Appears, Life!Holds, Life!Changes, Life!Ends, Life!Stays
<1>7. QED
  BY <1>1, <1>3, <1>4, <1>5, <1>6 DEF Told

\* Over shrinking, growing and vanishing orders, and new lives at the same price, the
\* reports tell each life of a level as DensityLife says.
THEOREM LivesRefine == ASSUME DensityAssumption PROVE DensitySpec => LivesAreTold
<1>1. DensityIInv /\ [DensityNext]_densityVars => [Life!Next]_(<<[k \in Keys |-> PhaseOf(k)],
                                           [k \in Keys |-> ReportOf(k)]>>)
  <2> SUFFICES ASSUME DensityIInv, [DensityNext]_densityVars, ~Update
               PROVE  UNCHANGED <<[k \in Keys |-> PhaseOf(k)], [k \in Keys |-> ReportOf(k)]>>
    BY UpdateLife
  <2>1. UNCHANGED <<levels, held, reports>>
    BY DEF DensityNext, densityVars, Clock, Drain, Store, Skip
  <2>2. \A k \in Keys : PhaseOf(k)' = PhaseOf(k) /\ ReportOf(k)' = ReportOf(k)
    BY <2>1 DEF PhaseOf, ReportOf, Live
  <2>3. QED
    BY <2>2
<1>2. DensityInit => DensityIInv /\ Life!Init
  BY DensityInitIInv, InitLife
<1>3. DensityIInv /\ [DensityNext]_densityVars => DensityIInv'
  BY DensityNextIInv
<1>4. QED
  BY <1>1, <1>2, <1>3, PTL DEF DensitySpec, LivesAreTold, Life!Spec

-----------------------------------------------------------------------------
(* ---------------------------- the feature store ----------------------------- *)

(* Induction on numbers, for a set *)

LEMMA LeastNumber ==
    ASSUME NEW B \in SUBSET Nat, B # {}
    PROVE  \E n \in B : \A m \in B : n <= m
<1> DEFINE R == OpToRel(<, Nat)
<1>1. IsWellFoundedOn(R, Nat)
  BY NatLessThanWellFounded
<1>2. \A m, n \in Nat : m < n => <<m, n>> \in R
  BY DEF OpToRel
<1> HIDE DEF R
<1>3. PICK n \in B : \A m \in B : ~(<<m, n>> \in R)
  BY <1>1, WFMin
<1>4. \A m \in B : ~(m < n)
  BY <1>2, <1>3
<1>5. QED
  BY <1>3, <1>4

LEMMA Climb ==
    ASSUME NEW G, NEW a \in Nat, NEW b \in Nat, a <= b => a \in G,
           \A n \in a..(b - 1) : n \in G => n + 1 \in G
    PROVE  \A n \in a..b : n \in G
<1> DEFINE Bad == {n \in a..b : n \notin G}
<1> SUFFICES ASSUME Bad # {} PROVE FALSE
  OBVIOUS
<1>1. Bad \in SUBSET Nat
  OBVIOUS
<1>2. PICK n \in Bad : \A m \in Bad : n <= m
  BY <1>1, LeastNumber
<1>3. n \in a..b /\ n \notin G
  OBVIOUS
<1>4. n # a /\ a \in Nat /\ b \in Nat /\ n \in Int
  BY <1>3
<1>5. n - 1 \in a..(b - 1) /\ n - 1 \in a..b /\ n - 1 < n /\ (n - 1) + 1 = n
  BY <1>3, <1>4
<1>6. n - 1 \in G
  BY <1>2, <1>5
<1>7. QED
  BY <1>3, <1>5, <1>6

(* What a deque loses *)

Points == [at : Int, value : Int]

\* The end of h: all but its first d elements.
EndOf(k, h, d) == Len(k) = Len(h) - d /\ \A i \in 1..Len(k) : k[i] = h[d + i]

LEMMA NewestIs ==
    ASSUME NEW S, NEW s \in Seq(S), NEW n \in Nat
    PROVE  /\ Newest(s, n) \in Seq(S) /\ Len(Newest(s, n)) <= n
           /\ \E d \in 0..Len(s) : /\ EndOf(Newest(s, n), s, d)
                                   /\ Len(s) <= n => d = 0
                                   /\ Len(s) >= n => d = Len(s) - n
<1>1. Len(s) \in Nat
  OBVIOUS
<1>2. CASE Len(s) <= n
  <2>1. Max({1, Len(s) + 1 - n}) = 1 /\ 0 + 1 = 1
    BY <1>1, <1>2 DEF Max
  <2>2. Newest(s, n) = SubSeq(s, 0 + 1, Len(s)) /\ 0 \in 0..Len(s) /\ Len(s) \in 0..Len(s)
    <3>1. Newest(s, n) = SubSeq(s, 1, Len(s))
      BY <2>1 DEF Newest
    <3>2. QED
      BY <1>1, <2>1, <3>1
  <2>3. /\ Newest(s, n) \in Seq(S) /\ Len(Newest(s, n)) = Len(s) - 0
        /\ \A i \in 1..(Len(s) - 0) : Newest(s, n)[i] = s[0 + i]
    BY <2>2, PartIs
  <2>4. EndOf(Newest(s, n), s, 0)
    BY <2>3 DEF EndOf
  <2>5. QED
    BY <1>1, <1>2, <2>2, <2>3, <2>4
<1>3. CASE Len(s) > n
  <2> DEFINE d == Len(s) - n
  <2>1. d \in 0..Len(s) /\ Len(s) \in d..Len(s) /\ Len(s) - d = n /\ Len(s) + 1 - n = d + 1
    BY <1>1, <1>3
  <2>2. Max({1, Len(s) + 1 - n}) = d + 1
    BY <1>1, <1>3, <2>1 DEF Max
  <2>3. Newest(s, n) = SubSeq(s, d + 1, Len(s))
    BY <2>2 DEF Newest
  <2> HIDE DEF d
  <2>4. /\ Newest(s, n) \in Seq(S) /\ Len(Newest(s, n)) = Len(s) - d
        /\ \A i \in 1..(Len(s) - d) : Newest(s, n)[i] = s[d + i]
    BY <2>1, <2>3, PartIs
  <2>5. EndOf(Newest(s, n), s, d)
    BY <2>4 DEF EndOf
  <2>6. d = Len(s) - n
    BY DEF d
  <2>7. QED
    BY <1>1, <1>3, <2>1, <2>4, <2>5, <2>6
<1>4. QED
  BY <1>1, <1>2, <1>3

LEMMA PointIs ==
    ASSUME NEW s \in Seq(Points)
    PROVE  Len(s) \in Nat /\ DOMAIN s = 1..Len(s) /\ \A i \in 1..Len(s) : s[i].at \in Int
<1>1. \A i \in 1..Len(s) : s[i] \in Points
  OBVIOUS
<1>2. \A x \in Points : x.at \in Int
  BY DEF Points
<1>3. QED
  BY <1>1, <1>2

LEMMA TrimIs ==
    ASSUME NEW s \in Seq(Points), NEW c \in Int
    PROVE  /\ Trim(s, c) \in Seq(Points)
           /\ \E d \in 0..Len(s) : EndOf(Trim(s, c), s, d) /\ \A i \in 1..d : s[i].at < c
<1> DEFINE fresh == {i \in DOMAIN s : s[i].at >= c}
<1>1. Len(s) \in Nat /\ DOMAIN s = 1..Len(s) /\ \A i \in 1..Len(s) : s[i].at \in Int
  BY PointIs
<1>2. CASE fresh = {}
  <2>1. Trim(s, c) = <<>>
    BY <1>2 DEF Trim
  <2>2. EndOf(<<>>, s, Len(s)) /\ Len(s) \in 0..Len(s)
    BY <1>1 DEF EndOf
  <2>3. \A i \in 1..Len(s) : s[i].at < c
    BY <1>1, <1>2
  <2>4. QED
    BY <2>1, <2>2, <2>3
<1>3. CASE fresh # {}
  <2> DEFINE m == Min(fresh)
             d == m - 1
  <2>1. fresh \in SUBSET Nat
    BY <1>1
  <2>2. m \in fresh /\ \A i \in fresh : m <= i
    BY <1>3, <2>1, LeastNumber DEF Min
  <2>3. m \in 1..Len(s)
    BY <1>1, <2>2
  <2>4. d \in 0..Len(s) /\ Len(s) \in d..Len(s) /\ d + 1 = m
    BY <1>1, <2>3
  <2>5. Trim(s, c) = SubSeq(s, d + 1, Len(s))
    BY <1>3, <2>4 DEF Trim
  <2>6. \A i \in 1..d : s[i].at < c
    <3> SUFFICES ASSUME NEW i \in 1..d, s[i].at >= c PROVE FALSE
      BY <1>1, <2>4
    <3>1. i \in 1..Len(s) /\ ~(m <= i)
      BY <1>1, <2>3
    <3>2. i \in fresh
      BY <1>1, <3>1
    <3>3. QED
      BY <2>2, <3>1, <3>2
  <2> HIDE DEF d, m, fresh
  <2>7. /\ Trim(s, c) \in Seq(Points) /\ Len(Trim(s, c)) = Len(s) - d
        /\ \A i \in 1..(Len(s) - d) : Trim(s, c)[i] = s[d + i]
    BY <2>4, <2>5, PartIs
  <2>8. EndOf(Trim(s, c), s, d)
    BY <2>7 DEF EndOf
  <2>9. QED
    BY <2>4, <2>6, <2>7, <2>8
<1>4. QED
  BY <1>2, <1>3

\* There is room for every candle and every event.
EnoughRoom == \A n \in SeedLengths : n + MaxEvents <= MaxPoints

\* k is what is left of h: if there is room, only what came before t is gone.
LeftOf(k, h, t) ==
    \E d \in 0..Len(h) : EndOf(k, h, d) /\ (EnoughRoom => \A i \in 1..d : h[i].at < t)

\* One append and one trimming of a deque.
LEMMA DequeIs ==
    ASSUME StoreAssumption, NEW k \in Seq(Points), NEW h \in Seq(Points), NEW n \in Seq(Points),
           NEW t \in Int, NEW c \in Int, c <= t, LeftOf(k, h, t),
           EnoughRoom => Len(h) + Len(n) <= MaxPoints
    PROVE  LET new == Trim(Newest(k \o n, MaxPoints), c)
           IN  /\ new \in Seq(Points) /\ Len(new) <= MaxPoints /\ h \o n \in Seq(Points)
               /\ LeftOf(new, h \o n, t)
<1> DEFINE a == k \o n
           b == Newest(a, MaxPoints)
           new == Trim(b, c)
           all == h \o n
<1>1. MaxPoints \in Nat
  BY DEF StoreAssumption
<1>2. PICK d1 \in 0..Len(h) : EndOf(k, h, d1) /\ (EnoughRoom => \A i \in 1..d1 : h[i].at < t)
  BY DEF LeftOf
<1>3. /\ a \in Seq(Points) /\ Len(a) = Len(k) + Len(n) /\ Len(k) \in Nat /\ Len(n) \in Nat
      /\ \A i \in 1..Len(k) : a[i] = k[i]
      /\ \A i \in 1..Len(n) : a[Len(k) + i] = n[i]
      /\ \A i \in 1..Len(a) : i \in 1..Len(k) \/ i - Len(k) \in 1..Len(n)
  BY ConcatIs
<1>4. /\ all \in Seq(Points) /\ Len(all) = Len(h) + Len(n) /\ Len(h) \in Nat
      /\ \A i \in 1..Len(h) : all[i] = h[i]
      /\ \A i \in 1..Len(n) : all[Len(h) + i] = n[i]
  BY ConcatIs
<1> HIDE DEF a, all
<1>5. EndOf(a, all, d1)
  <2>1. Len(k) = Len(h) - d1 /\ d1 \in Nat /\ d1 <= Len(h)
    BY <1>2, <1>4 DEF EndOf
  <2>2. Len(a) = Len(all) - d1
    BY <1>3, <1>4, <2>1
  <2>3. ASSUME NEW i \in 1..Len(a) PROVE a[i] = all[d1 + i]
    <3>1. CASE i \in 1..Len(k)
      <4>1. d1 + i \in 1..Len(h)
        BY <1>3, <1>4, <2>1, <3>1
      <4>2. k[i] = h[d1 + i]
        BY <1>2, <3>1 DEF EndOf
      <4>3. QED
        BY <1>3, <1>4, <3>1, <4>1, <4>2
    <3>2. CASE i - Len(k) \in 1..Len(n)
      <4> DEFINE j == i - Len(k)
      <4>1. i = Len(k) + j /\ d1 + i = Len(h) + j
        BY <1>3, <1>4, <2>1
      <4>2. QED
        BY <1>3, <1>4, <3>2, <4>1
    <3>3. QED
      BY <1>3, <3>1, <3>2
  <2>4. QED
    BY <2>2, <2>3 DEF EndOf
<1>6. /\ b \in Seq(Points) /\ Len(b) <= MaxPoints
      /\ \E d \in 0..Len(a) : EndOf(b, a, d) /\ (Len(a) <= MaxPoints => d = 0)
  BY <1>1, <1>3, NewestIs
<1>7. PICK d2 \in 0..Len(a) : EndOf(b, a, d2) /\ (Len(a) <= MaxPoints => d2 = 0)
  BY <1>6
<1> HIDE DEF b
<1>8. new \in Seq(Points) /\ \E d \in 0..Len(b) : EndOf(new, b, d) /\ \A i \in 1..d : b[i].at < c
  BY <1>6, TrimIs
<1>9. PICK d3 \in 0..Len(b) : EndOf(new, b, d3) /\ \A i \in 1..d3 : b[i].at < c
  BY <1>8
<1> HIDE DEF new
<1>10. /\ d1 \in Nat /\ d2 \in Nat /\ d3 \in Nat /\ Len(all) \in Nat /\ Len(a) \in Nat
       /\ Len(b) \in Nat /\ Len(new) \in Nat
       /\ Len(a) = Len(all) - d1 /\ Len(b) = Len(a) - d2 /\ Len(new) = Len(b) - d3
  <2>1. Len(all) \in Nat /\ Len(a) \in Nat /\ Len(b) \in Nat /\ Len(new) \in Nat
    BY <1>3, <1>4, <1>6, <1>8
  <2>2. Len(a) = Len(all) - d1 /\ Len(b) = Len(a) - d2 /\ Len(new) = Len(b) - d3
    BY <1>5, <1>7, <1>9 DEF EndOf
  <2>3. d1 \in Nat /\ d2 \in Nat /\ d3 \in Nat
    BY <1>4, <1>2, <1>7, <1>9, <2>1
  <2>4. QED
    BY <2>1, <2>2, <2>3
<1>11. EndOf(new, all, d1 + d2 + d3)
  <2>1. ASSUME NEW i \in 1..Len(new) PROVE new[i] = all[(d1 + d2 + d3) + i]
    <3>1. d3 + i \in 1..Len(b) /\ d2 + (d3 + i) \in 1..Len(a)
          /\ d1 + (d2 + (d3 + i)) = (d1 + d2 + d3) + i
      BY <1>10
    <3>2. new[i] = b[d3 + i] /\ b[d3 + i] = a[d2 + (d3 + i)]
          /\ a[d2 + (d3 + i)] = all[d1 + (d2 + (d3 + i))]
      BY <1>5, <1>7, <1>9, <3>1 DEF EndOf
    <3>3. QED
      BY <3>1, <3>2
  <2>2. Len(new) = Len(all) - (d1 + d2 + d3)
    BY <1>10
  <2>3. QED
    BY <2>1, <2>2 DEF EndOf
<1>12. ASSUME EnoughRoom, NEW i \in 1..(d1 + d2 + d3) PROVE all[i].at < t
  <2>1. d2 = 0
    <3>1. Len(a) <= Len(all) /\ Len(all) <= MaxPoints
      BY <1>1, <1>4, <1>10, <1>12
    <3>2. Len(a) <= MaxPoints
      BY <1>1, <1>10, <3>1
    <3>3. QED
      BY <1>7, <3>2
  <2>2. CASE i <= d1
    <3>1. i \in 1..d1 /\ i \in 1..Len(h)
      BY <1>2, <1>4, <1>10, <2>2
    <3>2. QED
      BY <1>2, <1>4, <1>12, <3>1
  <2>3. CASE i > d1
    <3> DEFINE j == i - d1
    <3>1. j \in 1..d3 /\ j \in 1..Len(b) /\ j \in 1..Len(a) /\ i = d1 + j /\ d2 + j = j
      BY <1>10, <2>1, <2>3
    <3> HIDE DEF j
    <3>2. b[j] = all[i]
      BY <1>5, <1>7, <3>1 DEF EndOf
    <3>3. b[j].at < c /\ b[j].at \in Int
      BY <1>6, <1>9, <3>1, PointIs
    <3>4. QED
      BY <3>2, <3>3
  <2>4. QED
    BY <1>10, <2>2, <2>3
<1>13. d1 + d2 + d3 \in 0..Len(all)
  BY <1>10
<1>14. LeftOf(new, all, t)
  BY <1>11, <1>12, <1>13 DEF LeftOf
<1>15. Len(new) <= MaxPoints
  BY <1>1, <1>6, <1>10
<1>16. QED
  BY <1>4, <1>8, <1>14, <1>15 DEF new, b, a, all

-----------------------------------------------------------------------------
(* The three deques *)

StoreNames == {"prices", "trades", "oi"}
Stores == [prices : Seq(Points), trades : Seq(Points), oi : Seq(Points)]

Matches(k, h, t) ==
    \A name \in StoreNames : LeftOf(k[name], h[name], t) /\ Len(k[name]) <= MaxPoints
Fits(h, m) == EnoughRoom => \A name \in StoreNames : Len(h[name]) + m <= MaxPoints
AtMostOne(new) == \A name \in StoreNames : Len(new[name]) <= 1

LEMMA StoresAre ==
    /\ \A k \in Stores : DOMAIN k = StoreNames /\ \A name \in StoreNames : k[name] \in Seq(Points)
    /\ \A f : (\A name \in StoreNames : f[name] \in Seq(Points))
                => [name \in StoreNames |-> f[name]] \in Stores
BY DEF Stores, StoreNames

LEMMA AddedIs ==
    ASSUME StoreAssumption, NEW k \in Stores, NEW h \in Stores, NEW new \in Stores,
           NEW at \in Int, NEW t \in Int, at <= t, NEW m \in Nat,
           Matches(k, h, t - Retention), Fits(h, m + 1), AtMostOne(new)
    PROVE  /\ Added(k, new, at) \in Stores /\ Heard(h, new) \in Stores
           /\ Matches(Added(k, new, at), Heard(h, new), t - Retention)
           /\ Fits(Heard(h, new), m)
<1> DEFINE c == at - Retention
           left == [name \in StoreNames |-> Trim(Newest(k[name] \o new[name], MaxPoints), c)]
           all == [name \in StoreNames |-> h[name] \o new[name]]
<1>1. Added(k, new, at) = left /\ Heard(h, new) = all
  BY StoresAre DEF Added, Heard
<1>2. c \in Int /\ t - Retention \in Int /\ c <= t - Retention /\ MaxPoints \in Nat
  BY DEF StoreAssumption
<1>3. ASSUME NEW name \in StoreNames
      PROVE  /\ left[name] \in Seq(Points) /\ all[name] \in Seq(Points)
             /\ LeftOf(left[name], all[name], t - Retention) /\ Len(left[name]) <= MaxPoints
             /\ EnoughRoom => Len(all[name]) + m <= MaxPoints
  <2>1. k[name] \in Seq(Points) /\ h[name] \in Seq(Points) /\ new[name] \in Seq(Points)
    BY StoresAre
  <2>2. Len(new[name]) <= 1 /\ Len(new[name]) \in Nat /\ Len(h[name]) \in Nat
    BY <2>1 DEF AtMostOne
  <2>3. LeftOf(k[name], h[name], t - Retention)
    BY DEF Matches
  <2>4. EnoughRoom => Len(h[name]) + (m + 1) <= MaxPoints
    BY DEF Fits
  <2>5. EnoughRoom => Len(h[name]) + Len(new[name]) <= MaxPoints
    <3> SUFFICES ASSUME EnoughRoom PROVE Len(h[name]) + Len(new[name]) <= MaxPoints
      OBVIOUS
    <3>1. Len(h[name]) + (m + 1) <= MaxPoints
      BY <2>4
    <3>2. Len(h[name]) \in Nat /\ Len(new[name]) \in Nat /\ Len(new[name]) <= 1
      BY <2>2
    <3>3. PICK x \in Nat, y \in Nat, z \in Nat :
             x = Len(h[name]) /\ y = Len(new[name]) /\ z = MaxPoints
      BY <1>2, <3>2
    <3>4. x + (m + 1) <= z /\ y <= 1
      BY <3>1, <3>2, <3>3
    <3>5. x + y <= z
      BY <3>4
    <3>6. QED
      BY <3>3, <3>5
  <2>6. Len(h[name] \o new[name]) = Len(h[name]) + Len(new[name])
    BY <2>1, ConcatIs
  <2>7. left[name] = Trim(Newest(k[name] \o new[name], MaxPoints), c)
        /\ all[name] = h[name] \o new[name]
    OBVIOUS
  <2> HIDE DEF left, all, c
  <2>8. /\ Trim(Newest(k[name] \o new[name], MaxPoints), c) \in Seq(Points)
        /\ Len(Trim(Newest(k[name] \o new[name], MaxPoints), c)) <= MaxPoints
        /\ h[name] \o new[name] \in Seq(Points)
        /\ LeftOf(Trim(Newest(k[name] \o new[name], MaxPoints), c), h[name] \o new[name],
                  t - Retention)
    BY <1>2, <2>1, <2>3, <2>5, DequeIs
  <2>9. EnoughRoom => Len(h[name] \o new[name]) + m <= MaxPoints
    <3> SUFFICES ASSUME EnoughRoom PROVE Len(h[name] \o new[name]) + m <= MaxPoints
      OBVIOUS
    <3>1. Len(h[name]) + (m + 1) <= MaxPoints
      BY <2>4
    <3>2. Len(h[name]) \in Nat /\ Len(new[name]) \in Nat /\ Len(new[name]) <= 1
      BY <2>2
    <3>3. PICK x \in Nat, y \in Nat, z \in Nat :
             x = Len(h[name]) /\ y = Len(new[name]) /\ z = MaxPoints
      BY <1>2, <3>2
    <3>4. x + (m + 1) <= z /\ y <= 1
      BY <3>1, <3>2, <3>3
    <3>5. (x + y) + m <= z
      BY <3>4
    <3>6. QED
      BY <2>6, <3>3, <3>5
  <2>10. QED
    BY <2>7, <2>8, <2>9
<1>4. left \in Stores /\ all \in Stores
  <2>1. left = [name \in StoreNames |-> left[name]] /\ all = [name \in StoreNames |-> all[name]]
    OBVIOUS
  <2> HIDE DEF left, all
  <2>2. QED
    BY <1>3, <2>1, StoresAre
<1> HIDE DEF left, all
<1>5. Matches(left, all, t - Retention) /\ Fits(all, m)
  BY <1>3 DEF Matches, Fits
<1>6. QED
  BY <1>1, <1>4, <1>5

LEMMA ArrivalsAre ==
    ASSUME NEW at \in Int, NEW v \in Int, NEW w \in Int
    PROVE  \A new \in {Quoted(at, v), Traded(at, v), Polled(at, v), Ticker(at, v, w)} :
              new \in Stores /\ AtMostOne(new)
<1>1. <<>> \in Seq(Points) /\ Len(<<>>) <= 1
  OBVIOUS
<1>2. ASSUME NEW x \in Int PROVE <<Point(at, x)>> \in Seq(Points) /\ Len(<<Point(at, x)>>) <= 1
  <2>1. Point(at, x) \in Points
    BY DEF Point, Points
  <2>2. QED
    BY <2>1
<1>3. ASSUME NEW a \in Seq(Points), NEW b \in Seq(Points), NEW c \in Seq(Points),
             Len(a) <= 1, Len(b) <= 1, Len(c) <= 1
      PROVE  /\ [prices |-> a, trades |-> b, oi |-> c] \in Stores
             /\ AtMostOne([prices |-> a, trades |-> b, oi |-> c])
  BY <1>3 DEF Stores, AtMostOne, StoreNames
<1>4. 1 \in Int
  OBVIOUS
<1>5. <<Point(at, v)>> \in Seq(Points) /\ Len(<<Point(at, v)>>) <= 1
  BY <1>2
<1>6. <<Point(at, w)>> \in Seq(Points) /\ Len(<<Point(at, w)>>) <= 1
  BY <1>2
<1>7. <<Point(at, 1)>> \in Seq(Points) /\ Len(<<Point(at, 1)>>) <= 1
  BY <1>2, <1>4
<1>8. Quoted(at, v) \in Stores /\ AtMostOne(Quoted(at, v))
  BY <1>1, <1>3, <1>5 DEF Quoted
<1>9. Traded(at, v) \in Stores /\ AtMostOne(Traded(at, v))
  BY <1>1, <1>3, <1>5, <1>7 DEF Traded
<1>10. Polled(at, v) \in Stores /\ AtMostOne(Polled(at, v))
  BY <1>1, <1>3, <1>5 DEF Polled
<1>11. Ticker(at, v, w) \in Stores /\ AtMostOne(Ticker(at, v, w))
  BY <1>1, <1>3, <1>5, <1>6 DEF Ticker
<1>12. QED
  BY <1>8, <1>9, <1>10, <1>11

-----------------------------------------------------------------------------
(* The candles the store begins with *)

SeedOf(f, n, p, m) ==
    f = [i \in 0..m |-> IF i = 0 THEN Untouched ELSE Added(f[i - 1], Traded(i - n, p), 0)]

Candles(n, p, m) ==
    [prices |-> [i \in 1..m |-> Point(i - n, p)],
     trades |-> [i \in 1..m |-> Point(i - n, 1)], oi |-> <<>>]

LEMMA SeedExists ==
    ASSUME NEW n \in Nat, NEW p
    PROVE  \E f : SeedOf(f, n, p, n)
<1> DEFINE G == {m \in 0..n : \E f : SeedOf(f, n, p, m)}
<1>1. 0 \in G
  <2>1. SeedOf([i \in 0..0 |-> Untouched], n, p, 0)
    BY DEF SeedOf
  <2>2. QED
    BY <2>1
<1>2. ASSUME NEW m \in 0..(n - 1), m \in G PROVE m + 1 \in G
  <2>1. PICK f : SeedOf(f, n, p, m)
    BY <1>2
  <2> DEFINE g == [i \in 0..(m + 1) |-> IF i = m + 1 THEN Added(f[m], Traded((m + 1) - n, p), 0)
                                        ELSE f[i]]
  <2>2. \A i \in 0..m : g[i] = f[i]
    OBVIOUS
  <2>3. m \in 0..m /\ m + 1 # 0 /\ m \in Int /\ m + 1 \in 0..n /\ (m + 1) - 1 = m
    OBVIOUS
  <2>4. g[m + 1] = Added(g[m], Traded((m + 1) - n, p), 0)
    BY <2>2, <2>3
  <2>5. g = [i \in 0..(m + 1) |-> g[i]]
    OBVIOUS
  <2> HIDE DEF g
  <2>6. \A i \in 0..m : g[i] = IF i = 0 THEN Untouched ELSE Added(g[i - 1], Traded(i - n, p), 0)
    <3> SUFFICES ASSUME NEW i \in 0..m
                 PROVE  g[i] = IF i = 0 THEN Untouched ELSE Added(g[i - 1], Traded(i - n, p), 0)
      OBVIOUS
    <3>1. i # 0 => i - 1 \in 0..m
      OBVIOUS
    <3>2. f[i] = IF i = 0 THEN Untouched ELSE Added(f[i - 1], Traded(i - n, p), 0)
      BY <2>1 DEF SeedOf
    <3>3. QED
      BY <2>2, <3>1, <3>2
  <2>7. \A i \in 0..(m + 1) : i \in 0..m \/ i = m + 1
    BY <2>3
  <2>8. \A i \in 0..(m + 1) : g[i] = IF i = 0 THEN Untouched
                                     ELSE Added(g[i - 1], Traded(i - n, p), 0)
    BY <2>3, <2>4, <2>6, <2>7
  <2>9. SeedOf(g, n, p, m + 1)
    BY <2>5, <2>8 DEF SeedOf
  <2>10. QED
    BY <2>3, <2>9
<1> HIDE DEF G
<1>3. \A m \in 0..n : m \in G
  BY <1>1, <1>2, Climb
<1>4. QED
  BY <1>3 DEF G

Marks(n, v, k) == [i \in 1..k |-> Point(i - n, v)]

LEMMA MarksAre ==
    ASSUME NEW n \in Nat, NEW v \in Int, NEW m \in Nat
    PROVE  /\ Marks(n, v, m) \in Seq(Points) /\ Len(Marks(n, v, m)) = m
           /\ Marks(n, v, m) \o <<Point((m + 1) - n, v)>> = Marks(n, v, m + 1)
<1> DEFINE x == Point((m + 1) - n, v)
           a == Marks(n, v, m)
           b == Marks(n, v, m + 1)
<1>1. ASSUME NEW k \in Nat PROVE Marks(n, v, k) \in Seq(Points) /\ Len(Marks(n, v, k)) = k
  <2>1. \A i \in 1..k : Point(i - n, v) \in Points
    BY DEF Point, Points
  <2>2. QED
    BY <2>1 DEF Marks
<1>2. a \in Seq(Points) /\ Len(a) = m
  BY <1>1
<1>3. m + 1 \in Nat
  OBVIOUS
<1>4. b \in Seq(Points) /\ Len(b) = m + 1
  BY <1>1, <1>3
<1>5. x \in Points
  BY DEF Point, Points
<1>6. (\A i \in 1..m : a[i] = b[i]) /\ b[m + 1] = x
  BY DEF Marks
<1> HIDE DEF a, b, x
<1>7. a \o <<x>> \in Seq(Points) /\ Len(a \o <<x>>) = m + 1
  BY <1>2, <1>5
<1>8. \A i \in 1..(m + 1) : (a \o <<x>>)[i] = b[i]
  BY <1>2, <1>5, <1>6
<1>9. a \o <<x>> = b
  BY <1>4, <1>7, <1>8, SeqEqual
<1>10. QED
  BY <1>2, <1>9 DEF a, b, x

LEMMA CandlesAre ==
    ASSUME NEW n \in Nat, NEW p \in Int, NEW m \in Nat
    PROVE  /\ Candles(n, p, m) \in Stores
           /\ \A name \in StoreNames : Len(Candles(n, p, m)[name]) <= m
           /\ Heard(Candles(n, p, m), Traded((m + 1) - n, p)) = Candles(n, p, m + 1)
<1>3. /\ Marks(n, p, m) \in Seq(Points) /\ Len(Marks(n, p, m)) = m
      /\ Marks(n, 1, m) \in Seq(Points) /\ Len(Marks(n, 1, m)) = m
      /\ Marks(n, p, m) \o <<Point((m + 1) - n, p)>> = Marks(n, p, m + 1)
      /\ Marks(n, 1, m) \o <<Point((m + 1) - n, 1)>> = Marks(n, 1, m + 1)
  <2>1. 1 \in Int
    OBVIOUS
  <2>2. /\ Marks(n, p, m) \in Seq(Points) /\ Len(Marks(n, p, m)) = m
        /\ Marks(n, p, m) \o <<Point((m + 1) - n, p)>> = Marks(n, p, m + 1)
    BY MarksAre
  <2>3. /\ Marks(n, 1, m) \in Seq(Points) /\ Len(Marks(n, 1, m)) = m
        /\ Marks(n, 1, m) \o <<Point((m + 1) - n, 1)>> = Marks(n, 1, m + 1)
    BY <2>1, MarksAre
  <2>4. QED
    BY <2>2, <2>3
<1>5. ASSUME NEW k \in Nat
      PROVE  Candles(n, p, k) = [prices |-> Marks(n, p, k), trades |-> Marks(n, 1, k), oi |-> <<>>]
  BY DEF Candles, Marks
<1>6. <<>> \in Seq(Points) /\ <<>> \o <<>> = <<>> /\ Len(<<>>) = 0 /\ m + 1 \in Nat
  OBVIOUS
<1>7. Candles(n, p, m) \in Stores
  <2>1. Candles(n, p, m) = [prices |-> Marks(n, p, m), trades |-> Marks(n, 1, m), oi |-> <<>>]
    BY <1>5
  <2>2. QED
    BY <1>3, <1>6, <2>1 DEF Stores
<1>8. \A name \in StoreNames : Len(Candles(n, p, m)[name]) <= m
  BY <1>3, <1>5, <1>6 DEF StoreNames
<1>9. Heard(Candles(n, p, m), Traded((m + 1) - n, p)) = Candles(n, p, m + 1)
  <2> DEFINE a == Candles(n, p, m)
             new == Traded((m + 1) - n, p)
  <2>1. Heard(a, new) = [name \in StoreNames |-> a[name] \o new[name]]
    BY <1>7, StoresAre DEF Heard
  <2>2. /\ a["prices"] \o new["prices"] = Marks(n, p, m + 1)
        /\ a["trades"] \o new["trades"] = Marks(n, 1, m + 1) /\ a["oi"] \o new["oi"] = <<>>
    <3>1. /\ a["prices"] = Marks(n, p, m) /\ a["trades"] = Marks(n, 1, m) /\ a["oi"] = <<>>
      BY <1>5
    <3>2. /\ new["prices"] = <<Point((m + 1) - n, p)>> /\ new["oi"] = <<>>
          /\ new["trades"] = <<Point((m + 1) - n, 1)>>
      BY DEF Traded
    <3>3. QED
      BY <1>3, <1>6, <3>1, <3>2
  <2> HIDE DEF a, new
  <2>3. QED
    BY <1>5, <1>6, <2>1, <2>2 DEF StoreNames, a, new
<1>10. QED
  BY <1>7, <1>8, <1>9

LEMMA SeededIs ==
    ASSUME StoreAssumption, NEW n \in SeedLengths, NEW p \in PriceLevels
    PROVE  /\ Seeded(n, p) \in Stores /\ Candles(n, p, n) \in Stores
           /\ Matches(Seeded(n, p), Candles(n, p, n), 0 - Retention)
           /\ Fits(Candles(n, p, n), MaxEvents)
<1>1. n \in Nat /\ p \in Int /\ MaxEvents \in Nat /\ MaxPoints \in Nat /\ Retention \in Nat
  BY DEF StoreAssumption
<1>2. PICK f : SeedOf(f, n, p, n) /\ Seeded(n, p) = f[n]
  <2> DEFINE seed == CHOOSE f : f = [i \in 0..n |-> IF i = 0 THEN Untouched
                                    ELSE Added(f[i - 1], Traded(i - n, p), 0)]
  <2>1. Seeded(n, p) = seed[n]
    BY DEF Seeded
  <2>2. seed = CHOOSE f : SeedOf(f, n, p, n)
    BY DEF SeedOf
  <2> HIDE DEF seed
  <2>3. SeedOf(seed, n, p, n)
    BY <1>1, <2>2, SeedExists
  <2>4. QED
    BY <2>1, <2>3
<1> DEFINE Good(i) == /\ f[i] \in Stores /\ Candles(n, p, i) \in Stores
                      /\ Matches(f[i], Candles(n, p, i), 0 - Retention)
                      /\ Fits(Candles(n, p, i), (n - i) + MaxEvents)
           G == {i \in 0..n : Good(i)}
<1>3. 0 \in G
  <2>1. f[0] = Untouched
    BY <1>1, <1>2 DEF SeedOf
  <2>2. Candles(n, p, 0) = Untouched
    <3>1. [i \in 1..0 |-> Point(i - n, p)] = <<>> /\ [i \in 1..0 |-> Point(i - n, 1)] = <<>>
      OBVIOUS
    <3>2. QED
      BY <3>1 DEF Candles, Untouched
  <2>3. Untouched \in Stores /\ \A name \in StoreNames : Untouched[name] = <<>>
    BY DEF Untouched, Stores, StoreNames
  <2>4. LeftOf(<<>>, <<>>, 0 - Retention) /\ Len(<<>>) <= MaxPoints
    <3>1. EndOf(<<>>, <<>>, 0)
      BY DEF EndOf
    <3>2. QED
      BY <1>1, <3>1 DEF LeftOf
  <2>5. Matches(Untouched, Untouched, 0 - Retention)
    BY <2>3, <2>4 DEF Matches
  <2>6. Fits(Untouched, (n - 0) + MaxEvents)
    <3>1. EnoughRoom => n + MaxEvents <= MaxPoints
      BY DEF EnoughRoom
    <3>2. Len(<<>>) + ((n - 0) + MaxEvents) = n + MaxEvents
      BY <1>1
    <3>3. QED
      BY <2>3, <3>1, <3>2 DEF Fits
  <2>7. QED
    BY <1>1, <2>1, <2>2, <2>3, <2>5, <2>6
<1>4. ASSUME NEW i \in 0..(n - 1), i \in G PROVE i + 1 \in G
  <2>1. i \in Nat /\ i + 1 \in 0..n /\ i + 1 # 0 /\ (i + 1) - 1 = i /\ (i + 1) - n \in Int
        /\ (i + 1) - n <= 0 /\ (n - (i + 1)) + MaxEvents \in Nat
        /\ (n - i) + MaxEvents = ((n - (i + 1)) + MaxEvents) + 1
    BY <1>1
  <2> DEFINE new == Traded((i + 1) - n, p)
             m == (n - (i + 1)) + MaxEvents
  <2>2. f[i + 1] = Added(f[i], new, 0)
    BY <1>2, <2>1 DEF SeedOf
  <2>3. Heard(Candles(n, p, i), new) = Candles(n, p, i + 1)
    BY <1>1, <2>1, CandlesAre
  <2>4. new \in Stores /\ AtMostOne(new)
    BY <1>1, <2>1, ArrivalsAre
  <2>5. Good(i)
    BY <1>4
  <2>6. Fits(Candles(n, p, i), m + 1)
    BY <2>1, <2>5
  <2>7. m \in Nat
    BY <2>1
  <2>8. f[i] \in Stores /\ Candles(n, p, i) \in Stores
        /\ Matches(f[i], Candles(n, p, i), 0 - Retention) /\ 0 \in Int /\ 0 <= 0
    BY <2>5
  <2> HIDE DEF new, m, G, Good
  <2>9. /\ Added(f[i], new, 0) \in Stores /\ Heard(Candles(n, p, i), new) \in Stores
        /\ Matches(Added(f[i], new, 0), Heard(Candles(n, p, i), new), 0 - Retention)
        /\ Fits(Heard(Candles(n, p, i), new), m)
    BY <2>4, <2>6, <2>7, <2>8, AddedIs
  <2>10. Good(i + 1)
    BY <2>2, <2>3, <2>9 DEF Good, m
  <2>11. QED
    BY <2>1, <2>10 DEF G
<1> HIDE DEF G
<1>5. \A i \in 0..n : i \in G
  BY <1>1, <1>3, <1>4, Climb
<1>6. n \in G
  BY <1>1, <1>5
<1>7. Good(n)
  BY <1>6 DEF G
<1>8. (n - n) + MaxEvents = MaxEvents
  BY <1>1
<1>9. QED
  BY <1>2, <1>7, <1>8

-----------------------------------------------------------------------------
(* The invariant *)

FeaturesIInv ==
    /\ clock \in 0..LastUnit /\ incoming \in 0..MaxEvents
    /\ retained \in Stores /\ heard \in Stores
    /\ Matches(retained, heard, clock - Retention)
    /\ Fits(heard, MaxEvents - incoming)

LEMMA FeaturesInitIInv == StoreAssumption /\ StoreInit => FeaturesIInv
<1> SUFFICES ASSUME StoreAssumption, StoreInit PROVE FeaturesIInv
  OBVIOUS
<1>1. PICK n \in SeedLengths, p \in PriceLevels :
        retained = Seeded(n, p) /\ heard = Candles(n, p, n)
  BY DEF StoreInit, Candles
<1>2. clock = 0 /\ incoming = 0 /\ 0 \in 0..LastUnit /\ 0 \in 0..MaxEvents /\ MaxEvents - 0 = MaxEvents
  BY DEF StoreInit, StoreAssumption
<1>3. QED
  BY <1>1, <1>2, SeededIs DEF FeaturesIInv

LEMMA LaterIInv == StoreAssumption /\ FeaturesIInv /\ Later => FeaturesIInv'
<1> SUFFICES ASSUME StoreAssumption, FeaturesIInv, Later PROVE FeaturesIInv'
  OBVIOUS
<1>1. /\ clock \in 0..LastUnit /\ LastUnit \in Nat /\ Retention \in Nat /\ clock' = clock + 1
      /\ clock < LastUnit /\ retained' = retained /\ heard' = heard /\ incoming' = incoming
  BY DEF StoreAssumption, FeaturesIInv, Later
<1>2. clock' \in 0..LastUnit /\ clock - Retention < clock' - Retention
      /\ clock - Retention \in Int /\ clock' - Retention \in Int
  BY <1>1
<1>3. ASSUME NEW name \in StoreNames, LeftOf(retained[name], heard[name], clock - Retention)
      PROVE  LeftOf(retained[name], heard[name], clock' - Retention)
  <2>1. PICK d \in 0..Len(heard[name]) :
           /\ EndOf(retained[name], heard[name], d)
           /\ EnoughRoom => \A i \in 1..d : heard[name][i].at < clock - Retention
    BY <1>3 DEF LeftOf
  <2>2. heard[name] \in Seq(Points)
    BY StoresAre DEF FeaturesIInv
  <2>3. /\ Len(heard[name]) \in Nat
        /\ \A i \in 1..Len(heard[name]) : heard[name][i].at \in Int
    BY <2>2, PointIs
  <2>4. \A i \in 1..d : i \in 1..Len(heard[name])
    BY <2>3
  <2>5. EnoughRoom => \A i \in 1..d : heard[name][i].at < clock' - Retention
    BY <1>2, <2>1, <2>3, <2>4
  <2>6. QED
    BY <2>1, <2>5 DEF LeftOf
<1>4. Matches(retained, heard, clock' - Retention)
  BY <1>3 DEF Matches, FeaturesIInv
<1>5. QED
  BY <1>1, <1>2, <1>4 DEF FeaturesIInv

LEMMA ComesInIInv ==
    ASSUME StoreAssumption, FeaturesIInv, NEW new \in Stores, AtMostOne(new), NEW at \in Int,
           at <= clock, ComesIn(new, at)
    PROVE  FeaturesIInv'
<1>1. /\ incoming \in 0..MaxEvents /\ incoming < MaxEvents /\ incoming' = incoming + 1
      /\ retained' = Added(retained, new, at) /\ heard' = Heard(heard, new) /\ clock' = clock
      /\ MaxEvents \in Nat /\ clock \in Int
  BY DEF StoreAssumption, FeaturesIInv, ComesIn
<1> DEFINE m == MaxEvents - incoming'
<1>2. m \in Nat /\ MaxEvents - incoming = m + 1 /\ incoming' \in 0..MaxEvents
  BY <1>1
<1>3. Fits(heard, m + 1)
  BY <1>2 DEF FeaturesIInv
<1>4. m \in Nat
  BY <1>2
<1>5. retained \in Stores /\ heard \in Stores /\ Matches(retained, heard, clock - Retention)
  BY DEF FeaturesIInv
<1> HIDE DEF m
<1>6. /\ Added(retained, new, at) \in Stores /\ Heard(heard, new) \in Stores
      /\ Matches(Added(retained, new, at), Heard(heard, new), clock - Retention)
      /\ Fits(Heard(heard, new), m)
  BY <1>1, <1>3, <1>4, <1>5, AddedIs
<1>7. QED
  BY <1>1, <1>2, <1>6 DEF FeaturesIInv, m

LEMMA FeaturesNextIInv == StoreAssumption /\ FeaturesIInv /\ [StoreNext]_storeVars => FeaturesIInv'
<1> SUFFICES ASSUME StoreAssumption, FeaturesIInv, [StoreNext]_storeVars PROVE FeaturesIInv'
  OBVIOUS
<1>1. clock \in Int /\ clock <= clock /\ PriceLevels \subseteq Int /\ Interests \subseteq Int
  BY DEF FeaturesIInv, StoreAssumption
<1>2. CASE Later
  BY <1>2, LaterIInv
<1>3. CASE OnTrade
  <2>1. PICK late \in 0..MaxLate, p \in PriceLevels :
           ComesIn(Traded(clock - late, p), clock - late)
    BY <1>3 DEF OnTrade
  <2>2. clock - late \in Int /\ clock - late <= clock /\ p \in Int
    BY <1>1 DEF StoreAssumption
  <2>3. Traded(clock - late, p) \in Stores /\ AtMostOne(Traded(clock - late, p))
    BY <2>2, ArrivalsAre
  <2>4. QED
    BY <2>1, <2>2, <2>3, ComesInIInv
<1>4. CASE OnTicker
  <2>1. PICK p \in PriceLevels :
           ComesIn(Quoted(clock, p), clock)
             \/ \E oi \in Interests : ComesIn(Ticker(clock, p, oi), clock)
    BY <1>4 DEF OnTicker
  <2>2. CASE ComesIn(Quoted(clock, p), clock)
    <3>1. Quoted(clock, p) \in Stores /\ AtMostOne(Quoted(clock, p))
      BY <1>1, ArrivalsAre
    <3>2. QED
      BY <1>1, <2>2, <3>1, ComesInIInv
  <2>3. CASE \E oi \in Interests : ComesIn(Ticker(clock, p, oi), clock)
    <3>1. PICK oi \in Interests : ComesIn(Ticker(clock, p, oi), clock)
      BY <2>3
    <3>2. Ticker(clock, p, oi) \in Stores /\ AtMostOne(Ticker(clock, p, oi))
      BY <1>1, ArrivalsAre
    <3>3. QED
      BY <1>1, <3>1, <3>2, ComesInIInv
  <2>4. QED
    BY <2>1, <2>2, <2>3
<1>5. CASE OnOpenInterest
  <2>1. PICK oi \in Interests : ComesIn(Polled(clock, oi), clock)
    BY <1>5 DEF OnOpenInterest
  <2>2. Polled(clock, oi) \in Stores /\ AtMostOne(Polled(clock, oi))
    BY <1>1, ArrivalsAre
  <2>3. QED
    BY <1>1, <2>1, <2>2, ComesInIInv
<1>6. CASE UNCHANGED storeVars
  BY <1>6 DEF FeaturesIInv, storeVars
<1>7. QED
  BY <1>2, <1>3, <1>4, <1>5, <1>6 DEF StoreNext

LEMMA FeaturesInvariance == ASSUME StoreAssumption PROVE StoreSpec => []FeaturesIInv
<1>1. StoreInit => FeaturesIInv
  BY FeaturesInitIInv
<1>2. FeaturesIInv /\ [StoreNext]_storeVars => FeaturesIInv'
  BY FeaturesNextIInv
<1>3. QED
  BY <1>1, <1>2, PTL DEF StoreSpec

\* A deque is never longer than its limit, and what it holds is the end of what was heard.
THEOREM FeaturesTypeCorrect == ASSUME StoreAssumption PROVE StoreSpec => []StoreTypeOK
<1>1. FeaturesIInv => StoreTypeOK
  <2> SUFFICES ASSUME FeaturesIInv, NEW name \in StoreNames
               PROVE  /\ Len(retained[name]) <= MaxPoints
                      /\ retained[name] = Newest(heard[name], Len(retained[name]))
    BY DEF FeaturesIInv, StoreTypeOK, StoreNames
  <2> DEFINE k == retained[name]
             h == heard[name]
             s == Newest(h, Len(k))
  <2>1. k \in Seq(Points) /\ h \in Seq(Points)
    BY StoresAre DEF FeaturesIInv
  <2>2. Len(k) \in Nat /\ Len(h) \in Nat
    BY <2>1
  <2>3. Len(k) <= MaxPoints /\ \E d \in 0..Len(h) : EndOf(k, h, d)
    BY DEF FeaturesIInv, Matches, LeftOf
  <2>4. PICK d \in 0..Len(h) : EndOf(k, h, d)
    BY <2>3
  <2> HIDE DEF k, h
  <2>5. s \in Seq(Points) /\ \E e \in 0..Len(h) : EndOf(s, h, e) /\ (Len(h) >= Len(k) => e = Len(h) - Len(k))
    BY <2>1, <2>2, NewestIs
  <2>6. Len(k) = Len(h) - d /\ \A i \in 1..Len(k) : k[i] = h[d + i]
    BY <2>4 DEF EndOf
  <2>7. EndOf(s, h, d)
    BY <2>2, <2>5, <2>6
  <2> HIDE DEF s
  <2>8. Len(s) = Len(k) /\ \A i \in 1..Len(s) : s[i] = h[d + i]
    BY <2>6, <2>7 DEF EndOf
  <2>9. \A i \in 1..Len(s) : s[i] = k[i]
    BY <2>6, <2>8
  <2>10. s = k
    BY <2>1, <2>5, <2>8, <2>9, SeqEqual
  <2>11. QED
    BY <2>3, <2>10 DEF s, k, h
<1>2. QED
  BY <1>1, FeaturesInvariance, PTL

-----------------------------------------------------------------------------
(* What a snapshot sees *)

\* No window of a snapshot begins before the retention.
LooksBack == Hour <= Retention /\ LongAgo <= Retention /\ SweepLookback <= Retention /\ Recent <= Retention

\* The first d elements of h are older than t.
Older(h, d, t) == \A i \in 1..d : h[i].at < t

LEMMA ValueIs ==
    ASSUME NEW k \in Seq(Points), NEW h \in Seq(Points), NEW d \in 0..Len(h), EndOf(k, h, d),
           NEW target \in Int, Older(h, d, target + 1), ValueAtOrBefore(k, target) # None
    PROVE  ValueAtOrBefore(h, target) = ValueAtOrBefore(k, target) /\ Len(k) > 0
<1> DEFINE laterK == {i \in DOMAIN k : k[i].at > target}
           laterH == {i \in DOMAIN h : h[i].at > target}
           nK == IF laterK = {} THEN Len(k) ELSE Min(laterK) - 1
           nH == IF laterH = {} THEN Len(h) ELSE Min(laterH) - 1
<1>1. /\ Len(k) \in Nat /\ Len(h) \in Nat /\ DOMAIN k = 1..Len(k) /\ DOMAIN h = 1..Len(h)
      /\ \A i \in 1..Len(k) : k[i].at \in Int
      /\ \A i \in 1..Len(h) : h[i].at \in Int
  BY PointIs
<1>2. d \in Nat /\ Len(k) = Len(h) - d /\ \A i \in 1..Len(k) : k[i] = h[d + i]
  BY <1>1 DEF EndOf
<1>3. \A i \in 1..Len(k) : d + i \in 1..Len(h)
  BY <1>1, <1>2
<1>4. \A i \in laterK : d + i \in laterH
  BY <1>1, <1>2, <1>3
<1>5. \A j \in laterH : j - d \in laterK /\ j = d + (j - d)
  <2> SUFFICES ASSUME NEW j \in laterH PROVE j - d \in laterK /\ j = d + (j - d)
    OBVIOUS
  <2>1. j \in 1..Len(h) /\ h[j].at > target /\ h[j].at \in Int
    BY <1>1
  <2>2. j > d
    <3>1. j \in 1..d => h[j].at < target + 1
      BY DEF Older
    <3>2. QED
      BY <1>1, <1>2, <2>1, <3>1
  <2>3. j - d \in 1..Len(k) /\ d + (j - d) = j
    BY <1>1, <1>2, <2>1, <2>2
  <2>4. k[j - d] = h[j]
    BY <1>2, <2>3
  <2>5. QED
    BY <1>1, <2>1, <2>3, <2>4
<1>6. laterK \in SUBSET Nat /\ laterH \in SUBSET Nat
  BY <1>1
<1>7. nH = d + nK /\ nK \in 0..Len(k)
  <2>1. CASE laterK = {}
    <3>1. laterH = {}
      BY <1>5, <2>1
    <3>2. QED
      BY <1>1, <1>2, <2>1, <3>1
  <2>2. CASE laterK # {}
    <3>1. laterH # {}
      BY <1>4, <2>2
    <3>2. Min(laterK) \in laterK /\ \A i \in laterK : Min(laterK) <= i
      BY <1>6, <2>2, LeastNumber DEF Min
    <3>3. Min(laterH) \in laterH /\ \A i \in laterH : Min(laterH) <= i
      BY <1>6, <3>1, LeastNumber DEF Min
    <3>4. Min(laterK) \in 1..Len(k)
      BY <1>1, <3>2
    <3> DEFINE x == Min(laterK)
               y == Min(laterH)
    <3>5. y <= d + x
      BY <1>4, <3>2, <3>3
    <3>6. y - d \in laterK /\ y = d + (y - d)
      BY <1>5, <3>3
    <3>7. x <= y - d
      BY <3>2, <3>6
    <3>8. x \in Nat /\ y \in Nat
      BY <1>6, <3>2, <3>3
    <3>9. nK = x - 1 /\ nH = y - 1
      BY <2>2, <3>1
    <3>10. x \in 1..Len(k)
      BY <3>4
    <3> HIDE DEF x, y, nK, nH
    <3>11. y = d + x
      BY <1>2, <3>5, <3>7, <3>8
    <3>12. QED
      BY <1>1, <1>2, <3>8, <3>9, <3>10, <3>11
  <2>3. QED
    BY <2>1, <2>2
<1>8. /\ ValueAtOrBefore(k, target) = IF nK = 0 THEN None ELSE k[nK].value
      /\ ValueAtOrBefore(h, target) = IF nH = 0 THEN None ELSE h[nH].value
  BY DEF ValueAtOrBefore
<1> HIDE DEF nK, nH
<1>9. nK \in 1..Len(k)
  BY <1>1, <1>7, <1>8
<1>10. nH # 0 /\ k[nK] = h[nH] /\ nK # 0 /\ Len(k) > 0
  BY <1>1, <1>2, <1>7, <1>9
<1>11. QED
  BY <1>8, <1>10

LEMMA ChangeIs ==
    ASSUME NEW k \in Seq(Points), NEW h \in Seq(Points), NEW d \in 0..Len(h), EndOf(k, h, d),
           NEW ago \in Int, clock \in Int, Older(h, d, (clock - ago) + 1)
    PROVE  Change(k, ago) \in {None, Change(h, ago)}
<1>1. CASE ValueAtOrBefore(k, clock - ago) = None
  BY <1>1 DEF Change
<1>2. CASE ValueAtOrBefore(k, clock - ago) # None
  <2>1. clock - ago \in Int
    OBVIOUS
  <2>2. ValueAtOrBefore(h, clock - ago) = ValueAtOrBefore(k, clock - ago) /\ Len(k) > 0
    BY <1>2, <2>1, ValueIs
  <2>3. Last(k) = Last(h)
    <3>1. Len(k) = Len(h) - d /\ \A i \in 1..Len(k) : k[i] = h[d + i]
      BY DEF EndOf
    <3>2. Len(k) \in 1..Len(k) /\ d + Len(k) = Len(h)
      BY <2>2, <3>1
    <3>3. QED
      BY <3>1, <3>2 DEF Last
  <2>4. QED
    BY <1>2, <2>2, <2>3 DEF Change
<1>3. QED
  BY <1>1, <1>2

Share(s, from, i) == IF from <= s[i].at /\ s[i].at <= clock THEN s[i].value ELSE 0

SumsOf(f, s, from, n) == f = [i \in 0..n |-> IF i = 0 THEN 0 ELSE f[i - 1] + Share(s, from, i)]

LEMMA SumsExist ==
    ASSUME NEW s, NEW from, NEW n \in Nat
    PROVE  \E f : SumsOf(f, s, from, n)
<1> DEFINE G == {m \in 0..n : \E f : SumsOf(f, s, from, m)}
<1>1. 0 \in G
  <2>1. SumsOf([i \in 0..0 |-> 0], s, from, 0)
    BY DEF SumsOf
  <2>2. QED
    BY <2>1
<1>2. ASSUME NEW m \in 0..(n - 1), m \in G PROVE m + 1 \in G
  <2>1. PICK f : SumsOf(f, s, from, m)
    BY <1>2
  <2> DEFINE g == [i \in 0..(m + 1) |-> IF i = m + 1 THEN f[m] + Share(s, from, m + 1) ELSE f[i]]
  <2>2. \A i \in 0..m : g[i] = f[i]
    OBVIOUS
  <2>3. m \in 0..m /\ m + 1 # 0 /\ m \in Int /\ m + 1 \in 0..n /\ (m + 1) - 1 = m
    OBVIOUS
  <2>4. g[m + 1] = g[m] + Share(s, from, m + 1)
    BY <2>2, <2>3
  <2>5. g = [i \in 0..(m + 1) |-> g[i]]
    OBVIOUS
  <2> HIDE DEF g
  <2>6. \A i \in 0..m : g[i] = IF i = 0 THEN 0 ELSE g[i - 1] + Share(s, from, i)
    <3> SUFFICES ASSUME NEW i \in 0..m
                 PROVE  g[i] = IF i = 0 THEN 0 ELSE g[i - 1] + Share(s, from, i)
      OBVIOUS
    <3>1. i # 0 => i - 1 \in 0..m
      OBVIOUS
    <3>2. f[i] = IF i = 0 THEN 0 ELSE f[i - 1] + Share(s, from, i)
      BY <2>1 DEF SumsOf
    <3>3. QED
      BY <2>2, <3>1, <3>2
  <2>7. \A i \in 0..(m + 1) : i \in 0..m \/ i = m + 1
    BY <2>3
  <2>8. \A i \in 0..(m + 1) : g[i] = IF i = 0 THEN 0 ELSE g[i - 1] + Share(s, from, i)
    BY <2>3, <2>4, <2>6, <2>7
  <2>9. SumsOf(g, s, from, m + 1)
    BY <2>5, <2>8 DEF SumsOf
  <2>10. QED
    BY <2>3, <2>9
<1> HIDE DEF G
<1>3. \A m \in 0..n : m \in G
  BY <1>1, <1>2, Climb
<1>4. QED
  BY <1>3 DEF G

LEMMA SumVolumeIs ==
    ASSUME NEW s, NEW from, Len(s) \in Nat
    PROVE  \E f : SumsOf(f, s, from, Len(s)) /\ SumVolume(s, from) = f[Len(s)]
<1> DEFINE sums == CHOOSE f : f = [i \in 0..Len(s) |-> IF i = 0 THEN 0
                        ELSE f[i - 1] + (IF from <= s[i].at /\ s[i].at <= clock
                                         THEN s[i].value ELSE 0)]
<1>1. SumVolume(s, from) = sums[Len(s)]
  BY DEF SumVolume
<1>2. sums = CHOOSE f : SumsOf(f, s, from, Len(s))
  BY DEF SumsOf, Share
<1> HIDE DEF sums
<1>3. SumsOf(sums, s, from, Len(s))
  BY <1>2, SumsExist
<1>4. QED
  BY <1>1, <1>3

LEMMA SumsAre ==
    ASSUME NEW s, NEW from, NEW n \in Nat, NEW f, SumsOf(f, s, from, n)
    PROVE  f[0] = 0 /\ \A i \in 1..n : f[i] = f[i - 1] + Share(s, from, i)
<1>1. \A i \in 0..n : f[i] = IF i = 0 THEN 0 ELSE f[i - 1] + Share(s, from, i)
  BY DEF SumsOf
<1>2. 0 \in 0..n /\ \A i \in 1..n : i \in 0..n /\ i # 0
  OBVIOUS
<1>3. QED
  BY <1>1, <1>2

\* What is older than the window does not count.
LEMMA SumIs ==
    ASSUME NEW k \in Seq(Points), NEW h \in Seq(Points), NEW d \in 0..Len(h), EndOf(k, h, d),
           NEW from \in Int, Older(h, d, from)
    PROVE  SumVolume(k, from) = SumVolume(h, from)
<1>1. /\ Len(k) \in Nat /\ Len(h) \in Nat /\ \A i \in 1..Len(h) : h[i].at \in Int
  BY PointIs
<1>2. d \in Nat /\ Len(k) = Len(h) - d /\ (\A i \in 1..Len(k) : k[i] = h[d + i])
      /\ d + Len(k) = Len(h)
  BY <1>1 DEF EndOf
<1>3. PICK f : SumsOf(f, k, from, Len(k)) /\ SumVolume(k, from) = f[Len(k)]
  BY <1>1, SumVolumeIs
<1>4. PICK g : SumsOf(g, h, from, Len(h)) /\ SumVolume(h, from) = g[Len(h)]
  BY <1>1, SumVolumeIs
<1>5. f[0] = 0 /\ \A i \in 1..Len(k) : f[i] = f[i - 1] + Share(k, from, i)
  BY <1>1, <1>3, SumsAre
<1>6. g[0] = 0 /\ \A i \in 1..Len(h) : g[i] = g[i - 1] + Share(h, from, i)
  BY <1>1, <1>4, SumsAre
<1>7. g[d] = 0
  <2> DEFINE G == {i \in 0..d : g[i] = 0}
  <2>1. 0 \in G
    BY <1>2, <1>6
  <2>2. ASSUME NEW i \in 0..(d - 1), i \in G PROVE i + 1 \in G
    <3>1. i + 1 \in 1..d /\ i + 1 \in 1..Len(h) /\ (i + 1) - 1 = i /\ i + 1 \in 0..d
      BY <1>1, <1>2
    <3>2. h[i + 1].at < from /\ h[i + 1].at \in Int
      BY <1>1, <3>1 DEF Older
    <3>3. Share(h, from, i + 1) = 0
      BY <3>2 DEF Share
    <3>4. g[i + 1] = 0
      BY <1>6, <2>2, <3>1, <3>3
    <3>5. QED
      BY <3>1, <3>4
  <2>3. 0 \in Nat /\ d \in Nat /\ 0 <= d /\ d \in 0..d
    BY <1>2
  <2> HIDE DEF G
  <2>4. \A i \in 0..d : i \in G
    BY <2>1, <2>2, <2>3, Climb
  <2>5. QED
    BY <2>3, <2>4 DEF G
<1>8. g[d + Len(k)] = f[Len(k)]
  <2> DEFINE G == {i \in 0..Len(k) : g[d + i] = f[i]}
  <2>1. 0 \in G
    BY <1>1, <1>2, <1>5, <1>7
  <2>2. ASSUME NEW i \in 0..(Len(k) - 1), i \in G PROVE i + 1 \in G
    <3>1. /\ i + 1 \in 1..Len(k) /\ d + (i + 1) \in 1..Len(h) /\ (i + 1) - 1 = i
          /\ (d + (i + 1)) - 1 = d + i /\ i + 1 \in 0..Len(k)
      <4>1. PICK x \in Nat, y \in Nat : x = Len(k) /\ y = Len(h)
        BY <1>1
      <4>2. i \in Nat /\ i + 1 <= x /\ d \in Nat /\ d + x = y
        BY <1>2, <4>1
      <4>3. QED
        BY <4>1, <4>2
    <3>2. k[i + 1] = h[d + (i + 1)]
      BY <1>2, <3>1
    <3>3. Share(k, from, i + 1) = Share(h, from, d + (i + 1))
      BY <3>2 DEF Share
    <3>4. g[d + i] = f[i]
      BY <2>2
    <3>5. g[d + (i + 1)] = g[d + i] + Share(h, from, d + (i + 1))
      BY <1>6, <3>1
    <3>6. f[i + 1] = f[i] + Share(k, from, i + 1)
      BY <1>5, <3>1
    <3>7. QED
      BY <3>1, <3>3, <3>4, <3>5, <3>6
  <2>3. 0 \in Nat /\ 0 <= Len(k) /\ Len(k) \in 0..Len(k)
    BY <1>1
  <2> HIDE DEF G
  <2>4. \A i \in 0..Len(k) : i \in G
    BY <1>1, <2>1, <2>2, <2>3, Climb
  <2>5. QED
    BY <2>3, <2>4 DEF G
<1>9. QED
  BY <1>2, <1>3, <1>4, <1>8

Within(s, from, to) == {w \in {s[i] : i \in DOMAIN s} : from <= w.at /\ w.at < to}

LEMMA WithinIs ==
    ASSUME NEW k \in Seq(Points), NEW h \in Seq(Points), NEW d \in 0..Len(h), EndOf(k, h, d),
           NEW from \in Int, Older(h, d, from), NEW to
    PROVE  Within(k, from, to) = Within(h, from, to)
<1>1. /\ Len(k) \in Nat /\ Len(h) \in Nat /\ DOMAIN k = 1..Len(k) /\ DOMAIN h = 1..Len(h)
      /\ \A i \in 1..Len(h) : h[i].at \in Int
  BY PointIs
<1>2. d \in Nat /\ Len(k) = Len(h) - d /\ \A i \in 1..Len(k) : k[i] = h[d + i]
  BY <1>1 DEF EndOf
<1>3. ASSUME NEW w \in Within(k, from, to) PROVE w \in Within(h, from, to)
  <2>1. PICK i \in 1..Len(k) : w = k[i]
    BY <1>1 DEF Within
  <2>2. d + i \in 1..Len(h) /\ w = h[d + i]
    BY <1>1, <1>2, <2>1
  <2>3. QED
    BY <1>1, <2>2 DEF Within
<1>4. ASSUME NEW w \in Within(h, from, to) PROVE w \in Within(k, from, to)
  <2>1. PICK i \in 1..Len(h) : w = h[i]
    BY <1>1 DEF Within
  <2>2. from <= h[i].at /\ h[i].at \in Int
    BY <1>1, <2>1 DEF Within
  <2>3. i \notin 1..d
    BY <2>2 DEF Older
  <2>4. i - d \in 1..Len(k) /\ d + (i - d) = i
    BY <1>1, <1>2, <2>3
  <2>5. w = k[i - d]
    BY <1>2, <2>1, <2>4
  <2>6. QED
    BY <1>1, <2>4, <2>5 DEF Within
<1>5. QED
  BY <1>3, <1>4

LEMMA SweepIs ==
    ASSUME NEW a \in Stores, NEW b \in Stores, NEW d \in 0..Len(b.prices),
           EndOf(a.prices, b.prices, d), clock \in Int, SweepLookback \in Int,
           Older(b.prices, d, clock - SweepLookback), Older(b.prices, d, clock - Recent),
           LatestPrice(a) = LatestPrice(b)
    PROVE  SweepState(a) = SweepState(b)
<1> DEFINE recentIn(s) == {w \in {s[i] : i \in DOMAIN s} : clock - Recent <= w.at /\ w.at <= clock}
           olderIn(s) == {w \in {s[i] : i \in DOMAIN s} :
                             clock - SweepLookback <= w.at /\ w.at < clock - Recent}
<1>1. a.prices \in Seq(Points) /\ b.prices \in Seq(Points)
  BY DEF Stores
<1>2. clock - SweepLookback \in Int /\ clock - Recent \in Int
  BY DEF Recent
<1>3. \A s \in Seq(Points) : recentIn(s) = Within(s, clock - Recent, clock + 1)
  <2>1. ASSUME NEW s \in Seq(Points), NEW i \in DOMAIN s
        PROVE  s[i].at <= clock <=> s[i].at < clock + 1
    <3>1. s[i].at \in Int
      BY PointIs
    <3>2. QED
      BY <3>1
  <2>2. QED
    BY <2>1 DEF Within
<1>4. \A s \in Seq(Points) : olderIn(s) = Within(s, clock - SweepLookback, clock - Recent)
  BY DEF Within
<1>5. /\ Within(a.prices, clock - Recent, clock + 1) = Within(b.prices, clock - Recent, clock + 1)
      /\ Within(a.prices, clock - SweepLookback, clock - Recent)
           = Within(b.prices, clock - SweepLookback, clock - Recent)
  BY <1>1, <1>2, WithinIs
<1>6. recentIn(a.prices) = recentIn(b.prices) /\ olderIn(a.prices) = olderIn(b.prices)
  BY <1>1, <1>3, <1>4, <1>5
<1> HIDE DEF recentIn, olderIn
<1>7. ASSUME NEW s
      PROVE  SweepState(s) =
               LET older == {v.value : v \in olderIn(s.prices)}
                   recent == {v.value : v \in recentIn(s.prices)}
                   price == LatestPrice(s)
               IN  IF older = {} \/ recent = {} THEN [low |-> None, high |-> None]
                   ELSE [low |-> IF Min(recent) < Min(older) /\ price > Min(older)
                                 THEN Min(older) ELSE None,
                         high |-> IF Max(recent) > Max(older) /\ price < Max(older)
                                  THEN Max(older) ELSE None]
  BY DEF SweepState, olderIn, recentIn
<1>8. QED
  BY <1>6, <1>7

\* While no deque is full and no window is longer than the retention, a snapshot says of the
\* volume, the sweeps and the price what it would say had nothing ever been trimmed
\* (features.py: _trim_key and snapshot), and of a change that, or nothing.
THEOREM TrimmedIsUnseen ==
    ASSUME StoreAssumption, EnoughRoom, LooksBack
    PROVE  StoreSpec => []TrimmingUnseen
<1>1. FeaturesIInv => TrimmingUnseen
  <2> SUFFICES ASSUME FeaturesIInv, retained.prices # <<>>
               PROVE  /\ LatestPrice(retained) = LatestPrice(heard)
                      /\ SpikeRatio(retained) = SpikeRatio(heard)
                      /\ SweepState(retained) = SweepState(heard)
                      /\ Change(retained.prices, Recent) \in {None, Change(heard.prices, Recent)}
                      /\ Change(retained.oi, Recent) \in {None, Change(heard.oi, Recent)}
                      /\ Change(retained.oi, LongAgo) \in {None, Change(heard.oi, LongAgo)}
    BY DEF TrimmingUnseen, Snapshot
  <2>1. /\ clock \in Int /\ Retention \in Nat /\ Hour \in Nat /\ LongAgo \in Nat
        /\ SweepLookback \in Nat /\ Recent \in Nat
    BY DEF FeaturesIInv, StoreAssumption, Recent
  <2>2. ASSUME NEW name \in StoreNames
        PROVE  /\ retained[name] \in Seq(Points) /\ heard[name] \in Seq(Points)
               /\ \E d \in 0..Len(heard[name]) :
                    EndOf(retained[name], heard[name], d)
                      /\ Older(heard[name], d, clock - Retention)
    BY StoresAre DEF FeaturesIInv, Matches, LeftOf, Older
  <2>3. ASSUME NEW h \in Seq(Points), NEW d \in 0..Len(h), Older(h, d, clock - Retention),
               NEW ago \in Nat, ago <= Retention
        PROVE  Older(h, d, clock - ago) /\ Older(h, d, (clock - ago) + 1)
    <3>1. Len(h) \in Nat /\ \A i \in 1..Len(h) : h[i].at \in Int
      BY PointIs
    <3>2. \A i \in 1..d : i \in 1..Len(h) /\ h[i].at < clock - Retention
      BY <2>3, <3>1 DEF Older
    <3>3. clock - Retention <= clock - ago /\ clock - ago \in Int /\ clock - Retention \in Int
      BY <2>1, <2>3
    <3>4. QED
      BY <3>1, <3>2, <3>3 DEF Older
  <2>4. "prices" \in StoreNames /\ "trades" \in StoreNames /\ "oi" \in StoreNames
    BY DEF StoreNames
  <2>5. /\ retained.prices \in Seq(Points) /\ heard.prices \in Seq(Points)
        /\ retained.trades \in Seq(Points) /\ heard.trades \in Seq(Points)
        /\ retained.oi \in Seq(Points) /\ heard.oi \in Seq(Points)
    BY <2>2, <2>4
  <2>6. PICK dp \in 0..Len(heard.prices) :
          EndOf(retained.prices, heard.prices, dp) /\ Older(heard.prices, dp, clock - Retention)
    BY <2>2, <2>4
  <2>7. PICK dt \in 0..Len(heard.trades) :
          EndOf(retained.trades, heard.trades, dt) /\ Older(heard.trades, dt, clock - Retention)
    BY <2>2, <2>4
  <2>8. PICK do \in 0..Len(heard.oi) :
          EndOf(retained.oi, heard.oi, do) /\ Older(heard.oi, do, clock - Retention)
    BY <2>2, <2>4
  <2>9. Recent <= Retention /\ Hour <= Retention /\ LongAgo <= Retention /\ SweepLookback <= Retention
    BY DEF LooksBack
  <2>10. LatestPrice(retained) = LatestPrice(heard)
    <3>1. /\ Len(retained.prices) = Len(heard.prices) - dp
          /\ \A i \in 1..Len(retained.prices) : retained.prices[i] = heard.prices[dp + i]
      BY <2>6 DEF EndOf
    <3>2. /\ Len(retained.prices) \in Nat /\ Len(heard.prices) \in Nat
          /\ Len(retained.prices) # 0
      BY <2>5
    <3>3. Len(retained.prices) \in 1..Len(retained.prices)
          /\ dp + Len(retained.prices) = Len(heard.prices)
      BY <3>1, <3>2
    <3>4. QED
      BY <3>1, <3>3 DEF LatestPrice, Last
  <2>11. SpikeRatio(retained) = SpikeRatio(heard)
    <3>1. Older(heard.trades, dt, clock - Hour) /\ Older(heard.trades, dt, clock - Recent)
      BY <2>1, <2>3, <2>5, <2>7, <2>9
    <3>2. clock - Hour \in Int /\ clock - Recent \in Int
      BY <2>1
    <3>3. /\ SumVolume(retained.trades, clock - Hour) = SumVolume(heard.trades, clock - Hour)
          /\ SumVolume(retained.trades, clock - Recent) = SumVolume(heard.trades, clock - Recent)
      BY <2>5, <2>7, <3>1, <3>2, SumIs
    <3>4. QED
      BY <3>3 DEF SpikeRatio
  <2>12. SweepState(retained) = SweepState(heard)
    <3>1. /\ Older(heard.prices, dp, clock - SweepLookback)
          /\ Older(heard.prices, dp, clock - Recent)
      BY <2>1, <2>3, <2>5, <2>6, <2>9
    <3>2. retained \in Stores /\ heard \in Stores
      BY DEF FeaturesIInv
    <3>3. QED
      BY <2>1, <2>6, <2>10, <3>1, <3>2, SweepIs
  <2>13. Change(retained.prices, Recent) \in {None, Change(heard.prices, Recent)}
    <3>1. Older(heard.prices, dp, (clock - Recent) + 1)
      BY <2>1, <2>3, <2>5, <2>6, <2>9
    <3>2. QED
      BY <2>1, <2>5, <2>6, <3>1, ChangeIs
  <2>14. /\ Change(retained.oi, Recent) \in {None, Change(heard.oi, Recent)}
         /\ Change(retained.oi, LongAgo) \in {None, Change(heard.oi, LongAgo)}
    <3>1. /\ Older(heard.oi, do, (clock - Recent) + 1)
          /\ Older(heard.oi, do, (clock - LongAgo) + 1)
      BY <2>1, <2>3, <2>5, <2>8, <2>9
    <3>2. QED
      BY <2>1, <2>5, <2>8, <3>1, ChangeIs
  <2>15. QED
    BY <2>10, <2>11, <2>12, <2>13, <2>14
<1>2. QED
  BY <1>1, FeaturesInvariance, PTL
=============================================================================

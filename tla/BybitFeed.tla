------------------------------ MODULE BybitFeed ------------------------------
(***************************************************************************)
(* BybitClient's public market data: connections that come and go, and the *)
(* mirror of one order book that the messages of its connection build.     *)
(*                                                                         *)
(* A side of a book gives each level its size; level 1 is the best price   *)
(* and size 0 means that nobody quotes the level.  The exchange is what    *)
(* the handler relies on: after a subscription it sends a snapshot of the  *)
(* best Depth levels, and from then on every change of them, in order; a   *)
(* connection that breaks loses what it has not delivered.                 *)
(***************************************************************************)
EXTENDS Integers, FiniteSets, Sequences

CONSTANTS
    Groups,         \* the connections; the order book's topic is on one of them
    BookGroup,
    LastLevel,      \* the levels of a side are 1..LastLevel
    Quantities,          \* the sizes a level may have, 0 among them
    Depth,          \* how many levels of a side the exchange sends
    DepthLimits,    \* what orderbook_depth_limit may be: the validator only asks for a positive one
    MaxQueue,       \* bound: messages under way
    MaxFailures,    \* bound: connections that do not come up
    MaxDrops        \* bound: connections that break

BookFeedAssumption ==
    /\ IsFiniteSet(Groups)
    /\ Quantities \subseteq Nat /\ 0 \in Quantities
    /\ {LastLevel, Depth, MaxQueue} \subseteq Nat
    /\ DepthLimits \subseteq Nat \ {0}

VARIABLES
    depthLimit,     \* orderbook_depth_limit of the client
    book,           \* the order book on the exchange
    mirror,         \* BybitClient._books for the symbol
    delivered,      \* the last book the callbacks were given
    up,             \* the connections that are up
    lost,           \* those that broke and wait to be opened again
    refused,        \* those that did not come up and wait likewise
    channel,        \* messages under way on the book's connection
    connections,    \* BybitClient.public_ws_connections
    failures, drops

feedVars == <<depthLimit, book, mirror, delivered, up, lost, refused, channel, connections,
              failures, drops>>

Sides == {"b", "a"}
Levels == 1..LastLevel
Books == [Sides -> [Levels -> Quantities]]
NoBook == [s \in Sides |-> [l \in Levels |-> 0]]

\* The n best quoted levels of each side.
Best(b, n) ==
    [s \in Sides |-> [l \in Levels |->
        IF Cardinality({m \in 1..l : b[s][m] > 0}) <= n THEN b[s][l] ELSE 0]]

\* What the exchange says when its book b becomes c: the levels whose size has changed.
Changes(b, c) ==
    {p \in Sides \X Levels : Best(b, Depth)[p[1]][p[2]] # Best(c, Depth)[p[1]][p[2]]}
DeltaMessage(b, c) == [type |-> "delta", levels |-> Changes(b, c), book |-> Best(c, Depth)]
SnapshotMessage(b) == [type |-> "snapshot", levels |-> Sides \X Levels, book |-> Best(b, Depth)]

FeedInit ==
    /\ depthLimit \in DepthLimits
    /\ book \in Books
    /\ mirror = NoBook /\ delivered = NoBook
    /\ up = {} /\ lost = {} /\ refused = {} /\ channel = <<>>
    /\ connections = 0 /\ failures = 0 /\ drops = 0

-----------------------------------------------------------------------------
(* The exchange *)

Quote ==
    /\ \E s \in Sides, l \in Levels, z \in Quantities : book' = [book EXCEPT ![s][l] = z]
    /\ book' # book
    /\ IF BookGroup \in up /\ Changes(book, book') # {}
          THEN /\ Len(channel) < MaxQueue
               /\ channel' = Append(channel, DeltaMessage(book, book'))
          ELSE channel' = channel
    /\ UNCHANGED <<depthLimit, mirror, delivered, up, lost, refused, connections, failures, drops>>

-----------------------------------------------------------------------------
(* _run_public_ws_group *)

MarkPublicWsConnected(delta) ==
    connections' = IF connections + delta > 0 THEN connections + delta ELSE 0

Waiting == lost \cup refused

\* The connection is counted and subscribes; the exchange answers with a snapshot.
Connect(g) ==
    /\ g \notin up \cup Waiting
    /\ up' = up \cup {g}
    /\ MarkPublicWsConnected(1)
    /\ channel' = IF g = BookGroup THEN <<SnapshotMessage(book)>> ELSE channel
    /\ UNCHANGED <<depthLimit, book, mirror, delivered, lost, refused, failures, drops>>

ConnectFails(g) ==
    /\ g \notin up \cup Waiting
    /\ failures < MaxFailures
    /\ failures' = failures + 1
    /\ refused' = refused \cup {g}
    /\ UNCHANGED <<depthLimit, book, mirror, delivered, up, lost, channel, connections, drops>>

\* The connection raises: the except clause sleeps for five seconds, and until the finally
\* clause runs the connection is still counted.
Breaks(g) ==
    /\ g \in up
    /\ drops < MaxDrops
    /\ drops' = drops + 1
    /\ up' = up \ {g} /\ lost' = lost \cup {g}
    /\ channel' = IF g = BookGroup THEN <<>> ELSE channel
    /\ UNCHANGED <<depthLimit, book, mirror, delivered, refused, connections, failures>>

\* The exchange closes the connection in order: the messages end, and nothing sleeps.
HangsUp(g) ==
    /\ g \in up
    /\ drops < MaxDrops
    /\ drops' = drops + 1
    /\ up' = up \ {g}
    /\ MarkPublicWsConnected(-1)
    /\ channel' = IF g = BookGroup THEN <<>> ELSE channel
    /\ UNCHANGED <<depthLimit, book, mirror, delivered, lost, refused, failures>>

\* Faulty: only a connection that did not come up is counted down.
ResumesUncounted(g) ==
    /\ g \in Waiting
    /\ lost' = lost \ {g} /\ refused' = refused \ {g}
    /\ IF g \in refused THEN MarkPublicWsConnected(-1) ELSE UNCHANGED connections
    /\ UNCHANGED <<depthLimit, book, mirror, delivered, up, channel, failures, drops>>

\* The sleep is over: the finally clause counts down, also for a connection that was never
\* counted.
Resumes(g) ==
    /\ g \in Waiting
    /\ lost' = lost \ {g} /\ refused' = refused \ {g}
    /\ MarkPublicWsConnected(-1)
    /\ UNCHANGED <<depthLimit, book, mirror, delivered, up, channel, failures, drops>>

-----------------------------------------------------------------------------
(* _handle_orderbook *)

\* Faulty: a snapshot is merged into what the mirror holds.
AppliedMerging(m, message) ==
    [s \in Sides |-> [l \in Levels |->
        IF <<s, l>> \in message.levels /\ message.book[s][l] > 0
           THEN message.book[s][l]
           ELSE IF message.type = "delta" /\ <<s, l>> \in message.levels THEN 0 ELSE m[s][l]]]

\* A snapshot replaces the sides; a delta sets the levels it names, or takes them out.
Applied(m, message) ==
    [s \in Sides |-> [l \in Levels |->
        IF <<s, l>> \in message.levels THEN message.book[s][l] ELSE m[s][l]]]

TwoSided(m) == \A s \in Sides : \E l \in Levels : m[s][l] > 0

\* A book with an empty side is kept as it is; another is cut to the limit and passed on.
HandleOrderbook ==
    /\ channel # <<>>
    /\ channel' = Tail(channel)
    /\ LET m == Applied(mirror, Head(channel))
       IN  IF TwoSided(m)
              THEN mirror' = Best(m, depthLimit) /\ delivered' = Best(m, Depth)
              ELSE mirror' = m /\ delivered' = delivered
    /\ UNCHANGED <<depthLimit, book, up, lost, refused, connections, failures, drops>>

FeedNext ==
    \/ Quote
    \/ \E g \in Groups :
          Connect(g) \/ ConnectFails(g) \/ Breaks(g) \/ HangsUp(g) \/ Resumes(g)
    \/ HandleOrderbook

FeedSpec == FeedInit /\ [][FeedNext]_feedVars

-----------------------------------------------------------------------------
(* Properties *)

\* Every variable has its type, a connection is in one state, and only a live one has
\* messages under way.
FeedTypeOK ==
    /\ depthLimit \in DepthLimits
    /\ {book, mirror, delivered} \subseteq Books
    /\ UNION {up, lost, refused} \subseteq Groups
    /\ up \cap Waiting = {} /\ lost \cap refused = {}
    /\ Len(channel) <= MaxQueue + 1
    /\ BookGroup \notin up => channel = <<>>
    /\ connections \in 0..Cardinality(Groups)

\* Once every message of a live connection is handled, a level of the mirror has the size the
\* exchange gives it or is missing: nothing from before a reconnect survives the snapshot, no
\* level that left the book stays, and one-sided books in between do no harm.  Nothing is
\* missing either while the limit admits all the exchange sends; under a smaller limit a
\* level that was cut off is missing until it changes, even when it has become the best
\* price (_handle_orderbook).
BookMirrors ==
    BookGroup \in up /\ channel = <<>> =>
        /\ \A s \in Sides, l \in Levels : mirror[s][l] \in {0, Best(book, Depth)[s][l]}
        /\ Depth <= depthLimit => mirror = Best(book, Depth)

\* public_ws_connections never counts a connection that is neither up nor in the five seconds
\* after it broke, and counts all of these as long as every attempt succeeds
\* (_run_public_ws_group: the sleep in its except clause comes before its finally clause).
CountedConnections ==
    /\ connections <= Cardinality(up \cup lost)
    /\ failures = 0 => connections = Cardinality(up \cup lost)
=============================================================================

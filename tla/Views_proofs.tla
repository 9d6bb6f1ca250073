------------------------------ MODULE Views_proofs ------------------------------
(***************************************************************************)
(* Proofs about Views: however long the queries of a page take, whatever   *)
(* is kept, invalidated or overtaken meanwhile, a page shows what was so a *)
(* bounded time ago and does not contradict itself.                        *)
(*                                                                         *)
(* The invariant follows an answer on its way: read one query at a time    *)
(* (Reading), put under its key (the caches), appended to a page that is   *)
(* being put together (Building), kept as a message (the menu) and shown.  *)
(* At every station it says since when the answer may have been so         *)
(* (Fresh), which query it answers (Told), and how it agrees with the      *)
(* answers read before it (Ordered).                                       *)
(***************************************************************************)
EXTENDS Views, FiniteSetTheorems, SequenceTheorems, WellFoundedInduction, TLAPS

AllTrades == Query("all", FALSE)
Asked == {Profiles[i] : i \in DOMAIN Profiles} \cup {"all"}
QuerySet == [profile : Asked, open : BOOLEAN]
AnswerSet == [query : QuerySet, trades : SUBSET ViewedTrades]

Keys == {"summary", "compare", "diagnostics", "profiles"}
OneSection == {"paper", "analytics"}
TwoSections == {"strategy_lab", "compare"}
ViewPages == OneSection \cup TwoSections

\* How old an answer may be when a page takes it from a service.
LabAge(page) == IF page = "paper" THEN 0 ELSE LabTtl - 1

\* What the database knows, and the clock.
World == [opened |-> opened, closed |-> closed, time |-> time]

Worlds ==
    {w \in [opened : [ViewedTrades -> 0..Never], closed : [ViewedTrades -> 0..Never],
            time : 0..LastTime] :
        \A t \in ViewedTrades :
            /\ w.closed[t] >= w.opened[t]
            /\ w.opened[t] # Never => w.opened[t] <= w.time
            /\ w.closed[t] # Never => w.closed[t] <= w.time}

\* Nothing that has happened is undone, and what has happened since was no earlier.
Later(w, v) ==
    /\ w.time <= v.time
    /\ \A t \in ViewedTrades :
          /\ IF w.opened[t] = Never THEN v.opened[t] >= w.time ELSE v.opened[t] = w.opened[t]
          /\ IF w.closed[t] = Never THEN v.closed[t] >= w.time ELSE v.closed[t] = w.closed[t]

\* TrueAt, of any world.
So(w, answer, m) ==
    LET those == {t \in ViewedTrades : Asks(answer.query, t)}
    IN  IF answer.query.open
        THEN /\ {t \in those : w.opened[t] < m /\ w.closed[t] > m} \subseteq answer.trades
             /\ answer.trades \subseteq {t \in those : w.opened[t] <= m /\ w.closed[t] >= m}
        ELSE /\ {t \in those : w.closed[t] < m} \subseteq answer.trades
             /\ answer.trades \subseteq {t \in those : w.closed[t] <= m}

\* Every answer was so at a moment that is not before the given one.
Fresh(w, answers, from) ==
    \A i \in DOMAIN answers : \E m \in 0..w.time : m >= from /\ So(w, answers[i], m)

\* The answers are those to the first queries of a key.
Told(answers, key) ==
    /\ answers \in Seq(AnswerSet) /\ Len(answers) <= Len(Queries(key))
    /\ \A i \in DOMAIN answers : answers[i].query = Queries(key)[i]

\* No trade that was closed is found open later, and a later answer about all profiles has it.
Ordered(answers) ==
    \A i, j \in DOMAIN answers : i < j /\ ~answers[i].query.open =>
        /\ answers[j].query.open => answers[i].trades \cap answers[j].trades = {}
        /\ answers[j].query = AllTrades => answers[i].trades \subseteq answers[j].trades

\* What was read as closed is closed.
Settled(w, answers) ==
    \A i \in DOMAIN answers : ~answers[i].query.open =>
        \A t \in answers[i].trades : w.closed[t] # Never

\* All answers of a page that has two sections are to the same question.
Alike(answers) ==
    answers \in Seq(AnswerSet) /\ \A i \in DOMAIN answers : answers[i].query = AllTrades

Composed(page, answers) ==
    IF page \in OneSection THEN Told(answers, Sections(page)[1]) /\ Ordered(answers)
    ELSE Alike(answers)

\* A page whose sections left are still to be asked for.
Building(w, s) ==
    /\ s.page \in ViewPages /\ s.asked \in 0..w.time
    /\ Fresh(w, s.answers, s.asked - LabAge(s.page))
    /\ s.page \in OneSection =>
          \/ s.left = Sections(s.page) /\ s.answers = <<>>
          \/ s.left = <<>> /\ Composed(s.page, s.answers)
    /\ s.page \in TwoSections =>
          s.left \in Seq({"compare", "diagnostics"}) /\ Alike(s.answers)

\* A section whose queries are being asked.
Reading(w, s) ==
    /\ s.left # <<>> /\ s.began \in s.asked..w.time
    /\ Told(s.got, Head(s.left)) /\ Ordered(s.got) /\ Settled(w, s.got)
    /\ Fresh(w, s.got, s.began)
    /\ Len(s.got) + Len(s.queries) = Len(Queries(Head(s.left)))
    /\ \A i \in DOMAIN s.queries : s.queries[i] = Queries(Head(s.left))[Len(s.got) + i]

SectionStates ==
    [at : {"section"}, page : ViewPages, asked : Nat, left : Seq(Keys), answers : Seq(AnswerSet)]
QueryStates ==
    [at : {"query"}, page : ViewPages, asked : Nat, left : Seq(Keys), answers : Seq(AnswerSet),
     began : Nat, queries : Seq(QuerySet), got : Seq(AnswerSet)]

ReaderSound(w, s) ==
    \/ s = Idle
    \/ s \in SectionStates /\ Building(w, s)
    \/ s \in QueryStates /\ Building(w, s) /\ Reading(w, s)

KeptSound(w, key, item) ==
    /\ key \in Keys \ {"profiles"} /\ item.until \in Int
    /\ Told(item.answers, key) /\ Ordered(item.answers)
    /\ Fresh(w, item.answers, item.until - LabTtl)

PageSound(w, page, item) ==
    /\ page \in {"paper", "strategy_lab"} /\ item.until \in Int /\ item.took \in Nat
    /\ Composed(page, item.answers)
    /\ Fresh(w, item.answers, item.until - PageTtl - item.took - LabAge(page))

ShownSound(w, s) ==
    /\ s.page \in ViewPages /\ s.took \in Nat /\ s.asked \in 0..w.time
    /\ Composed(s.page, s.answers)
    /\ Fresh(w, s.answers, s.asked - s.took - KeptFor(s.page))

(***************************************************************************)
(* The inductive invariant.                                                *)
(***************************************************************************)
IInv ==
    /\ World \in Worlds
    /\ process \in {"bot", "web"} /\ asked \in 0..MaxAsked[process]
    /\ DOMAIN reader = Readers /\ \A r \in Readers : ReaderSound(World, reader[r])
    /\ \A k \in DOMAIN kept : KeptSound(World, k, kept[k])
    /\ \A p \in DOMAIN pages : PageSound(World, p, pages[p])
    /\ ShownSound(World, shown)

-----------------------------------------------------------------------------
\* Numbers that there are have a least one.
LEMMA Least ==
    ASSUME NEW B \in SUBSET Nat, B # {}
    PROVE  \E n \in B : \A m \in B : n <= m
<1> DEFINE R == OpToRel(<, Nat)
<1>1. IsWellFoundedOn(R, Nat)
  BY NatLessThanWellFounded
<1>2. \A m, n \in Nat : m < n => <<m, n>> \in R
  BY DEF OpToRel
<1> HIDE DEF R
<1>3. PICK n \in B : \A m \in B : ~(<<m, n>> \in R)
  BY <1>1, WFMin
<1>4. \A m \in B : ~(m < n)
  BY <1>2, <1>3
<1>5. QED
  BY <1>3, <1>4

-----------------------------------------------------------------------------
(* The queries of a key *)

\* The two queries of each profile, one profile after the other.
LEMMA Listing ==
    ASSUME ViewsAssumption
    PROVE  /\ PaperProfilesSummary \in Seq(QuerySet)
           /\ Len(PaperProfilesSummary) = 2 * Len(Profiles)
           /\ \A i \in 1..(2 * Len(Profiles)) :
                 /\ (i + 1) \div 2 \in 1..Len(Profiles)
                 /\ PaperProfilesSummary[i].profile = Profiles[(i + 1) \div 2]
                 /\ PaperProfilesSummary[i].open <=> i % 2 = 0
<1> DEFINE n == Len(Profiles)
           Q(i) == ProfileQueries(Profiles[(i + 1) \div 2])[2 - (i % 2)]
<1>1. n \in Nat /\ \A i \in 1..n : Profiles[i] \in Asked
  BY DEF ViewsAssumption, Asked
<1>2. 2 * n \in Nat
  BY <1>1
<1>3. ASSUME NEW i \in 1..(2 * n)
      PROVE  /\ (i + 1) \div 2 \in 1..n
             /\ Q(i) \in QuerySet
             /\ Q(i).profile = Profiles[(i + 1) \div 2]
             /\ Q(i).open <=> i % 2 = 0
  <2>1. (i + 1) \div 2 \in 1..n
    BY <1>1, <1>3
  <2>2. i % 2 \in {0, 1}
    BY <1>1, <1>3
  <2>3. PICK p \in Asked : p = Profiles[(i + 1) \div 2]
    BY <1>1, <2>1
  <2>4. CASE i % 2 = 0
    <3>1. 2 - (i % 2) = 2
      BY <2>4
    <3>2. Q(i) = ProfileQueries(p)[2]
      BY <2>3, <3>1
    <3>3. ProfileQueries(p)[2] = Query(p, TRUE)
      BY DEF ProfileQueries
    <3>4. QED
      BY <2>1, <2>3, <2>4, <3>2, <3>3 DEF Query, QuerySet
  <2>5. CASE i % 2 = 1
    <3>1. 2 - (i % 2) = 1
      BY <2>5
    <3>2. Q(i) = ProfileQueries(p)[1]
      BY <2>3, <3>1
    <3>3. ProfileQueries(p)[1] = Query(p, FALSE)
      BY DEF ProfileQueries
    <3>4. QED
      BY <2>1, <2>3, <2>5, <3>2, <3>3 DEF Query, QuerySet
  <2>6. QED
    BY <2>2, <2>4, <2>5
<1>4. PaperProfilesSummary = [i \in 1..(2 * n) |-> Q(i)]
  BY DEF PaperProfilesSummary
<1> HIDE DEF n, Q
<1>5. PaperProfilesSummary \in Seq(QuerySet) /\ Len(PaperProfilesSummary) = 2 * n
  BY <1>2, <1>3, <1>4, IsASeq, LenProperties
<1>6. \A i \in 1..(2 * n) : PaperProfilesSummary[i] = Q(i)
  BY <1>4
<1>7. QED
  BY <1>3, <1>5, <1>6 DEF n

\* The queries of every key.
LEMMA QueriesOf ==
    ASSUME ViewsAssumption
    PROVE  /\ AllTrades \in QuerySet
           /\ \A key \in Keys : Queries(key) \in Seq(QuerySet)
           /\ Queries("compare") = <<AllTrades>> /\ Queries("diagnostics") = <<AllTrades>>
           /\ Queries("profiles") = PaperProfilesSummary
           /\ Queries("summary") = Append(PaperProfilesSummary, AllTrades)
<1>1. AllTrades \in QuerySet
  BY DEF AllTrades, Query, QuerySet, Asked
<1>2. /\ Queries("compare") = <<AllTrades>> /\ Queries("diagnostics") = <<AllTrades>>
      /\ Queries("profiles") = PaperProfilesSummary
      /\ Queries("summary") = Append(PaperProfilesSummary, AllTrades)
  BY DEF Queries, AllTrades
<1>3. <<AllTrades>> \in Seq(QuerySet)
  BY <1>1
<1>4. /\ PaperProfilesSummary \in Seq(QuerySet)
      /\ Append(PaperProfilesSummary, AllTrades) \in Seq(QuerySet)
  BY <1>1, Listing, AppendProperties
<1>5. QED
  BY <1>1, <1>2, <1>3, <1>4 DEF Keys

\* Within one section: a profile's open trades are read after its closed ones, and the trades
\* of all profiles last of all.
LEMMA OneAfterTheOther ==
    ASSUME ViewsAssumption, NEW key \in {"profiles", "summary"}, NEW answers,
           Told(answers, key), NEW i \in DOMAIN answers, NEW j \in DOMAIN answers,
           ~answers[i].query.open
    PROVE  /\ answers[i].query.profile = answers[j].query.profile /\ answers[j].query.open =>
                 i < j
           /\ answers[j].query.profile = "all" => answers[j].query = AllTrades /\ i <= j
<1> DEFINE n == Len(Profiles)  q == Queries(key)
<1>1. n \in Nat /\ \A k \in 1..n : Profiles[k] # "all"
  BY DEF ViewsAssumption
<1>2. i \in 1..Len(q) /\ j \in 1..Len(q) /\ answers[i].query = q[i] /\ answers[j].query = q[j]
  BY QueriesOf, LenProperties DEF Told, Keys
<1>3. Len(q) \in {2 * n, 2 * n + 1}
  BY <1>1, Listing, QueriesOf, AppendProperties
<1>4. ASSUME NEW k \in 1..Len(q), k <= 2 * n
      PROVE  /\ q[k].profile = Profiles[(k + 1) \div 2] /\ (k + 1) \div 2 \in 1..n
             /\ q[k].open <=> k % 2 = 0
  <2>1. k \in 1..(2 * n)
    BY <1>1, <1>4
  <2>2. q[k] = PaperProfilesSummary[k]
    <3>1. /\ PaperProfilesSummary \in Seq(QuerySet) /\ AllTrades \in QuerySet
          /\ k \in 1..Len(PaperProfilesSummary)
      BY <2>1, Listing, QueriesOf
    <3>2. Append(PaperProfilesSummary, AllTrades)[k] = PaperProfilesSummary[k]
      BY <3>1, AppendProperties
    <3>3. q \in {PaperProfilesSummary, Append(PaperProfilesSummary, AllTrades)}
      BY QueriesOf
    <3>4. QED
      BY <3>2, <3>3
  <2>3. QED
    BY <2>1, <2>2, Listing
<1>5. ASSUME NEW k \in 1..Len(q), ~(k <= 2 * n)
      PROVE  q[k] = AllTrades /\ k = 2 * n + 1
  BY <1>1, <1>3, <1>5, Listing, QueriesOf, AppendProperties
<1> HIDE DEF n, q
<1>6. CASE i <= 2 * n /\ j <= 2 * n
  <2> DEFINE a == (i + 1) \div 2  b == (j + 1) \div 2
  <2>1. /\ a \in 1..n /\ b \in 1..n /\ q[i].profile = Profiles[a] /\ q[j].profile = Profiles[b]
        /\ i % 2 # 0 /\ (q[j].open <=> j % 2 = 0)
    BY <1>2, <1>4, <1>6
  <2>2. ASSUME q[i].profile = q[j].profile, q[j].open  PROVE i < j
    <3>1. a = b /\ j % 2 = 0
      <4> HIDE DEF a, b
      <4>1. a \in DOMAIN Profiles /\ b \in DOMAIN Profiles
        BY <2>1 DEF ViewsAssumption, n
      <4>2. Profiles[a] = Profiles[b]
        BY <2>1, <2>2
      <4>3. QED
        BY <2>1, <2>2, <4>1, <4>2 DEF ViewsAssumption
    <3>2. i \in Nat /\ j \in Nat
      BY <1>2
    <3>3. QED
      BY <2>1, <3>1, <3>2
  <2>3. q[j].profile # "all"
    BY <1>1, <2>1
  <2>4. QED
    BY <1>2, <2>2, <2>3
<1>7. CASE i <= 2 * n /\ ~(j <= 2 * n)
  <2>1. i < j /\ q[j] = AllTrades
    BY <1>1, <1>2, <1>5, <1>7
  <2>2. QED
    BY <1>2, <2>1
<1>8. CASE ~(i <= 2 * n) /\ j <= 2 * n
  <2>1. q[i] = AllTrades /\ q[j].profile # "all"
    BY <1>1, <1>2, <1>4, <1>5, <1>8
  <2>2. QED
    BY <1>2, <2>1 DEF AllTrades, Query
<1>9. CASE ~(i <= 2 * n) /\ ~(j <= 2 * n)
  <2>1. i = j /\ q[i] = AllTrades /\ q[j] = AllTrades /\ i \in Int
    BY <1>2, <1>5, <1>9
  <2>2. QED
    BY <1>2, <2>1 DEF AllTrades, Query
<1>10. QED
  BY <1>6, <1>7, <1>8, <1>9

-----------------------------------------------------------------------------
(* What an answer says stays true *)

LEMMA LaterSo ==
    ASSUME ViewsAssumption, NEW w \in Worlds, NEW v \in Worlds, Later(w, v),
           NEW answer, NEW m \in 0..w.time, So(w, answer, m)
    PROVE  So(v, answer, m)
<1>1. /\ w.time \in Nat /\ w.time < Never /\ Never \in Nat /\ v.time \in Nat /\ m \in Nat
      /\ m <= w.time
  BY DEF Worlds, Never, ViewsAssumption
<1>2. ASSUME NEW t \in ViewedTrades
      PROVE  /\ w.opened[t] \in Nat /\ w.closed[t] \in Nat
             /\ v.opened[t] \in Nat /\ v.closed[t] \in Nat
             /\ v.opened[t] < m => w.opened[t] < m
             /\ v.closed[t] < m => w.closed[t] < m
             /\ v.closed[t] > m => w.closed[t] > m
             /\ w.opened[t] <= m => v.opened[t] <= m
             /\ w.closed[t] <= m => v.closed[t] <= m
             /\ w.closed[t] >= m => v.closed[t] >= m
  <2>1. /\ w.opened[t] \in Nat /\ w.closed[t] \in Nat
        /\ v.opened[t] \in Nat /\ v.closed[t] \in Nat
    BY <1>1 DEF Worlds
  <2>2. QED
    BY <1>1, <2>1 DEF Later
<1>3. CASE answer.query.open
  BY <1>2, <1>3 DEF So
<1>4. CASE ~answer.query.open
  BY <1>2, <1>4 DEF So
<1>5. QED
  BY <1>3, <1>4

LEMMA LaterFresh ==
    ASSUME ViewsAssumption, NEW w \in Worlds, NEW v \in Worlds, Later(w, v),
           NEW answers, NEW from, Fresh(w, answers, from)
    PROVE  Fresh(v, answers, from)
<1>1. w.time \in Nat /\ v.time \in Nat /\ w.time <= v.time
  BY DEF Later, Worlds, ViewsAssumption
<1>2. \A m \in 0..w.time : m \in 0..v.time
  BY <1>1
<1>3. QED
  BY <1>2, LaterSo DEF Fresh

\* Answers that were so at a moment not before one are so at a moment not before an earlier one.
LEMMA FreshSince ==
    ASSUME ViewsAssumption, NEW w \in Worlds, NEW answers, NEW from \in Int, NEW since \in Int,
           since <= from, Fresh(w, answers, from)
    PROVE  Fresh(w, answers, since)
<1>1. \A m \in 0..w.time : m >= from => m >= since
  BY DEF Worlds, ViewsAssumption
<1>2. QED
  BY <1>1 DEF Fresh

\* Nothing that is sound in one world is not in a later one.
LEMMA LaterSound ==
    ASSUME ViewsAssumption, NEW w \in Worlds, NEW v \in Worlds, Later(w, v)
    PROVE  /\ \A s : ReaderSound(w, s) => ReaderSound(v, s)
           /\ \A k, item : KeptSound(w, k, item) => KeptSound(v, k, item)
           /\ \A p, item : PageSound(w, p, item) => PageSound(v, p, item)
           /\ \A s : ShownSound(w, s) => ShownSound(v, s)
<1>1. /\ \A n \in 0..w.time : n \in 0..v.time
      /\ w.time \in Nat /\ v.time \in Nat /\ w.time <= v.time
  BY DEF Later, Worlds, ViewsAssumption
<1>2. \A s : Building(w, s) => Building(v, s)
  BY <1>1, LaterFresh DEF Building
<1>3. ASSUME NEW s, Building(w, s), Reading(w, s)  PROVE Reading(v, s)
  <2>1. s.asked \in 0..w.time /\ s.began \in s.asked..w.time
    BY <1>3 DEF Building, Reading
  <2>2. s.began \in s.asked..v.time
    BY <1>1, <2>1
  <2>3. Settled(v, s.got)
    <3>1. ASSUME NEW i \in DOMAIN s.got, ~s.got[i].query.open, NEW t \in s.got[i].trades
          PROVE  v.closed[t] # Never
      <4>1. w.closed[t] # Never
        BY <1>3, <3>1 DEF Reading, Settled
      <4>2. s.got[i] \in AnswerSet
        BY <1>3 DEF Reading, Told
      <4>3. t \in ViewedTrades
        BY <4>2 DEF AnswerSet
      <4>4. QED
        BY <4>1, <4>3 DEF Later
    <3>2. QED
      BY <3>1 DEF Settled
  <2>4. QED
    BY <1>3, <2>2, <2>3, LaterFresh DEF Reading
<1>4. \A s : ReaderSound(w, s) => ReaderSound(v, s)
  BY <1>2, <1>3 DEF ReaderSound
<1>5. \A k, item : KeptSound(w, k, item) => KeptSound(v, k, item)
  BY LaterFresh DEF KeptSound
<1>6. \A p, item : PageSound(w, p, item) => PageSound(v, p, item)
  BY LaterFresh DEF PageSound
<1>7. \A s : ShownSound(w, s) => ShownSound(v, s)
  BY <1>1, LaterFresh DEF ShownSound
<1>8. QED
  BY <1>4, <1>5, <1>6, <1>7

-----------------------------------------------------------------------------
(* A sound page is honest *)

\* The number of a greatest set among some of a finite set is that of one of them.
LEMMA GreatestCount ==
    ASSUME NEW S, IsFiniteSet(S), NEW F \in SUBSET (SUBSET S), F # {}
    PROVE  \E W \in F : Max({Cardinality(X) : X \in F}) = Cardinality(W)
<1> DEFINE N == {Cardinality(X) : X \in F}
<1>1. \A X \in F : IsFiniteSet(X) /\ Cardinality(X) \in Nat /\ Cardinality(X) <= Cardinality(S)
  BY FS_Subset, FS_CardinalityType
<1>2. Cardinality(S) \in Nat
  BY FS_CardinalityType
<1>3. PICK X0 \in F : TRUE
  OBVIOUS
<1> DEFINE B == {Cardinality(S) - n : n \in N}
<1>4. B \in SUBSET Nat /\ B # {}
  BY <1>1, <1>2, <1>3
<1>5. PICK b \in B : \A c \in B : b <= c
  BY <1>4, Least
<1>6. PICK x \in N : b = Cardinality(S) - x
  BY <1>5
<1>7. \A y \in N : y \in Nat
  BY <1>1
<1>8. \A y \in N : x >= y
  <2> TAKE y \in N
  <2>1. Cardinality(S) - y \in B
    OBVIOUS
  <2>2. b <= Cardinality(S) - y
    BY <1>5, <2>1
  <2>3. x \in Nat /\ y \in Nat
    BY <1>7
  <2> HIDE DEF N, B
  <2>4. QED
    BY <1>2, <1>6, <2>2, <2>3
<1>9. Max(N) \in N
  BY <1>6, <1>8 DEF Max
<1>10. QED
  BY <1>9

\* No streak is longer than the trades that are on its side.
LEMMA StreakBound ==
    ASSUME ViewsAssumption, NEW S \in SUBSET ViewedTrades, NEW T \in SUBSET ViewedTrades,
           S \subseteq T
    PROVE  MaxStreak(S, TRUE) <= Cardinality(Wins(T))
<1> DEFINE same == {t \in S : (Profit[t] > 0) = TRUE}
           before(a, b) == closed[a] < closed[b] \/ (closed[a] = closed[b] /\ a < b)
           F == {W \in SUBSET same :
                   \A t \in S \ same : \A a, b \in W : ~(before(a, t) /\ before(t, b))}
<1>1. IsFiniteSet(Wins(T)) /\ same \subseteq Wins(T)
  <2>1. IsFiniteSet(ViewedTrades) /\ Wins(T) \subseteq ViewedTrades
    BY DEF ViewsAssumption, Wins
  <2>2. same \subseteq Wins(T)
    BY DEF Wins
  <2>3. QED
    BY <2>1, <2>2, FS_Subset
<1>2. {} \in F
  OBVIOUS
<1>3. MaxStreak(S, TRUE) = Max({Cardinality(W) : W \in F})
  BY DEF MaxStreak
<1> HIDE DEF before
<1>4. F \in SUBSET (SUBSET Wins(T))
  BY <1>1
<1> HIDE DEF F
<1>5. PICK W \in F : Max({Cardinality(X) : X \in F}) = Cardinality(W)
  BY <1>1, <1>2, <1>4, GreatestCount
<1>6. Cardinality(W) <= Cardinality(Wins(T))
  BY <1>1, <1>4, FS_Subset
<1>7. QED
  BY <1>3, <1>5, <1>6

\* TrueAt, of the world there is.
LEMMA SoNow ==
    ASSUME NEW answer, NEW m
    PROVE  So(World, answer, m) = TrueAt(answer, m)
BY DEF So, TrueAt, World

LEMMA SoundIsHonest ==
    ASSUME ViewsAssumption, World \in Worlds, ShownSound(World, shown)
    PROVE  ShownIsHonest
<1> DEFINE answers == shown.answers
           from == shown.asked - shown.took - KeptFor(shown.page)
           since == Max({0, from})
<1>1. World.time = time /\ time \in Nat
  BY DEF World, Worlds, ViewsAssumption
<1>2. /\ shown.page \in ViewPages /\ shown.took \in Nat
      /\ shown.asked \in Nat /\ shown.asked <= time
      /\ Composed(shown.page, answers) /\ Fresh(World, answers, from)
  BY <1>1 DEF ShownSound
<1>3. from \in Int
  <2>1. KeptFor(shown.page) \in Int
    BY <1>2 DEF KeptFor, ViewPages, OneSection, TwoSections, ViewsAssumption
  <2>2. QED
    BY <1>2, <2>1
<1>4. answers \in Seq(AnswerSet) /\ \A i \in DOMAIN answers : answers[i].trades \subseteq ViewedTrades
  <2>1. answers \in Seq(AnswerSet)
    BY <1>2 DEF Composed, Told, Alike
  <2>2. \A i \in DOMAIN answers : answers[i] \in AnswerSet
    BY <2>1
  <2>3. QED
    BY <2>1, <2>2 DEF AnswerSet
<1> HIDE DEF from
<1>5. \A a \in ToSet(answers) : \E m \in since..time : TrueAt(a, m)
  <2>1. since \in Int /\ \A m \in Nat : m >= from => m >= since
    <3>1. CASE from <= 0
      BY <1>3, <3>1 DEF Max
    <3>2. CASE from > 0
      BY <1>3, <3>2 DEF Max
    <3>3. QED
      BY <1>3, <3>1, <3>2
  <2> HIDE DEF since
  <2>2. ASSUME NEW i \in DOMAIN answers
        PROVE  \E m \in since..time : TrueAt(answers[i], m)
    <3>1. PICK m \in 0..World.time : m >= from /\ So(World, answers[i], m)
      BY <1>2 DEF Fresh
    <3>2. m \in since..time
      BY <1>1, <2>1, <3>1
    <3>3. QED
      BY <3>1, <3>2, SoNow
  <2>3. QED
    BY <2>2 DEF ToSet
<1>6. ASSUME NEW i \in DOMAIN answers, NEW j \in DOMAIN answers,
             ~answers[i].query.open
      PROVE  /\ answers[i].query.profile = answers[j].query.profile /\ answers[j].query.open =>
                   answers[i].trades \cap answers[j].trades = {}
             /\ shown.page = "analytics" /\ answers[j].query.profile = "all" =>
                   answers[i].trades \subseteq answers[j].trades
  <2>1. CASE shown.page \in TwoSections
    <3>1. answers[j].query = AllTrades /\ shown.page # "analytics"
      BY <1>2, <2>1 DEF Composed, Alike, OneSection, TwoSections
    <3>2. QED
      BY <3>1 DEF AllTrades, Query
  <2>2. CASE shown.page \in OneSection
    <3> DEFINE key == Sections(shown.page)[1]
    <3>1. key \in {"profiles", "summary"} /\ Told(answers, key) /\ Ordered(answers)
      BY <1>2, <2>2 DEF Composed, OneSection, Sections
    <3> HIDE DEF key
    <3>2. ASSUME answers[i].query.profile = answers[j].query.profile, answers[j].query.open
          PROVE  answers[i].trades \cap answers[j].trades = {}
      BY <1>6, <3>1, <3>2, OneAfterTheOther DEF Ordered
    <3>3. ASSUME answers[j].query.profile = "all"
          PROVE  answers[i].trades \subseteq answers[j].trades
      <4>1. answers[j].query = AllTrades /\ i <= j /\ i \in Nat /\ j \in Nat
        BY <1>4, <1>6, <3>1, <3>3, OneAfterTheOther
      <4>2. CASE i = j
        BY <4>2
      <4>3. CASE i < j
        BY <1>6, <3>1, <4>1, <4>3 DEF Ordered
      <4>4. QED
        BY <4>1, <4>2, <4>3
    <3>4. QED
      BY <3>2, <3>3
  <2>3. QED
    BY <1>2, <2>1, <2>2 DEF ViewPages
<1>7. ASSUME NEW S \in SUBSET ViewedTrades, NEW T \in SUBSET ViewedTrades, S \subseteq T
      PROVE  /\ TradeStats(S).trades <= TradeStats(T).trades
             /\ DOMAIN GroupStats(S) \subseteq DOMAIN GroupStats(T)
             /\ MaxStreak(S, TRUE) <= TradeStats(T).wins
  <2>1. Cardinality(S) <= Cardinality(T)
    <3>1. IsFiniteSet(T)
      BY FS_Subset DEF ViewsAssumption
    <3>2. QED
      BY <1>7, <3>1, FS_Subset
  <2>2. /\ TradeStats(S).trades = Cardinality(S) /\ TradeStats(T).trades = Cardinality(T)
        /\ TradeStats(T).wins = Cardinality(Wins(T))
    BY DEF TradeStats
  <2>3. DOMAIN GroupStats(S) \subseteq DOMAIN GroupStats(T)
    BY <1>7 DEF GroupStats
  <2>4. QED
    BY <1>7, <2>1, <2>2, <2>3, StreakBound
<1>8. QED
  <2> HIDE DEF since
  <2>1. ASSUME NEW a \in ToSet(answers), NEW b \in ToSet(answers)
        PROVE  /\ a.query.profile = b.query.profile /\ a.query.open /\ ~b.query.open =>
                     a.trades \cap b.trades = {}
               /\ shown.page = "analytics" /\ ~a.query.open /\ b.query.profile = "all" =>
                     /\ a.trades \subseteq b.trades
                     /\ TradeStats(a.trades).trades <= TradeStats(b.trades).trades
                     /\ DOMAIN GroupStats(a.trades) \subseteq DOMAIN GroupStats(b.trades)
                     /\ MaxStreak(a.trades, TRUE) <= TradeStats(b.trades).wins
    <3>1. PICK i \in DOMAIN answers, j \in DOMAIN answers : a = answers[i] /\ b = answers[j]
      BY <2>1 DEF ToSet
    <3>2. QED
      BY <1>4, <1>6, <1>7, <3>1
  <2>2. QED
    BY <1>5, <2>1 DEF ShownIsHonest, since, from

-----------------------------------------------------------------------------
(* Sections and answers that are appended *)

LEMMA FreshConcat ==
    ASSUME NEW w, NEW from, NEW a \in Seq(AnswerSet), NEW b \in Seq(AnswerSet),
           Fresh(w, a, from), Fresh(w, b, from)
    PROVE  Fresh(w, a \o b, from)
<1>1. ASSUME NEW i \in DOMAIN (a \o b)
      PROVE  \E m \in 0..w.time : m >= from /\ So(w, (a \o b)[i], m)
  <2>1. i \in 1..(Len(a) + Len(b))
    BY <1>1, ConcatProperties
  <2>2. CASE i <= Len(a)
    <3>1. i \in DOMAIN a /\ (a \o b)[i] = a[i]
      BY <2>1, <2>2, ConcatProperties
    <3>2. QED
      BY <3>1 DEF Fresh
  <2>3. CASE ~(i <= Len(a))
    <3>1. i - Len(a) \in DOMAIN b /\ (a \o b)[i] = b[i - Len(a)]
      BY <2>1, <2>3, ConcatProperties
    <3>2. QED
      BY <3>1 DEF Fresh
  <2>4. QED
    BY <2>2, <2>3
<1>2. QED
  BY <1>1 DEF Fresh

LEMMA AlikeConcat ==
    ASSUME NEW a, NEW b, Alike(a), Alike(b)
    PROVE  Alike(a \o b)
<1>1. a \in Seq(AnswerSet) /\ b \in Seq(AnswerSet)
  BY DEF Alike
<1>2. a \o b \in Seq(AnswerSet)
  BY <1>1, ConcatProperties
<1>3. ASSUME NEW i \in DOMAIN (a \o b)  PROVE (a \o b)[i].query = AllTrades
  <2>1. i \in 1..(Len(a) + Len(b))
    BY <1>1, <1>3, ConcatProperties
  <2>2. CASE i <= Len(a)
    <3>1. i \in DOMAIN a /\ (a \o b)[i] = a[i]
      BY <1>1, <2>1, <2>2, ConcatProperties
    <3>2. QED
      BY <3>1 DEF Alike
  <2>3. CASE ~(i <= Len(a))
    <3>1. i - Len(a) \in DOMAIN b /\ (a \o b)[i] = b[i - Len(a)]
      BY <1>1, <2>1, <2>3, ConcatProperties
    <3>2. QED
      BY <3>1 DEF Alike
  <2>4. QED
    BY <2>2, <2>3
<1>4. QED
  BY <1>2, <1>3 DEF Alike

\* What the answers of one section add to a page.
LEMMA SectionAdded ==
    ASSUME ViewsAssumption, NEW w, NEW s, Building(w, s), s.answers \in Seq(AnswerSet),
           s.left \in Seq(Keys), s.left # <<>>,
           NEW got, Told(got, Head(s.left)), Ordered(got),
           Fresh(w, got, s.asked - LabAge(s.page)),
           NEW after, after.page = s.page, after.asked = s.asked,
           after.left = Tail(s.left), after.answers = s.answers \o got
    PROVE  Building(w, after)
<1>1. got \in Seq(AnswerSet)
  BY DEF Told
<1>2. Fresh(w, after.answers, after.asked - LabAge(after.page))
  BY <1>1, FreshConcat DEF Building
<1>3. ASSUME s.page \in OneSection
      PROVE  after.left = <<>> /\ Composed(s.page, after.answers)
  <2>1. s.left = Sections(s.page) /\ s.answers = <<>>
    BY <1>3 DEF Building
  <2>2. Tail(Sections(s.page)) = <<>> /\ Head(Sections(s.page)) = Sections(s.page)[1]
    BY <1>3 DEF Sections, OneSection
  <2>3. after.answers = got
    BY <1>1, <2>1, ConcatEmptySeq
  <2>4. QED
    BY <1>3, <2>1, <2>2, <2>3 DEF Composed
<1>4. ASSUME s.page \in TwoSections
      PROVE  after.left \in Seq({"compare", "diagnostics"}) /\ Alike(after.answers)
  <2>1. s.left \in Seq({"compare", "diagnostics"}) /\ Alike(s.answers)
    BY <1>4 DEF Building
  <2>2. Head(s.left) \in {"compare", "diagnostics"}
        /\ Tail(s.left) \in Seq({"compare", "diagnostics"})
    BY <2>1, HeadTailProperties
  <2>3. Alike(got)
    <3>1. Queries(Head(s.left)) = <<AllTrades>>
      BY <2>2, QueriesOf
    <3>2. Len(got) <= 1 /\ \A i \in DOMAIN got : got[i].query = <<AllTrades>>[i]
      BY <3>1 DEF Told
    <3>3. ASSUME NEW i \in DOMAIN got  PROVE i = 1
      BY <1>1, <3>2
    <3>4. QED
      BY <1>1, <3>2, <3>3 DEF Alike
  <2>4. QED
    BY <2>1, <2>2, <2>3, AlikeConcat
<1>5. QED
  BY <1>2, <1>3, <1>4 DEF Building

\* A query tells what is so at this moment.
LEMMA AnswerIsSo ==
    ASSUME ViewsAssumption, World \in Worlds, NEW query \in QuerySet
    PROVE  Answer(query) \in AnswerSet /\ So(World, Answer(query), time)
<1>1. Answer(query).query = query /\ Answer(query) \in AnswerSet
  BY DEF Answer, AnswerSet
<1>2. time \in Nat /\ Never \in Nat /\ time < Never
  BY DEF World, Worlds, Never, ViewsAssumption
<1>3. ASSUME NEW t \in ViewedTrades
      PROVE  /\ opened[t] \in Nat /\ closed[t] \in Nat
             /\ opened[t] <= closed[t]
             /\ opened[t] # Never => opened[t] <= time
             /\ closed[t] # Never => closed[t] <= time
  BY DEF World, Worlds, Never, ViewsAssumption
<1>4. CASE query.open
  <2>1. Answer(query).trades = {t \in ViewedTrades : Asks(query, t) /\ IsOpen(t)}
    BY <1>4 DEF Answer
  <2>2. ASSUME NEW t \in ViewedTrades
        PROVE  /\ opened[t] < time /\ closed[t] > time => IsOpen(t)
               /\ IsOpen(t) => opened[t] <= time /\ closed[t] >= time
    BY <1>2, <1>3 DEF IsOpen
  <2>3. QED
    BY <1>1, <1>4, <2>1, <2>2 DEF So, World
<1>5. CASE ~query.open
  <2>1. Answer(query).trades = {t \in ViewedTrades : Asks(query, t) /\ IsClosed(t)}
    BY <1>5 DEF Answer
  <2>2. ASSUME NEW t \in ViewedTrades
        PROVE  /\ closed[t] < time => IsClosed(t)
               /\ IsClosed(t) => closed[t] <= time
    BY <1>2, <1>3 DEF IsClosed
  <2>3. QED
    BY <1>1, <1>5, <2>1, <2>2 DEF So, World
<1>6. QED
  BY <1>1, <1>4, <1>5

\* A section that has read one answer more.
LEMMA AnswerAdded ==
    ASSUME ViewsAssumption, World \in Worlds, NEW s \in QueryStates,
           Building(World, s), Reading(World, s), s.queries # <<>>
    PROVE  LET after == [s EXCEPT !.queries = Tail(@),
                                  !.got = Append(@, Answer(Head(s.queries)))]
           IN  after \in QueryStates /\ Building(World, after) /\ Reading(World, after)
<1> DEFINE answer == Answer(Head(s.queries))  got == Append(s.got, answer)
           after == [s EXCEPT !.queries = Tail(@), !.got = got]
           key == Head(s.left)  n == Len(s.got)
<1>1. /\ s.got \in Seq(AnswerSet) /\ s.queries \in Seq(QuerySet) /\ s.began \in Nat
      /\ s.left \in Seq(Keys)
  BY DEF QueryStates
<1>2. Head(s.queries) \in QuerySet /\ Tail(s.queries) \in Seq(QuerySet)
      /\ Len(s.queries) \in Nat /\ Len(s.queries) > 0 /\ n \in Nat
      /\ Len(Tail(s.queries)) = Len(s.queries) - 1
  BY <1>1, HeadTailProperties, EmptySeq
<1>3. answer \in AnswerSet /\ So(World, answer, time) /\ answer.query = Head(s.queries)
  <2>1. answer.query = Head(s.queries)
    BY DEF Answer
  <2>2. QED
    BY <1>2, <2>1, AnswerIsSo
<1>4. got \in Seq(AnswerSet) /\ Len(got) = n + 1
  BY <1>1, <1>3, AppendProperties
<1>5. \A i \in 1..(n + 1) : got[i] = IF i <= n THEN s.got[i] ELSE answer
  BY <1>1, <1>3, AppendProperties
<1>6. DOMAIN got = 1..(n + 1) /\ DOMAIN s.got = 1..n
  BY <1>1, <1>4, LenProperties
<1> HIDE DEF answer, got, key, n
<1>7. /\ after \in QueryStates
      /\ after.page = s.page /\ after.asked = s.asked /\ after.left = s.left
      /\ after.answers = s.answers /\ after.began = s.began
      /\ after.got = got /\ after.queries = Tail(s.queries)
  BY <1>2, <1>4 DEF QueryStates
<1>8. Building(World, after)
  BY <1>7 DEF Building
<1>9. /\ Told(s.got, key) /\ Ordered(s.got) /\ Settled(World, s.got)
      /\ n + Len(s.queries) = Len(Queries(key))
      /\ \A i \in DOMAIN s.queries : s.queries[i] = Queries(key)[n + i]
  BY DEF Reading, n, key
<1>10. Told(got, key)
  <2>1. Head(s.queries) = Queries(key)[n + 1]
    <3>1. 1 \in DOMAIN s.queries /\ Head(s.queries) = s.queries[1]
      BY <1>1, <1>2, LenProperties
    <3>2. QED
      BY <1>9, <3>1
  <2>2. ASSUME NEW i \in 1..(n + 1)  PROVE got[i].query = Queries(key)[i]
    <3>1. CASE i <= n
      <4>1. i \in DOMAIN s.got /\ got[i] = s.got[i]
        BY <1>2, <1>5, <1>6, <3>1
      <4>2. QED
        BY <1>9, <4>1 DEF Told
    <3>2. CASE ~(i <= n)
      <4>1. i = n + 1 /\ got[i] = answer
        BY <1>2, <1>5, <3>2
      <4>2. QED
        BY <1>3, <2>1, <4>1
    <3>3. QED
      BY <3>1, <3>2
  <2>3. Len(got) <= Len(Queries(key))
    BY <1>2, <1>4, <1>9
  <2>4. QED
    BY <1>4, <1>6, <2>2, <2>3 DEF Told
<1>11. Settled(World, got)
  <2>1. ~answer.query.open => \A t \in answer.trades : World.closed[t] # Never
    BY <1>3 DEF answer, Answer, IsClosed, World
  <2>2. \A i \in 1..n : ~s.got[i].query.open =>
            \A t \in s.got[i].trades : World.closed[t] # Never
    BY <1>6 DEF Reading, Settled
  <2>3. QED
    BY <1>2, <1>5, <1>6, <2>1, <2>2 DEF Settled
<1>12. Ordered(got)
  <2>1. ASSUME NEW i \in 1..(n + 1), NEW j \in 1..(n + 1), i < j, ~got[i].query.open
        PROVE  /\ got[j].query.open => got[i].trades \cap got[j].trades = {}
               /\ got[j].query = AllTrades => got[i].trades \subseteq got[j].trades
    <3>1. i <= n /\ i \in 1..n /\ got[i] = s.got[i] /\ i \in DOMAIN s.got
      BY <1>2, <1>5, <1>6, <2>1
    <3>2. CASE j <= n
      <4>1. j \in DOMAIN s.got /\ got[j] = s.got[j]
        BY <1>2, <1>5, <1>6, <3>2
      <4>2. QED
        BY <1>9, <2>1, <3>1, <4>1 DEF Ordered
    <3>3. CASE ~(j <= n)
      <4>1. got[j] = answer
        BY <1>5, <3>3
      <4>2. \A t \in s.got[i].trades : t \in ViewedTrades /\ IsClosed(t)
        <5>1. s.got[i] \in AnswerSet
          BY <1>1, <3>1
        <5>2. QED
          BY <2>1, <3>1, <5>1 DEF Reading, Settled, World, IsClosed, AnswerSet
      <4>3. answer.query.open => \A t \in answer.trades : ~IsClosed(t)
        BY <1>3 DEF answer, Answer, IsOpen, IsClosed
      <4>4. answer.query = AllTrades =>
                \A t \in ViewedTrades : IsClosed(t) => t \in answer.trades
        BY <1>3 DEF answer, Answer, AllTrades, Query, Asks
      <4>5. QED
        BY <3>1, <4>1, <4>2, <4>3, <4>4
    <3>4. QED
      BY <3>2, <3>3
  <2>2. QED
    BY <1>6, <2>1 DEF Ordered
<1>13. Fresh(World, got, s.began)
  <2>1. World.time = time /\ time \in Nat /\ s.began <= time
    BY <1>1 DEF World, Worlds, ViewsAssumption, Reading
  <2>2. time \in 0..World.time /\ time >= s.began
    BY <1>1, <2>1
  <2>3. \A i \in 1..n : \E m \in 0..World.time : m >= s.began /\ So(World, s.got[i], m)
    BY <1>6 DEF Reading, Fresh
  <2>4. ASSUME NEW i \in 1..(n + 1)
        PROVE  \E m \in 0..World.time : m >= s.began /\ So(World, got[i], m)
    <3>1. CASE i <= n
      BY <1>2, <1>5, <2>3, <3>1
    <3>2. CASE ~(i <= n)
      BY <1>3, <1>5, <2>2, <3>2
    <3>3. QED
      BY <3>1, <3>2
  <2>5. QED
    BY <1>6, <2>4 DEF Fresh
<1>14. \A i \in DOMAIN Tail(s.queries) :
          Tail(s.queries)[i] = Queries(key)[Len(got) + i]
  <2> TAKE i \in DOMAIN Tail(s.queries)
  <2>1. i \in 1..(Len(s.queries) - 1)
    BY <1>2, LenProperties
  <2>2. i + 1 \in DOMAIN s.queries /\ Tail(s.queries)[i] = s.queries[i + 1]
    BY <1>1, <1>2, <2>1, LenProperties
  <2>3. s.queries[i + 1] = Queries(key)[n + (i + 1)]
    BY <2>2 DEF Reading, n, key
  <2>4. n + (i + 1) = Len(got) + i
    BY <1>2, <1>4, <2>1
  <2>5. QED
    BY <2>2, <2>3, <2>4
<1>15. Len(got) + Len(Tail(s.queries)) = Len(Queries(key))
  <2>1. Len(got) + Len(Tail(s.queries)) = n + Len(s.queries)
    <3>1. PICK a \in Nat : a = Len(s.queries)
      BY <1>2
    <3>2. Len(Tail(s.queries)) = a - 1
      BY <1>2, <3>1
    <3>3. (n + 1) + (a - 1) = n + a
      BY <1>2
    <3>4. QED
      BY <1>4, <3>1, <3>2, <3>3
  <2>2. QED
    BY <1>9, <2>1
<1>16. after.left # <<>> /\ after.began \in after.asked..World.time
  BY <1>7 DEF Reading
<1> HIDE DEF after
<1>17. Reading(World, after)
  BY <1>7, <1>10, <1>11, <1>12, <1>13, <1>14, <1>15, <1>16 DEF Reading, key
<1>18. QED
  BY <1>7, <1>8, <1>17 DEF after, got, answer

-----------------------------------------------------------------------------
(* The invariant *)

LEMMA Nothing ==
    /\ <<>> \in Seq(AnswerSet) /\ Ordered(<<>>) /\ Alike(<<>>)
    /\ \A w, from : Fresh(w, <<>>, from) /\ Settled(w, <<>>)
<1>1. <<>> \in Seq(AnswerSet) /\ \A i : i \notin DOMAIN <<>>
  BY EmptySeq
<1>2. QED
  BY <1>1 DEF Ordered, Alike, Fresh, Settled

\* No answers are the answers to no queries.
LEMMA NothingTold ==
    ASSUME ViewsAssumption, NEW key \in Keys
    PROVE  Told(<<>>, key) /\ Len(Queries(key)) \in Nat
<1>1. Len(Queries(key)) \in Nat
  BY QueriesOf, LenProperties
<1>2. <<>> \in Seq(AnswerSet) /\ Len(<<>>) = 0 /\ \A i : i \notin DOMAIN <<>>
  BY EmptySeq
<1>3. QED
  BY <1>1, <1>2 DEF Told

\* The clock, the trades and the pages asked for.
LEMMA InitIInv ==
    ASSUME ViewsAssumption, ViewsInit
    PROVE  IInv
<1>1. World \in Worlds
  <2>1. 0 \in 0..LastTime /\ Never \in Nat /\ Never > 0 /\ 0 \in 0..Never /\ Never \in 0..Never
    BY DEF ViewsAssumption, Never
  <2>2. opened \in [ViewedTrades -> 0..Never]
    BY <2>1 DEF ViewsInit
  <2>3. \A t \in ViewedTrades : opened[t] \in {0, Never} /\ closed[t] = opened[t]
    BY DEF ViewsInit
  <2>4. closed \in [ViewedTrades -> 0..Never] /\ time = 0
    BY <2>2 DEF ViewsInit
  <2>5. \A t \in ViewedTrades :
           /\ closed[t] >= opened[t]
           /\ opened[t] # Never => opened[t] <= time
           /\ closed[t] # Never => closed[t] <= time
    BY <2>1, <2>3, <2>4
  <2>6. QED
    BY <2>1, <2>2, <2>4, <2>5 DEF World, Worlds
<1>2. process \in {"bot", "web"} /\ asked \in 0..MaxAsked[process]
  BY DEF ViewsInit, ViewsAssumption
<1>3. DOMAIN reader = Readers /\ \A r \in Readers : ReaderSound(World, reader[r])
  BY DEF ViewsInit, ReaderSound
<1>4. DOMAIN kept = {} /\ DOMAIN pages = {}
  BY DEF ViewsInit
<1>5. ShownSound(World, shown)
  <2>1. /\ shown.page = "analytics" /\ shown.took = 0 /\ shown.asked = 0
        /\ shown.answers = <<>>
    BY DEF ViewsInit
  <2>2. Composed("analytics", <<>>)
    BY Nothing, NothingTold DEF Composed, Sections, OneSection, Keys
  <2>3. World.time \in Nat
    BY DEF World, ViewsInit
  <2>4. QED
    BY <2>1, <2>2, <2>3, Nothing DEF ShownSound, ViewPages, OneSection
<1>6. QED
  BY <1>1, <1>2, <1>3, <1>4, <1>5 DEF IInv

\* What a step leaves alone stays sound when the world moves on.
LEMMA Carried ==
    ASSUME ViewsAssumption, IInv, World' \in Worlds, Later(World, World')
    PROVE  /\ \A r \in Readers : reader'[r] = reader[r] => ReaderSound(World', reader'[r])
           /\ \A k \in DOMAIN kept : kept'[k] = kept[k] => KeptSound(World', k, kept'[k])
           /\ \A p \in DOMAIN pages : pages'[p] = pages[p] => PageSound(World', p, pages'[p])
           /\ shown' = shown => ShownSound(World', shown')
<1>1. World \in Worlds
  BY DEF IInv
<1>2. QED
  BY <1>1, LaterSound DEF IInv

LEMMA SameWorld ==
    ASSUME ViewsAssumption, IInv, UNCHANGED Market
    PROVE  /\ World' = World /\ World' \in Worlds /\ Later(World, World')
           /\ process' = process /\ process' \in {"bot", "web"}
<1>1. World' = World /\ process' = process
  BY DEF Market, World
<1>2. World \in Worlds /\ process \in {"bot", "web"}
  BY DEF IInv
<1>3. \A t \in ViewedTrades : World.time <= Never
  BY <1>2 DEF Worlds, Never, ViewsAssumption
<1>4. World.time <= World.time
  BY <1>2 DEF Worlds, ViewsAssumption
<1>5. QED
  BY <1>1, <1>2, <1>3, <1>4 DEF Later

\* Time passes, and trades open and close.
LEMMA MarketMoves ==
    ASSUME ViewsAssumption, IInv, Elapse \/ \E t \in ViewedTrades : OpenTrade(t) \/ CloseTrade(t)
    PROVE  IInv'
<1>1. /\ opened \in [ViewedTrades -> 0..Never] /\ closed \in [ViewedTrades -> 0..Never]
      /\ time \in 0..LastTime /\ LastTime \in Nat /\ Never = LastTime + 1
      /\ \A t \in ViewedTrades :
            /\ closed[t] >= opened[t]
            /\ opened[t] # Never => opened[t] <= time
            /\ closed[t] # Never => closed[t] <= time
  BY DEF IInv, World, Worlds, Never, ViewsAssumption
<1>2. UNCHANGED <<process, kept, pages, reader, shown, asked>>
  BY DEF Elapse, OpenTrade, CloseTrade
<1>3. World' \in Worlds /\ Later(World, World')
  <2>1. CASE Elapse
    <3>1. time' \in 0..LastTime /\ time <= time' /\ opened' = opened /\ closed' = closed
      BY <1>1, <2>1 DEF Elapse
    <3>2. \A t \in ViewedTrades :
             /\ opened[t] # Never => opened[t] <= time'
             /\ closed[t] # Never => closed[t] <= time'
             /\ opened[t] \in Nat /\ closed[t] \in Nat
             /\ Never >= time
      BY <1>1, <3>1
    <3>3. QED
      BY <1>1, <3>1, <3>2 DEF World, Worlds, Later
  <2>2. ASSUME NEW t \in ViewedTrades, OpenTrade(t)
        PROVE  World' \in Worlds /\ Later(World, World')
    <3>1. /\ opened[t] = Never /\ opened' = [opened EXCEPT ![t] = time]
          /\ closed' = closed /\ time' = time
      BY <2>2 DEF OpenTrade
    <3>2. time \in 0..Never /\ time <= Never
      BY <1>1
    <3>3. opened' \in [ViewedTrades -> 0..Never] /\ opened'[t] = time
          /\ \A u \in ViewedTrades : u # t => opened'[u] = opened[u]
      BY <1>1, <3>1, <3>2
    <3>4. closed[t] = Never
      BY <1>1, <3>1
    <3>5. \A u \in ViewedTrades :
             /\ closed[u] >= opened'[u]
             /\ opened'[u] # Never => opened'[u] <= time
      BY <1>1, <3>2, <3>3, <3>4
    <3>6. World' \in Worlds
      BY <1>1, <3>1, <3>3, <3>5 DEF World, Worlds
    <3>7. QED
      BY <1>1, <3>1, <3>2, <3>3, <3>6 DEF World, Later
  <2>3. ASSUME NEW t \in ViewedTrades, CloseTrade(t)
        PROVE  World' \in Worlds /\ Later(World, World')
    <3>1. /\ opened[t] # Never /\ closed[t] = Never /\ closed' = [closed EXCEPT ![t] = time]
          /\ opened' = opened /\ time' = time
      BY <2>3 DEF CloseTrade, IsOpen
    <3>2. time \in 0..Never /\ time <= Never
      BY <1>1
    <3>3. closed' \in [ViewedTrades -> 0..Never] /\ closed'[t] = time
          /\ \A u \in ViewedTrades : u # t => closed'[u] = closed[u]
      BY <1>1, <3>1, <3>2
    <3>4. \A u \in ViewedTrades :
             /\ closed'[u] >= opened[u]
             /\ closed'[u] # Never => closed'[u] <= time
      BY <1>1, <3>1, <3>2, <3>3
    <3>5. World' \in Worlds
      BY <1>1, <3>1, <3>3, <3>4 DEF World, Worlds
    <3>6. QED
      BY <1>1, <3>1, <3>2, <3>3, <3>5 DEF World, Later
  <2>4. QED
    BY <2>1, <2>2, <2>3
<1>4. QED
  BY <1>2, <1>3, Carried DEF IInv

LEMMA Invalidations ==
    ASSUME ViewsAssumption, IInv, Invalidate \/ InvalidatePaper
    PROVE  IInv'
<1>1. UNCHANGED <<Market, reader, shown, asked>>
  BY DEF Invalidate, InvalidatePaper
<1>2. /\ DOMAIN kept' \subseteq DOMAIN kept /\ \A k \in DOMAIN kept' : kept'[k] = kept[k]
      /\ DOMAIN pages' \subseteq DOMAIN pages /\ \A p \in DOMAIN pages' : pages'[p] = pages[p]
  BY DEF Invalidate, InvalidatePaper
<1>3. asked' \in 0..MaxAsked[process']
  BY <1>1, SameWorld DEF IInv
<1>4. QED
  BY <1>1, <1>2, <1>3, SameWorld, Carried DEF IInv

\* One reader takes a step: the rest of the invariant is that of before.
LEMMA ReaderMoves ==
    ASSUME ViewsAssumption, IInv, UNCHANGED Market, NEW r \in Readers, NEW after,
           reader' = [reader EXCEPT ![r] = after], ReaderSound(World, after),
           asked' \in 0..MaxAsked[process],
           \A k \in DOMAIN kept' : KeptSound(World, k, kept'[k]),
           \A p \in DOMAIN pages' : PageSound(World, p, pages'[p]),
           ShownSound(World, shown')
    PROVE  IInv'
<1>1. /\ World' = World /\ World' \in Worlds
      /\ process' = process /\ process' \in {"bot", "web"}
  BY SameWorld
<1>2. DOMAIN reader' = Readers /\ \A q \in Readers :
          reader'[q] = IF q = r THEN after ELSE reader[q]
  BY DEF IInv
<1>3. \A q \in Readers : ReaderSound(World', reader'[q])
  BY <1>1, <1>2 DEF IInv
<1>4. QED
  BY <1>1, <1>2, <1>3 DEF IInv

\* The states a reader may be in.
LEMMA ReaderStates ==
    ASSUME IInv, NEW r \in Readers
    PROVE  /\ reader[r].at = "section" =>
                 reader[r] \in SectionStates /\ Building(World, reader[r])
           /\ reader[r].at = "query" =>
                 /\ reader[r] \in QueryStates /\ Building(World, reader[r])
                 /\ Reading(World, reader[r])
<1>1. ReaderSound(World, reader[r])
  BY DEF IInv
<1>2. Idle.at = "idle"
  BY DEF Idle
<1>3. \A s \in SectionStates : s.at = "section"
  BY DEF SectionStates
<1>4. \A s \in QueryStates : s.at = "query"
  BY DEF QueryStates
<1>5. QED
  BY <1>1, <1>2, <1>3, <1>4 DEF ReaderSound

LEMMA AskPreserves ==
    ASSUME ViewsAssumption, IInv, NEW r \in Readers, NEW page \in Served, Ask(r, page)
    PROVE  IInv'
<1> DEFINE after == [at |-> "section", page |-> page, asked |-> time,
                     left |-> Sections(page), answers |-> <<>>]
<1>1. /\ UNCHANGED <<Market, kept, pages, shown>> /\ reader' = [reader EXCEPT ![r] = after]
      /\ asked < MaxAsked[process] /\ asked' = asked + 1
  BY DEF Ask
<1>2. page \in ViewPages
  BY DEF Served, ViewPages, OneSection, TwoSections
<1>3. /\ Sections(page) \in Seq(Keys)
      /\ page \in TwoSections => Sections(page) \in Seq({"compare", "diagnostics"})
  <2>1. page \in {"paper", "analytics", "strategy_lab", "compare"}
    BY <1>2 DEF ViewPages, OneSection, TwoSections
  <2>2. "profiles" \in Keys /\ "summary" \in Keys /\ "compare" \in Keys /\ "diagnostics" \in Keys
    BY DEF Keys
  <2>3. <<"profiles">> \in Seq(Keys) /\ <<"summary">> \in Seq(Keys)
    BY <2>2
  <2>4. /\ <<"diagnostics", "compare">> \in Seq({"compare", "diagnostics"})
        /\ <<"compare", "diagnostics">> \in Seq({"compare", "diagnostics"})
    OBVIOUS
  <2>5. <<"diagnostics", "compare">> \in Seq(Keys) /\ <<"compare", "diagnostics">> \in Seq(Keys)
    BY <2>2
  <2>6. CASE page \in OneSection
    BY <2>3, <2>6 DEF Sections, OneSection, TwoSections
  <2>7. CASE page \in TwoSections
    BY <2>4, <2>5, <2>7 DEF Sections, TwoSections
  <2>8. QED
    BY <1>2, <2>6, <2>7 DEF ViewPages
<1>4. time \in Nat /\ World.time = time
  BY DEF IInv, World, Worlds, ViewsAssumption
<1>5. /\ after.page = page /\ after.asked = time /\ after.left = Sections(page)
      /\ after.answers = <<>> /\ after \in SectionStates
  BY <1>2, <1>3, <1>4, Nothing DEF SectionStates
<1> HIDE DEF after
<1>6. Building(World, after)
  BY <1>2, <1>3, <1>4, <1>5, Nothing DEF Building
<1>7. asked' \in 0..MaxAsked[process]
  BY <1>1 DEF IInv, ViewsAssumption
<1>8. QED
  BY <1>1, <1>5, <1>6, <1>7, ReaderMoves DEF IInv, ReaderSound

LEMMA FromMenuPreserves ==
    ASSUME ViewsAssumption, IInv, NEW r \in Readers, NEW page \in Served, FromMenu(r, page)
    PROVE  IInv'
<1> DEFINE item == pages[page]
<1>1. /\ UNCHANGED <<Market, kept, pages, reader>>
      /\ page \in DOMAIN pages /\ item.until > time
      /\ asked < MaxAsked[process] /\ asked' = asked + 1
      /\ shown' = [page |-> page, answers |-> item.answers, asked |-> time,
                   took |-> item.took]
  BY DEF FromMenu, Show
<1>2. /\ World' = World /\ World' \in Worlds /\ Later(World, World')
      /\ process' = process /\ process' \in {"bot", "web"}
  BY <1>1, SameWorld
<1>3. PageSound(World, page, item)
  BY <1>1 DEF IInv
<1>4. time \in Nat /\ World.time = time /\ LabTtl \in Nat /\ PageTtl \in Nat
  BY DEF IInv, World, Worlds, ViewsAssumption
<1>5. page \in ViewPages /\ KeptFor(page) = (PageTtl - 1) + LabAge(page)
      /\ LabAge(page) \in Int
  BY <1>3, <1>4 DEF PageSound, KeptFor, LabAge, ViewPages, OneSection, TwoSections
<1>6. Fresh(World, item.answers, time - item.took - KeptFor(page))
  <2>1. item.until \in Int /\ item.took \in Nat
        /\ Fresh(World, item.answers, item.until - PageTtl - item.took - LabAge(page))
    BY <1>3 DEF PageSound
  <2>2. /\ item.until - PageTtl - item.took - LabAge(page) \in Int
        /\ time - item.took - KeptFor(page) \in Int
        /\ time - item.took - KeptFor(page)
              <= item.until - PageTtl - item.took - LabAge(page)
    BY <1>1, <1>4, <1>5, <2>1
  <2>3. QED
    BY <2>1, <2>2, FreshSince DEF IInv
<1>7. /\ shown'.page = page /\ shown'.answers = item.answers /\ shown'.asked = time
      /\ shown'.took = item.took
  BY <1>1
<1>8. ShownSound(World, shown')
  BY <1>3, <1>4, <1>5, <1>6, <1>7 DEF ShownSound, PageSound
<1>9. asked' \in 0..MaxAsked[process]
  BY <1>1 DEF IInv, ViewsAssumption
<1>10. QED
  BY <1>1, <1>2, <1>8, <1>9 DEF IInv

LEMMA HitPreserves ==
    ASSUME ViewsAssumption, IInv, NEW r \in Readers, Hit(r)
    PROVE  IInv'
<1> DEFINE s == reader[r]  key == Head(s.left)  got == kept[key].answers
           after == [s EXCEPT !.left = Tail(@), !.answers = @ \o got]
<1>1. /\ UNCHANGED <<Market, kept, pages, shown, asked>>
      /\ s.at = "section" /\ s.left # <<>> /\ key \in DOMAIN kept /\ kept[key].until > time
      /\ IsKept(key)
      /\ reader' = [reader EXCEPT ![r] = after]
  BY DEF Hit
<1>2. s \in SectionStates /\ Building(World, s)
  BY <1>1, ReaderStates
<1>3. /\ s.page \in ViewPages /\ s.asked \in Nat /\ s.left \in Seq(Keys)
      /\ s.answers \in Seq(AnswerSet) /\ s.at = "section"
  BY <1>2 DEF SectionStates
<1>4. KeptSound(World, key, kept[key])
  BY <1>1 DEF IInv
<1>5. got \in Seq(AnswerSet) /\ Told(got, key) /\ Ordered(got)
      /\ Fresh(World, got, kept[key].until - LabTtl) /\ kept[key].until \in Int
  BY <1>4 DEF KeptSound, Told
<1>6. time \in Nat /\ World.time = time /\ LabTtl \in Nat /\ s.asked <= time
  BY <1>2, <1>3 DEF IInv, World, Worlds, ViewsAssumption, Building
<1>7. s.page # "paper"
  <2>1. ASSUME s.page = "paper"  PROVE FALSE
    <3>1. s.left = <<"profiles">>
      BY <1>1, <1>2, <2>1 DEF Building, OneSection, Sections
    <3>2. key = "profiles"
      BY <3>1
    <3>3. QED
      BY <1>1, <3>2 DEF IsKept
  <2>2. QED
    BY <2>1
<1>8. Fresh(World, got, s.asked - LabAge(s.page))
  <2>1. LabAge(s.page) = LabTtl - 1
    BY <1>7 DEF LabAge
  <2>2. /\ s.asked - LabAge(s.page) \in Int /\ kept[key].until - LabTtl \in Int
        /\ s.asked - LabAge(s.page) <= kept[key].until - LabTtl
    BY <1>1, <1>3, <1>5, <1>6, <2>1
  <2>3. QED
    BY <1>5, <2>2, FreshSince DEF IInv
<1>9. Tail(s.left) \in Seq(Keys) /\ s.answers \o got \in Seq(AnswerSet)
  BY <1>1, <1>3, <1>5, HeadTailProperties, ConcatProperties
<1> HIDE DEF key, got
<1>10. /\ after \in SectionStates /\ after.page = s.page /\ after.asked = s.asked
       /\ after.left = Tail(s.left) /\ after.answers = s.answers \o got
  BY <1>2, <1>9 DEF SectionStates
<1> HIDE DEF after, s
<1>11. Building(World, after)
  BY <1>1, <1>2, <1>3, <1>5, <1>8, <1>10, SectionAdded DEF key
<1>12. QED
  BY <1>1, <1>10, <1>11, ReaderMoves DEF IInv, ReaderSound

LEMMA MissPreserves ==
    ASSUME ViewsAssumption, IInv, NEW r \in Readers, Miss(r)
    PROVE  IInv'
<1> DEFINE s == reader[r]  key == Head(s.left)
           after == [at |-> "query", page |-> s.page, asked |-> s.asked, left |-> s.left,
                     answers |-> s.answers, began |-> time, queries |-> Queries(key),
                     got |-> <<>>]
<1>1. /\ UNCHANGED <<Market, kept, pages, shown, asked>>
      /\ s.at = "section" /\ s.left # <<>>
      /\ reader' = [reader EXCEPT ![r] = after]
  BY DEF Miss
<1>2. s \in SectionStates /\ Building(World, s)
  BY <1>1, ReaderStates
<1>3. /\ s.page \in ViewPages /\ s.asked \in Nat /\ s.left \in Seq(Keys)
      /\ s.answers \in Seq(AnswerSet)
  BY <1>2 DEF SectionStates
<1>4. time \in Nat /\ World.time = time /\ s.asked <= time
  BY <1>2, <1>3 DEF IInv, World, Worlds, ViewsAssumption, Building
<1>5. key \in Keys /\ Queries(key) \in Seq(QuerySet)
  BY <1>1, <1>3, QueriesOf, HeadTailProperties
<1> HIDE DEF key
<1>6. /\ after \in QueryStates /\ after.page = s.page /\ after.asked = s.asked
      /\ after.left = s.left /\ after.answers = s.answers /\ after.began = time
      /\ after.queries = Queries(key) /\ after.got = <<>>
  BY <1>3, <1>4, <1>5, Nothing DEF QueryStates
<1> HIDE DEF after
<1>7. Building(World, after)
  BY <1>2, <1>6 DEF Building
<1>8. Reading(World, after)
  <2>1. after.began \in after.asked..World.time
    BY <1>3, <1>4, <1>6
  <2>2. /\ Told(<<>>, key) /\ Len(Queries(key)) \in Nat /\ Len(<<>>) = 0
    BY <1>5, NothingTold
  <2>3. Len(after.got) + Len(after.queries) = Len(Queries(key))
    BY <1>6, <2>2
  <2>4. \A i \in DOMAIN after.queries :
           after.queries[i] = Queries(key)[Len(after.got) + i]
    BY <1>5, <1>6, <2>2, LenProperties
  <2>5. QED
    BY <1>1, <1>6, <2>1, <2>2, <2>3, <2>4, Nothing DEF Reading, key
<1>9. QED
  BY <1>1, <1>6, <1>7, <1>8, ReaderMoves DEF IInv, ReaderSound

LEMMA ReadPreserves ==
    ASSUME ViewsAssumption, IInv, NEW r \in Readers, Read(r)
    PROVE  IInv'
<1> DEFINE s == reader[r]
           after == [s EXCEPT !.queries = Tail(@), !.got = Append(@, Answer(Head(s.queries)))]
<1>1. /\ UNCHANGED <<Market, kept, pages, shown, asked>>
      /\ s.at = "query" /\ s.queries # <<>>
      /\ reader' = [reader EXCEPT ![r] = after]
  BY DEF Read
<1>2. s \in QueryStates /\ Building(World, s) /\ Reading(World, s)
  BY <1>1, ReaderStates
<1>3. after \in QueryStates /\ Building(World, after) /\ Reading(World, after)
  <2> HIDE DEF s
  <2>1. World \in Worlds
    BY DEF IInv
  <2>2. QED
    BY <1>1, <1>2, <2>1, AnswerAdded
<1> HIDE DEF after
<1>4. QED
  BY <1>1, <1>3, ReaderMoves DEF IInv, ReaderSound

LEMMA FillPreserves ==
    ASSUME ViewsAssumption, IInv, NEW r \in Readers, Fill(r)
    PROVE  IInv'
<1> DEFINE s == reader[r]  key == Head(s.left)
           after == [at |-> "section", page |-> s.page, asked |-> s.asked,
                     left |-> Tail(s.left), answers |-> s.answers \o s.got]
<1>1. /\ UNCHANGED <<Market, pages, shown, asked>>
      /\ s.at = "query" /\ s.queries = <<>>
      /\ kept' = IF IsKept(key) THEN Keep(r, key) ELSE kept
      /\ reader' = [reader EXCEPT ![r] = after]
  BY DEF Fill
<1>2. s \in QueryStates /\ Building(World, s) /\ Reading(World, s)
  BY <1>1, ReaderStates
<1>3. /\ s.page \in ViewPages /\ s.asked \in Nat /\ s.left \in Seq(Keys)
      /\ s.answers \in Seq(AnswerSet) /\ s.got \in Seq(AnswerSet) /\ s.began \in Nat
  BY <1>2 DEF QueryStates
<1>4. /\ s.left # <<>> /\ s.began >= s.asked /\ Told(s.got, key) /\ Ordered(s.got)
      /\ Fresh(World, s.got, s.began)
  BY <1>2, <1>3 DEF Reading
<1>5. LabTtl \in Nat /\ LabTtl >= 1
  BY DEF ViewsAssumption
<1>6. Fresh(World, s.got, s.asked - LabAge(s.page))
  <2>1. s.asked - LabAge(s.page) \in Int /\ s.asked - LabAge(s.page) <= s.began
    BY <1>3, <1>4, <1>5 DEF LabAge
  <2>2. QED
    BY <1>3, <1>4, <2>1, FreshSince DEF IInv
<1>7. key \in Keys /\ Tail(s.left) \in Seq(Keys) /\ s.answers \o s.got \in Seq(AnswerSet)
  BY <1>3, <1>4, HeadTailProperties, ConcatProperties
<1> HIDE DEF key
<1>8. /\ after \in SectionStates /\ after.page = s.page /\ after.asked = s.asked
      /\ after.left = Tail(s.left) /\ after.answers = s.answers \o s.got
  BY <1>3, <1>7 DEF SectionStates
<1> HIDE DEF after
<1>9. Building(World, after)
  <2> HIDE DEF s
  <2>1. QED
    BY <1>2, <1>3, <1>4, <1>6, <1>8, SectionAdded DEF key
<1>10. \A k \in DOMAIN kept' : KeptSound(World, k, kept'[k])
  <2>1. CASE ~IsKept(key)
    BY <1>1, <2>1 DEF IInv
  <2>2. CASE IsKept(key)
    <3>1. kept' = [k \in DOMAIN kept \cup {key} |->
                      IF k = key THEN [until |-> s.began + LabTtl, answers |-> s.got] ELSE kept[k]]
      BY <1>1, <2>2 DEF Keep
    <3>2. kept'[key].until = s.began + LabTtl /\ kept'[key].answers = s.got
      BY <3>1
    <3>3. (s.began + LabTtl) - LabTtl = s.began /\ s.began + LabTtl \in Int
      BY <1>3, <1>5
    <3>4. KeptSound(World, key, kept'[key])
      BY <1>4, <1>7, <2>2, <3>2, <3>3 DEF KeptSound, IsKept
    <3>5. \A k \in DOMAIN kept' : k # key => k \in DOMAIN kept /\ kept'[k] = kept[k]
      BY <3>1
    <3>6. QED
      BY <3>4, <3>5 DEF IInv
  <2>3. QED
    BY <2>1, <2>2
<1>11. QED
  BY <1>1, <1>8, <1>9, <1>10, ReaderMoves DEF IInv, ReaderSound

LEMMA FinishPreserves ==
    ASSUME ViewsAssumption, IInv, NEW r \in Readers, Finish(r)
    PROVE  IInv'
<1> DEFINE s == reader[r]  took == time - s.asked
<1>1. /\ UNCHANGED <<Market, kept, asked>>
      /\ s.at = "section" /\ s.left = <<>>
      /\ pages' = IF InMenu(s.page)
                  THEN [p \in DOMAIN pages \cup {s.page} |->
                          IF p = s.page THEN [until |-> time + PageTtl, took |-> took,
                                              answers |-> s.answers]
                          ELSE pages[p]]
                  ELSE pages
      /\ shown' = [page |-> s.page, answers |-> s.answers, asked |-> s.asked, took |-> took]
      /\ reader' = [reader EXCEPT ![r] = Idle]
  BY DEF Finish, Show
<1>2. s \in SectionStates /\ Building(World, s)
  BY <1>1, ReaderStates
<1>3. s.page \in ViewPages /\ s.asked \in Nat /\ s.answers \in Seq(AnswerSet)
  BY <1>2 DEF SectionStates
<1>4. /\ time \in Nat /\ World.time = time /\ s.asked <= time
      /\ PageTtl \in Nat /\ PageTtl >= 1 /\ LabTtl \in Nat /\ LabTtl >= 1
  BY <1>2, <1>3 DEF IInv, World, Worlds, ViewsAssumption, Building
<1>5. took \in Nat /\ LabAge(s.page) \in Nat /\ KeptFor(s.page) \in Int
      /\ KeptFor(s.page) >= LabAge(s.page)
  <2>1. took \in Nat /\ LabAge(s.page) \in Nat
    BY <1>3, <1>4 DEF LabAge
  <2>2. KeptFor(s.page) \in Int /\ KeptFor(s.page) >= LabAge(s.page)
    BY <1>3, <1>4 DEF KeptFor, LabAge, ViewPages, OneSection, TwoSections
  <2>3. QED
    BY <2>1, <2>2
<1>6. Composed(s.page, s.answers)
  <2>1. CASE s.page \in OneSection
    <3>1. Sections(s.page) # <<>>
      BY <2>1 DEF OneSection, Sections
    <3>2. QED
      BY <1>1, <1>2, <2>1, <3>1 DEF Building
  <2>2. CASE s.page \in TwoSections
    BY <1>2, <2>2 DEF Building, Composed, OneSection, TwoSections
  <2>3. QED
    BY <1>3, <2>1, <2>2 DEF ViewPages
<1>7. Fresh(World, s.answers, s.asked - LabAge(s.page))
  BY <1>2 DEF Building
<1> HIDE DEF took
<1>8. ShownSound(World, shown')
  <2>1. /\ shown'.page = s.page /\ shown'.answers = s.answers /\ shown'.asked = s.asked
        /\ shown'.took = took
    BY <1>1
  <2>2. /\ s.asked - took - KeptFor(s.page) \in Int /\ s.asked - LabAge(s.page) \in Int
        /\ s.asked - took - KeptFor(s.page) <= s.asked - LabAge(s.page)
    BY <1>3, <1>5
  <2>3. Fresh(World, s.answers, s.asked - took - KeptFor(s.page))
    BY <1>7, <2>2, FreshSince DEF IInv
  <2>4. QED
    BY <1>3, <1>4, <1>5, <1>6, <2>1, <2>3 DEF ShownSound
<1>9. \A p \in DOMAIN pages' : PageSound(World, p, pages'[p])
  <2>1. CASE ~InMenu(s.page)
    BY <1>1, <2>1 DEF IInv
  <2>2. CASE InMenu(s.page)
    <3>1. /\ pages'[s.page].until = time + PageTtl /\ pages'[s.page].took = took
          /\ pages'[s.page].answers = s.answers
          /\ \A p \in DOMAIN pages' : p # s.page => p \in DOMAIN pages /\ pages'[p] = pages[p]
      BY <1>1, <2>2
    <3>2. (time + PageTtl) - PageTtl - took - LabAge(s.page) = s.asked - LabAge(s.page)
          /\ time + PageTtl \in Int
      BY <1>3, <1>4, <1>5 DEF took
    <3>3. PageSound(World, s.page, pages'[s.page])
      BY <1>5, <1>6, <1>7, <2>2, <3>1, <3>2 DEF PageSound, InMenu
    <3>4. QED
      BY <3>1, <3>3 DEF IInv
  <2>3. QED
    BY <2>1, <2>2
<1>10. ReaderSound(World, Idle)
  BY DEF ReaderSound
<1>11. QED
  BY <1>1, <1>8, <1>9, <1>10, ReaderMoves DEF IInv

LEMMA NextIInv ==
    ASSUME ViewsAssumption, IInv, [ViewsNext]_viewVars
    PROVE  IInv'
<1>1. CASE UNCHANGED viewVars
  BY <1>1 DEF viewVars, IInv, World
<1>2. CASE Elapse \/ \E t \in ViewedTrades : OpenTrade(t) \/ CloseTrade(t)
  BY <1>2, MarketMoves
<1>3. CASE Invalidate \/ InvalidatePaper
  BY <1>3, Invalidations
<1>4. ASSUME NEW r \in Readers, NEW page \in Served, Ask(r, page) \/ FromMenu(r, page)
      PROVE  IInv'
  BY <1>4, AskPreserves, FromMenuPreserves
<1>5. ASSUME NEW r \in Readers, Hit(r) \/ Miss(r) \/ Read(r) \/ Fill(r) \/ Finish(r)
      PROVE  IInv'
  BY <1>5, HitPreserves, MissPreserves, ReadPreserves, FillPreserves, FinishPreserves
<1>6. QED
  BY <1>1, <1>2, <1>3, <1>4, <1>5 DEF ViewsNext

\* The invariant holds of every reachable state.
LEMMA Invariance ==
    ASSUME ViewsAssumption
    PROVE  ViewsSpec => []IInv
<1>1. ViewsInit => IInv
  BY InitIInv
<1>2. IInv /\ [ViewsNext]_viewVars => IInv'
  BY NextIInv
<1>3. QED
  BY <1>1, <1>2, PTL DEF ViewsSpec

(***************************************************************************)
(* Whatever opens, closes, is kept, overtaken or invalidated while a page  *)
(* is put together: its numbers were true no longer ago than the caches    *)
(* may keep them, no trade is counted as open and as closed, and a total   *)
(* has the trades that are listed beside it (paper/statistics.py, the      *)
(* AsyncTTLCaches of the services and the message cache of the menu).      *)
(***************************************************************************)
THEOREM PagesAreHonest ==
    ASSUME ViewsAssumption
    PROVE  ViewsSpec => []ShownIsHonest
<1>1. IInv => ShownIsHonest
  BY SoundIsHonest DEF IInv
<1>2. QED
  BY <1>1, Invariance, PTL

\* The clock, the trades, the keys of the caches and the readers stay within their types.
THEOREM ViewsTypeCorrect ==
    ASSUME ViewsAssumption
    PROVE  ViewsSpec => []ViewsTypeOK
<1>1. IInv => ViewsTypeOK
  <2> SUFFICES ASSUME IInv PROVE ViewsTypeOK
    OBVIOUS
  <2>1. process \in {"bot", "web"} /\ time \in 0..LastTime /\ asked \in 0..MaxAsked[process]
    BY DEF IInv, World, Worlds
  <2>2. \A t \in ViewedTrades : opened[t] \in 0..Never /\ closed[t] \in opened[t]..Never
    BY DEF IInv, World, Worlds, Never, ViewsAssumption
  <2>3. DOMAIN kept \subseteq {"summary", "compare", "diagnostics"}
    BY DEF IInv, KeptSound, Keys
  <2>4. \A r \in Readers : reader[r].at \in {"idle", "section", "query"}
    BY DEF IInv, ReaderSound, Idle, SectionStates, QueryStates
  <2>5. QED
    BY <2>1, <2>2, <2>3, <2>4 DEF ViewsTypeOK
<1>2. QED
  BY <1>1, Invariance, PTL
=================================================================================

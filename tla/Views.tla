-------------------------------- MODULE Views --------------------------------
(***************************************************************************)
(* What the users read: pages computed from the paper trades of the        *)
(* profiles by several queries, each of which sees the latest commit, kept *)
(* by the services for a while (AsyncTTLCache), and kept again as a        *)
(* finished message by the Telegram menu.  Trades open and close and       *)
(* settings are saved between any two queries of a page.  The bot and the  *)
(* dashboard each have services of their own; the menu of the bot runs its *)
(* callbacks side by side, the dashboard its requests, so that a slow      *)
(* reader may be overtaken by a fast one and then store the older answer.  *)
(*                                                                         *)
(* An answer is the set of trades a query has returned; how the numbers on *)
(* a page follow from it are the operators TradeStats and below.           *)
(***************************************************************************)
EXTENDS Integers, Sequences, FiniteSets, FiniteSetsExt, SequencesExt

CONSTANTS
    Readers,        \* callbacks of the menu, at most four at once (_callback_semaphore), or
                    \* requests to the dashboard
    ViewedTrades,   \* paper trades, by their id
    Profiles,       \* sequence of the profiles' keys
    ProfileOf,      \* the profile of a trade
    Earlier,        \* trades closed before the clock starts
    Profit,         \* pnl_usd of a trade
    LabTtl,         \* how long a service keeps an answer
    PageTtl,        \* how long the menu keeps a message
    MaxAsked,       \* bound: pages asked for in the bot and in the dashboard
    LastTime      \* bound: the clock

\* A key is that of one profile, no profile is called "all", and an answer is kept for a while.
ViewsAssumption ==
    /\ IsFiniteSet(ViewedTrades) /\ ViewedTrades \subseteq Int /\ Earlier \subseteq ViewedTrades
    /\ Profiles \in Seq(STRING)
    /\ \A i, j \in DOMAIN Profiles : Profiles[i] = Profiles[j] => i = j
    /\ \A i \in DOMAIN Profiles : Profiles[i] # "all"
    /\ ProfileOf \in [ViewedTrades -> STRING] /\ Profit \in [ViewedTrades -> Int]
    /\ LabTtl \in Nat \ {0} /\ PageTtl \in Nat \ {0}
    /\ MaxAsked \in [{"bot", "web"} -> Nat] /\ LastTime \in Nat

Never == LastTime + 1

VARIABLES
    process,        \* "bot" or "web": whose caches are looked at
    time,
    opened, closed, \* when a trade was opened and closed
    kept,           \* _items of the AsyncTTLCaches: key -> [until, answers]
    pages,          \* TelegramCommands._view_cache: page -> [until, answers, took]
    reader,         \* what a reader is doing
    shown,          \* the page that was shown last
    asked           \* how many pages have been asked for

viewVars == <<process, time, opened, closed, kept, pages, reader, shown, asked>>

-----------------------------------------------------------------------------
(* the queries *)

\* The open or the closed trades of one profile, or of all of them.
Query(profile, open) == [profile |-> profile, open |-> open]
Asks(query, t) == query.profile \in {ProfileOf[t], "all"}

\* paper_profile_summary: the closed trades of a profile, then the open ones.
ProfileQueries(p) == <<Query(p, FALSE), Query(p, TRUE)>>

\* paper_profiles_summary: the two queries of the first profile, then those of the second, ...
PaperProfilesSummary ==
    [i \in 1..(2 * Len(Profiles)) |-> ProfileQueries(Profiles[(i + 1) \div 2])[2 - (i % 2)]]

\* The factory of a key: summary, compare, diagnostics, and what is not kept.
Queries(key) ==
    CASE key = "profiles" -> PaperProfilesSummary
      [] key = "summary" -> Append(PaperProfilesSummary, Query("all", FALSE))
      [] OTHER -> <<Query("all", FALSE)>>

\* The sections a page is put together from, in the order they are asked for.
Sections(page) ==
    CASE page = "paper" -> <<"profiles">>
      [] page = "strategy_lab" -> <<"diagnostics", "compare">>
      [] page = "compare" -> <<"compare", "diagnostics">>
      [] page = "analytics" -> <<"summary">>

InMenu(page) == page \in {"paper", "strategy_lab"}
Served == IF process = "bot" THEN {"paper", "strategy_lab"} ELSE {"compare", "analytics"}
IsKept(key) == key # "profiles"

IsOpen(t) == opened[t] # Never /\ closed[t] = Never
IsClosed(t) == closed[t] # Never
Answer(query) ==
    [query |-> query,
     trades |-> {t \in ViewedTrades : /\ Asks(query, t)
                                /\ IF query.open THEN IsOpen(t) ELSE IsClosed(t)}]

-----------------------------------------------------------------------------
(* the numbers of a page *)

SumOf(S) == MapThenSumSet(LAMBDA t : Profit[t], S)
Wins(S) == {t \in S : Profit[t] > 0}
Losses(S) == {t \in S : Profit[t] < 0}

\* _trade_stats, _paper_aggregate: a profit factor without losses is the profit itself.
TradeStats(S) ==
    [trades |-> Cardinality(S), net |-> SumOf(S),
     wins |-> Cardinality(Wins(S)), losses |-> Cardinality(Losses(S)),
     winrate |-> IF S = {} THEN 0 ELSE (100 * Cardinality(Wins(S))) \div Cardinality(S),
     factor |-> IF Losses(S) = {} THEN 100 * SumOf(Wins(S))
                ELSE (100 * SumOf(Wins(S))) \div (0 - SumOf(Losses(S)))]

\* _group_trade_pnl by profile: no group without trades.
GroupStats(S) == [p \in {ProfileOf[t] : t \in S} |-> TradeStats({t \in S : ProfileOf[t] = p})]

\* _max_streak: trades in the order they were closed, those of one moment as they are stored;
\* a streak has no other trade between its first and its last, and a trade at zero is no win.
MaxStreak(S, winning) ==
    LET same == {t \in S : (Profit[t] > 0) = winning}
        before(a, b) == closed[a] < closed[b] \/ (closed[a] = closed[b] /\ a < b)
        streaks == {W \in SUBSET same :
                      \A t \in S \ same : \A a, b \in W : ~(before(a, t) /\ before(t, b))}
    IN  Max({Cardinality(W) : W \in streaks})

-----------------------------------------------------------------------------
Idle == [at |-> "idle"]

ViewsInit ==
    /\ process \in {"bot", "web"}
    /\ time = 0 /\ asked = 0
    /\ opened = [t \in ViewedTrades |-> IF t \in Earlier THEN 0 ELSE Never]
    /\ closed = opened
    /\ kept = [k \in {} |-> 0] /\ pages = [p \in {} |-> 0]
    /\ reader = [r \in Readers |-> Idle]
    /\ shown = [page |-> "analytics", answers |-> <<>>, asked |-> 0, took |-> 0]

Market == <<process, time, opened, closed>>

Elapse ==
    /\ time < LastTime /\ time' = time + 1
    /\ UNCHANGED <<process, opened, closed, kept, pages, reader, shown, asked>>

OpenTrade(t) ==
    /\ opened[t] = Never /\ opened' = [opened EXCEPT ![t] = time]
    /\ UNCHANGED <<process, time, closed, kept, pages, reader, shown, asked>>

CloseTrade(t) ==
    /\ IsOpen(t) /\ closed' = [closed EXCEPT ![t] = time]
    /\ UNCHANGED <<process, time, opened, kept, pages, reader, shown, asked>>

\* StrategyLabService.invalidate_cache after an action of the dashboard; the summary is in
\* another cache, that of AnalyticsService.
Invalidate ==
    /\ process = "web" /\ DOMAIN kept \ {"summary"} # {}
    /\ kept' = [k \in DOMAIN kept \cap {"summary"} |-> kept[k]]
    /\ UNCHANGED <<Market, pages, reader, shown, asked>>

\* _invalidate_paper_cache after a setting was saved in the menu.
InvalidatePaper ==
    /\ "paper" \in DOMAIN pages /\ pages' = [p \in DOMAIN pages \ {"paper"} |-> pages[p]]
    /\ UNCHANGED <<Market, kept, reader, shown, asked>>

Show(page, answers, at, took) ==
    shown' = [page |-> page, answers |-> answers, asked |-> at, took |-> took]

\* A page is asked for, and the menu does not have it.
Ask(r, page) ==
    /\ reader[r] = Idle /\ asked < MaxAsked[process] /\ asked' = asked + 1
    /\ ~(InMenu(page) /\ page \in DOMAIN pages /\ pages[page].until > time)
    /\ reader' = [reader EXCEPT ![r] =
            [at |-> "section", page |-> page, asked |-> time,
             left |-> Sections(page), answers |-> <<>>]]
    /\ UNCHANGED <<Market, kept, pages, shown>>

FromMenu(r, page) ==
    /\ reader[r] = Idle /\ asked < MaxAsked[process] /\ asked' = asked + 1
    /\ InMenu(page) /\ page \in DOMAIN pages /\ pages[page].until > time
    /\ Show(page, pages[page].answers, time, pages[page].took)
    /\ UNCHANGED <<Market, kept, pages, reader>>

\* get_or_set finds an answer that is still good.
Hit(r) ==
    /\ reader[r].at = "section" /\ reader[r].left # <<>>
    /\ LET key == Head(reader[r].left)
       IN  /\ IsKept(key) /\ key \in DOMAIN kept /\ kept[key].until > time
           /\ reader' = [reader EXCEPT ![r].left = Tail(@),
                                       ![r].answers = @ \o kept[key].answers]
    /\ UNCHANGED <<Market, kept, pages, shown, asked>>

\* get_or_set has to ask the factory; the time is the one before.
Miss(r) ==
    /\ reader[r].at = "section" /\ reader[r].left # <<>>
    /\ LET key == Head(reader[r].left)
       IN  /\ ~(IsKept(key) /\ key \in DOMAIN kept /\ kept[key].until > time)
           /\ reader' = [reader EXCEPT ![r] = [at |-> "query", page |-> @.page, asked |-> @.asked,
                    left |-> @.left, answers |-> @.answers,
                    began |-> time, queries |-> Queries(key), got |-> <<>>]]
    /\ UNCHANGED <<Market, kept, pages, shown, asked>>

\* One query of the session, between two awaits.
Read(r) ==
    /\ reader[r].at = "query" /\ reader[r].queries # <<>>
    /\ reader' = [reader EXCEPT ![r].queries = Tail(@),
                                ![r].got = Append(@, Answer(Head(reader[r].queries)))]
    /\ UNCHANGED <<Market, kept, pages, shown, asked>>

\* A fault: the answer is kept from the end of the queries on.
KeepLonger(r, key) == [k \in DOMAIN kept \cup {key} |->
    IF k = key THEN [until |-> time + LabTtl, answers |-> reader[r].got] ELSE kept[k]]

\* The answer replaces whatever was kept meanwhile, also when it was invalidated.
Keep(r, key) == [k \in DOMAIN kept \cup {key} |->
    IF k = key THEN [until |-> reader[r].began + LabTtl, answers |-> reader[r].got] ELSE kept[k]]

Fill(r) ==
    /\ reader[r].at = "query" /\ reader[r].queries = <<>>
    /\ LET key == Head(reader[r].left)
       IN  /\ kept' = IF IsKept(key) THEN Keep(r, key) ELSE kept
           /\ reader' = [reader EXCEPT ![r] = [at |-> "section", page |-> @.page, asked |-> @.asked,
                    left |-> Tail(@.left), answers |-> @.answers \o @.got]]
    /\ UNCHANGED <<Market, pages, shown, asked>>

\* All sections are there: the menu keeps the message from now on.
Finish(r) ==
    /\ reader[r].at = "section" /\ reader[r].left = <<>>
    /\ LET page == reader[r].page
           took == time - reader[r].asked
       IN  /\ pages' = IF InMenu(page)
                       THEN [p \in DOMAIN pages \cup {page} |->
                                IF p = page THEN [until |-> time + PageTtl, took |-> took,
                                                  answers |-> reader[r].answers]
                                ELSE pages[p]]
                       ELSE pages
           /\ Show(page, reader[r].answers, reader[r].asked, took)
    /\ reader' = [reader EXCEPT ![r] = Idle]
    /\ UNCHANGED <<Market, kept, asked>>

ViewsNext ==
    \/ Elapse \/ Invalidate \/ InvalidatePaper
    \/ \E t \in ViewedTrades : OpenTrade(t) \/ CloseTrade(t)
    \/ \E r \in Readers :
          \/ \E page \in Served : Ask(r, page) \/ FromMenu(r, page)
          \/ Hit(r) \/ Miss(r) \/ Read(r) \/ Fill(r) \/ Finish(r)

ViewsSpec == ViewsInit /\ [][ViewsNext]_viewVars

-----------------------------------------------------------------------------
\* What the answer says was so at moment m; within one moment trades open and close in any order.
TrueAt(answer, m) ==
    LET those == {t \in ViewedTrades : Asks(answer.query, t)}
        before(t) == IF answer.query.open THEN opened[t] < m /\ closed[t] > m ELSE closed[t] < m
        ever(t) == IF answer.query.open THEN opened[t] <= m /\ closed[t] >= m ELSE closed[t] <= m
    IN  /\ {t \in those : before(t)} \subseteq answer.trades
        /\ answer.trades \subseteq {t \in those : ever(t)}

\* How long the caches may keep what a page shows.
KeptFor(page) ==
    CASE page = "paper" -> PageTtl - 1
      [] page \in {"analytics", "compare"} -> LabTtl - 1
      [] page = "strategy_lab" -> (PageTtl - 1) + (LabTtl - 1)

(***************************************************************************)
(* Whatever is kept, invalidated, overtaken by a slower reader or put      *)
(* together from answers of different age: every number on a page was true *)
(* no longer ago than both caches may keep it, the time of loading aside;  *)
(* no page counts a trade as closed and as open at once; a profile's open  *)
(* trades are not among the closed ones read before, and the trades of all *)
(* profiles that a page lists one by one are also in its total.            *)
(***************************************************************************)
ShownIsHonest ==
    LET answers == ToSet(shown.answers)
        since == Max({0, shown.asked - shown.took - KeptFor(shown.page)})
    IN  /\ \A a \in answers : \E m \in since..time : TrueAt(a, m)
        /\ \A a, b \in answers :
              a.query.profile = b.query.profile /\ a.query.open /\ ~b.query.open =>
                  a.trades \cap b.trades = {}
        /\ shown.page = "analytics" =>
              \A a, total \in answers :
                  ~a.query.open /\ total.query.profile = "all" =>
                      /\ a.trades \subseteq total.trades
                      /\ TradeStats(a.trades).trades <= TradeStats(total.trades).trades
                      /\ DOMAIN GroupStats(a.trades) \subseteq DOMAIN GroupStats(total.trades)
                      /\ MaxStreak(a.trades, TRUE) <= TradeStats(total.trades).wins

ViewsTypeOK ==
    /\ process \in {"bot", "web"}
    /\ time \in 0..LastTime /\ asked \in 0..MaxAsked[process]
    /\ \A t \in ViewedTrades : opened[t] \in 0..Never /\ closed[t] \in opened[t]..Never
    /\ DOMAIN kept \subseteq {"summary", "compare", "diagnostics"}
    /\ \A r \in Readers : reader[r].at \in {"idle", "section", "query"}
=============================================================================

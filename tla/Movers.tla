------------------------------- MODULE Movers -------------------------------
(***************************************************************************)
(* The movers job: once a day (cron) or on request (POST /admin/run-movers *)
(* it compares every ticker with the close of last week, decides which     *)
(* tickers have climbed to a new tier of 5%, collects and triages their    *)
(* news, commits the articles and the new tiers, and sends one e-mail.     *)
(*                                                                         *)
(* A move is counted in whole tiers with a sign: 0 stands for any move     *)
(* under 5%.  Articles are identified by their url_hash; what the triage   *)
(* graph thinks of them goes into the e-mail and two columns, and is left  *)
(* out.                                                                    *)
(*                                                                         *)
(* Both runners share one Tavily client, which counts its searches in      *)
(* memory: the cap is checked before a search is sent, and the search is   *)
(* counted when it has been answered.                                      *)
(***************************************************************************)
EXTENDS Integers, FiniteSets, Functions

CONSTANTS
    Ticker,
    Article,
    Runner,       \* threads that may run the job: the scheduler's, the web server's
    MaxTier,      \* bound on a move, in tiers
    LastWeek,     \* bound on the calendar
    MaxChanges,   \* bound on how often prices change
    Sparse,       \* _TAVILY_GAPFILL_THRESHOLD
    TavilyCap,    \* monthly_searches_cap
    None

ASSUME MoversAssumption ==
    /\ MaxTier \in Nat \ {0} /\ LastWeek \in Nat /\ MaxChanges \in Nat
    /\ Sparse \in Nat /\ TavilyCap \in Nat
    /\ None \notin Ticker
    /\ IsFiniteSet(Runner) /\ Runner # {}

VARIABLES
    move,        \* each ticker's move against last week's close
    changes,     \* how often prices have changed
    week,        \* the ISO week
    row,         \* mover_state: tier, direction and week of the last alert
    news,        \* news_event: the ticker that claimed an article
    used,        \* _used_this_month of the Tavily client
    run,         \* where each runner is, what it has found and is about to announce
    feed,        \* history: articles a structured feed has delivered
    said,        \* history: tiers announced since the last fresh start
    overlapped   \* history: two runs were under way at the same time

vars == <<move, changes, week, row, news, used, run, feed, said, overlapped>>

Sign(n) == IF n > 0 THEN 1 ELSE IF n < 0 THEN -1 ELSE 0
Size(n) == IF n < 0 THEN -n ELSE n

Move    == -MaxTier .. MaxTier
NoRow   == [tier |-> 0, dir |-> 0, week |-> None]
Idle    == [pc     |-> "idle",
            hit    |-> [t \in Ticker |-> 0],
            left   |-> {},
            at     |-> None,
            found  |-> [t \in Ticker |-> {}],
            web    |-> [t \in Ticker |-> {}],
            events |-> [a \in Article |-> None]]

Init ==
    /\ move = [t \in Ticker |-> 0]
    /\ changes = 0 /\ week = 0 /\ used = 0
    /\ row = [t \in Ticker |-> NoRow]
    /\ news = [a \in Article |-> None]
    /\ run = [r \in Runner |-> Idle]
    /\ feed = {}
    /\ said = [t \in Ticker |-> {}]
    /\ overlapped = FALSE

----------------------------------------------------------------------------
\* The tier filter.

\* A mutant of LastTier: the tier of an old week silences the new one.
LastTierOfAnyWeek(t) == row[t].tier

\* The tier announced this week; one of an earlier week counts as none.
LastTier(t) == IF row[t].week = week THEN row[t].tier ELSE 0

\* A mutant of NextTier: a tier is announced again.
NextTierRepeats(t) ==
    IF LastTier(t) = 0 \/ row[t].dir # Sign(move[t]) THEN 1 ELSE LastTier(t)

\* The tier to reach for an alert: the first one after a change of direction,
\* else the one after the last.
NextTier(t) ==
    IF LastTier(t) > 0 /\ row[t].dir # Sign(move[t]) THEN 1 ELSE LastTier(t) + 1

Recovered(t) == move[t] = 0 /\ LastTier(t) > 0

\* A mutant of Hit: the size of the move is not compared with the tier.
HitAlways(t) == IF move[t] # 0 THEN Sign(move[t]) * NextTier(t) ELSE 0

\* The tier to announce, with the direction of the move; 0 for none.
Hit(t) == IF move[t] # 0 /\ Size(move[t]) >= NextTier(t)
          THEN Sign(move[t]) * NextTier(t) ELSE 0

\* The job reads prices and tiers, resets the recovered tickers in a session of
\* their own, and stops if no ticker has reached a new tier.
Filter(r) ==
    LET back == {t \in Ticker : Recovered(t)}
        hit  == [t \in Ticker |-> Hit(t)]
    IN  /\ run[r].pc = "idle"
        /\ \E t \in Ticker : hit[t] # 0 \/ Recovered(t)
        /\ row' = [t \in Ticker |-> IF t \in back THEN NoRow ELSE row[t]]
        /\ said' = [t \in Ticker |-> IF t \in back THEN {} ELSE said[t]]
        /\ run' = [run EXCEPT ![r].pc = IF \E t \in Ticker : hit[t] # 0 THEN "news" ELSE "idle",
                              ![r].hit = hit,
                              ![r].left = {t \in Ticker : hit[t] # 0}]
        /\ overlapped' = (overlapped \/ \E q \in Runner \ {r} : run[q].pc # "idle")
        /\ UNCHANGED <<move, changes, week, news, used, feed>>

----------------------------------------------------------------------------
\* News and triage.

\* A mutant of Persisted: articles the web search found are stored too.
PersistedWithWeb(structured, web) == structured \cup web

\* What _build_news_events keeps of a ticker's articles: the duplicates of a
\* structured article are gone, and what only the web search found is skipped.
Persisted(structured, web) == structured

\* get_news_for_movers, one ticker after another: Alpaca, else Finnhub, and
\* either may fail; where they deliver little the web is searched as well.
FetchFeeds(r, t) ==
    /\ run[r].pc = "news"
    /\ t \in run[r].left
    /\ \E articles \in SUBSET Article :
         LET sparse == Cardinality(articles) < Sparse
         IN  /\ feed' = feed \cup articles
             /\ run' = [run EXCEPT ![r].pc = IF sparse THEN "search" ELSE "news",
                                   ![r].left = @ \ {t},
                                   ![r].at = IF sparse THEN t ELSE None,
                                   ![r].found[t] = articles]
    /\ UNCHANGED <<move, changes, week, row, news, used, said, overlapped>>

\* The month's cap is reached, and the search is refused.
SearchRefused(r) ==
    /\ run[r].pc = "search"
    /\ used >= TavilyCap
    /\ run' = [run EXCEPT ![r].pc = "news", ![r].at = None]
    /\ UNCHANGED <<move, changes, week, row, news, used, feed, said, overlapped>>

\* A mutant of SearchSent: the cap itself is still admitted.
SearchSentAtCap(r) ==
    /\ run[r].pc = "search"
    /\ used <= TavilyCap
    /\ run' = [run EXCEPT ![r].pc = "asked"]
    /\ UNCHANGED <<move, changes, week, row, news, used, feed, said, overlapped>>

\* The cap is not reached, and the search goes out.
SearchSent(r) ==
    /\ run[r].pc = "search"
    /\ used < TavilyCap
    /\ run' = [run EXCEPT ![r].pc = "asked"]
    /\ UNCHANGED <<move, changes, week, row, news, used, feed, said, overlapped>>

\* A search that fails adds nothing and is not counted.
SearchFails(r) ==
    /\ run[r].pc = "asked"
    /\ run' = [run EXCEPT ![r].pc = "news", ![r].at = None]
    /\ UNCHANGED <<move, changes, week, row, news, used, feed, said, overlapped>>

\* It is answered, and counted; what the feeds have delivered already is dropped.
SearchAnswers(r) ==
    LET t == run[r].at
    IN  /\ run[r].pc = "asked"
        /\ used' = used + 1
        /\ \E articles \in SUBSET (Article \ run[r].found[t]) :
             run' = [run EXCEPT ![r].pc = "news", ![r].at = None, ![r].web[t] = articles]
        /\ UNCHANGED <<move, changes, week, row, news, feed, said, overlapped>>

GetNews(r) ==
    \/ \E t \in Ticker : FetchFeeds(r, t)
    \/ SearchRefused(r) \/ SearchSent(r) \/ SearchFails(r) \/ SearchAnswers(r)

\* The rows _build_news_events makes of the articles kept for each ticker: none
\* for an article that has a row already.
NewEvents(kept, claim) ==
    [a \in Article |-> IF news[a] = None /\ a \in kept[claim[a]] THEN claim[a] ELSE None]

\* With the news of all tickers at hand: the triage, then the rows.  An article
\* that several tickers carry is claimed by one of them.
Triage(r) ==
    LET T    == {t \in Ticker : run[r].hit[t] # 0}
        kept == [t \in T |-> Persisted(run[r].found[t], run[r].web[t])]
    IN  /\ run[r].pc = "news" /\ run[r].left = {}
        /\ \E claim \in [Article -> T] :
             /\ \A a \in UNION Range(kept) : a \in kept[claim[a]]
             /\ run' = [run EXCEPT ![r] = [Idle EXCEPT !.pc = "persist",
                                                       !.hit = run[r].hit,
                                                       !.events = NewEvents(kept, claim)]]
        /\ UNCHANGED <<move, changes, week, row, news, used, feed, said, overlapped>>

----------------------------------------------------------------------------
\* Commit and e-mail.

\* The session commits the articles and the tiers of the tickers to announce,
\* unless another run has stored one of the articles meanwhile.
Persist(r) ==
    LET hit == run[r].hit
        new == {a \in Article : run[r].events[a] # None}
    IN  /\ run[r].pc = "persist"
        /\ \A a \in new : news[a] = None
        /\ news' = [a \in Article |-> IF a \in new THEN run[r].events[a] ELSE news[a]]
        /\ row' = [t \in Ticker |->
                     IF hit[t] = 0 THEN row[t]
                     ELSE [tier |-> Size(hit[t]), dir |-> Sign(hit[t]), week |-> week]]
        /\ said' = [t \in Ticker |->
                      IF hit[t] # 0 /\ row[t].dir # Sign(hit[t]) THEN {} ELSE said[t]]
        /\ run' = [run EXCEPT ![r].pc = "send", ![r].events = Idle.events]
        /\ UNCHANGED <<move, changes, week, used, feed, overlapped>>

\* The session is rolled back: the url_hash of an article is taken, the lock is
\* not to be had, or the process stops.  Getting the news raises nothing and
\* writes nothing.
RunFails(r) ==
    /\ (run[r].pc = "news" /\ run[r].left = {}) \/ run[r].pc = "persist"
    /\ run' = [run EXCEPT ![r] = Idle]
    /\ UNCHANGED <<move, changes, week, row, news, used, feed, said, overlapped>>

Send(r) ==
    /\ run[r].pc = "send"
    /\ said' = [t \in Ticker |->
                  IF run[r].hit[t] = 0 THEN said[t] ELSE said[t] \cup {run[r].hit[t]}]
    /\ run' = [run EXCEPT ![r] = Idle]
    /\ UNCHANGED <<move, changes, week, row, news, used, feed, overlapped>>

\* Sending fails: the tiers stay committed and nobody sends them again.
SendFails(r) ==
    /\ run[r].pc = "send"
    /\ run' = [run EXCEPT ![r] = Idle]
    /\ UNCHANGED <<move, changes, week, row, news, used, feed, said, overlapped>>

----------------------------------------------------------------------------

PriceMoves(t) ==
    /\ changes < MaxChanges
    /\ changes' = changes + 1
    /\ \E m \in Move \ {move[t]} : move' = [move EXCEPT ![t] = m]
    /\ UNCHANGED <<week, row, news, used, run, feed, said, overlapped>>

\* The week ends while no run is under way; every move starts again from the
\* new baseline.
NewWeek ==
    /\ week < LastWeek
    /\ \A r \in Runner : run[r].pc = "idle"
    /\ week' = week + 1
    /\ said' = [t \in Ticker |-> {}]
    /\ move' = [t \in Ticker |-> 0]
    /\ UNCHANGED <<changes, row, news, used, run, feed, overlapped>>

Next ==
    \/ \E r \in Runner :
         \/ Filter(r) \/ GetNews(r) \/ Triage(r) \/ Persist(r)
         \/ RunFails(r) \/ Send(r) \/ SendFails(r)
    \/ \E t \in Ticker : PriceMoves(t)
    \/ NewWeek

Spec == Init /\ [][Next]_vars

\* The job runs every working day, a run that has begun goes on (the feeds and
\* the search have timeouts), and not every run fails.  Nothing is assumed of the
\* e-mail.
FairSpec ==
    /\ Spec
    /\ \A r \in Runner :
         /\ WF_vars(Filter(r)) /\ WF_vars(GetNews(r))
         /\ SF_vars(Triage(r)) /\ WF_vars(Triage(r) \/ RunFails(r))
         /\ SF_vars(Persist(r)) /\ WF_vars(Persist(r) \/ RunFails(r))
         /\ WF_vars(Send(r) \/ SendFails(r))

----------------------------------------------------------------------------

TypeOK ==
    /\ move \in [Ticker -> Move]
    /\ changes \in 0 .. MaxChanges /\ week \in 0 .. LastWeek /\ used \in Nat
    /\ row \in [Ticker -> [tier : 0 .. MaxTier, dir : {-1, 0, 1}, week : (0 .. LastWeek) \cup {None}]]
    /\ news \in [Article -> Ticker \cup {None}]
    /\ run \in [Runner -> [pc     : {"idle", "news", "search", "asked", "persist", "send"},
                           hit    : [Ticker -> Move],
                           left   : SUBSET Ticker,
                           at     : Ticker \cup {None},
                           found  : [Ticker -> SUBSET Article],
                           web    : [Ticker -> SUBSET Article],
                           events : [Article -> Ticker \cup {None}]]]
    /\ feed \subseteq Article
    /\ said \in [Ticker -> SUBSET Move]
    /\ overlapped \in BOOLEAN

\* As long as runs do not overlap, no e-mail repeats a tier of a ticker until
\* the ticker recovers, turns round or a week begins, also when e-mails and
\* sessions fail: the tier is committed before the e-mail goes out.
AnnouncedOnce ==
    [][\A r \in Runner, t \in Ticker :
         Send(r) /\ ~overlapped /\ run[r].hit[t] # 0 => run[r].hit[t] \notin said[t]]_vars

\* Nothing the web search alone has found reaches news_event, the table the
\* suggestion engine reads (ADR-0020), whichever runs and feeds found it first.
WebNewsStaysOut == \A a \in Article : news[a] # None => a \in feed

Asking == {r \in Runner : run[r].pc = "asked"}

\* The searches counted and under way exceed the month's cap by at most one for
\* each runner but the first: _search checks the cap, waits for the answer and
\* counts afterwards, on a client that the runners share.
SearchesBounded == used + Cardinality(Asking) <= TavilyCap - 1 + Cardinality(Runner)

\* A move that lasts is not silenced: in the end the alert in force has its
\* direction, its week and at least its tier, whatever was announced in other weeks, in
\* the other direction or by runs that overlapped or failed (the two errors
\* ADR-0028 closes).
LadderCatchesUp ==
    <>[](\A t \in Ticker : move[t] # 0 =>
           /\ row[t].week = week
           /\ row[t].tier >= Size(move[t])
           /\ row[t].dir = Sign(move[t]))

----------------------------------------------------------------------------
\* Why these hold: the parts of an inductive invariant.

\* A run stores no article but what some feed has delivered, and knows which of
\* those it has found are of this kind.
EventInv ==
    \A r \in Runner :
      /\ \A t \in Ticker : run[r].found[t] \subseteq feed
      /\ \A a \in Article : run[r].events[a] # None => a \in feed

\* Runs that have not overlapped are under way one at a time.
OneAtATime == \A q, r \in Runner : run[q].pc # "idle" /\ run[r].pc # "idle" => q = r

\* What has been announced lies on the ladder up to the committed tier.
SaidInv(t) ==
    \A n \in said[t] : row[t].week = week /\ row[t].dir = Sign(n) /\ Size(n) <= row[t].tier

\* A run announces a tier beyond the committed one, and has committed it, above
\* everything announced, when it sends the e-mail.
HitInv(r, t) ==
    LET n == run[r].hit[t]
    IN  n # 0 =>
          /\ run[r].pc \notin {"idle", "send"} /\ row[t].week = week /\ row[t].dir = Sign(n) =>
               row[t].tier < Size(n)
          /\ run[r].pc = "send" =>
               /\ row[t] = [tier |-> Size(n), dir |-> Sign(n), week |-> week]
               /\ \A m \in said[t] : Size(m) < Size(n)

LadderInv ==
    ~overlapped => /\ OneAtATime
                   /\ \A t \in Ticker : SaidInv(t)
                   /\ \A r \in Runner, t \in Ticker : HitInv(r, t)

=============================================================================

---------------------------- MODULE Movers_proofs ----------------------------
(***************************************************************************)
(* Proofs about Movers for every set of tickers, articles and runners and  *)
(* every bound: the types, that nothing the web search alone has found is  *)
(* stored, how far the searches exceed their cap, and that no tier is      *)
(* announced twice by runs that do not overlap.                            *)
(***************************************************************************)
EXTENDS Movers, FiniteSetTheorems, TLAPS

-----------------------------------------------------------------------------
(* The tiers *)

\* The signed numbers of the ladder.
LEMMA SignSize ==
    ASSUME NEW n \in Move
    PROVE  /\ Sign(n) \in {-1, 0, 1} /\ Size(n) \in 0 .. MaxTier
           /\ n = Sign(n) * Size(n)
           /\ n # 0 => Size(n) > 0
BY MoversAssumption DEF Move, Sign, Size

\* Hit announces a tier of the ladder, in the direction of the move and beyond
\* the tier announced this week in that direction; nothing for a recovered one.
LEMMA HitFacts ==
    ASSUME TypeOK, NEW t \in Ticker
    PROVE  /\ Hit(t) \in Move
           /\ Hit(t) # 0 /\ row[t].week = week /\ row[t].dir = Sign(Hit(t)) =>
                row[t].tier < Size(Hit(t))
           /\ Recovered(t) => Hit(t) = 0
<1>1. move[t] \in Move /\ row[t].tier \in 0 .. MaxTier
  BY DEF TypeOK
<1>2. LastTier(t) \in 0 .. MaxTier /\ (row[t].week = week => LastTier(t) = row[t].tier)
  BY <1>1, MoversAssumption DEF LastTier
<1>3. NextTier(t) \in 1 .. MaxTier + 1
  BY <1>2, MoversAssumption DEF NextTier
<1>4. /\ Hit(t) \in Move
      /\ Hit(t) # 0 => Sign(Hit(t)) = Sign(move[t]) /\ Size(Hit(t)) = NextTier(t)
  <2>1. CASE move[t] > 0
    BY <1>1, <1>3, <2>1, MoversAssumption DEF Hit, Sign, Size, Move
  <2>2. CASE move[t] < 0
    BY <1>1, <1>3, <2>2, MoversAssumption DEF Hit, Sign, Size, Move
  <2>3. CASE move[t] = 0
    BY <2>3, MoversAssumption DEF Hit, Move
  <2> QED BY <1>1, <2>1, <2>2, <2>3, MoversAssumption DEF Move
<1>5. row[t].week = week /\ row[t].dir = Sign(move[t]) => NextTier(t) = row[t].tier + 1
  BY <1>1, <1>2, MoversAssumption DEF NextTier
<1> QED BY <1>1, <1>4, <1>5, MoversAssumption DEF Hit, Recovered

-----------------------------------------------------------------------------
(* Types *)

RunType == [pc     : {"idle", "news", "search", "asked", "persist", "send"},
            hit    : [Ticker -> Move],
            left   : SUBSET Ticker,
            at     : Ticker \cup {None},
            found  : [Ticker -> SUBSET Article],
            web    : [Ticker -> SUBSET Article],
            events : [Article -> Ticker \cup {None}]]

\* A run at rest has its type.
LEMMA IdleType ==
    /\ Idle \in RunType /\ Idle.pc = "idle"
    /\ Idle.events = [a \in Article |-> None] /\ Idle.found = [t \in Ticker |-> {}]
BY MoversAssumption DEF Idle, RunType, Move

\* A step of one run leaves the others alone.
LEMMA SetRun ==
    ASSUME run \in [Runner -> RunType], NEW r \in Runner, NEW j \in RunType,
           run' = [run EXCEPT ![r] = j]
    PROVE  /\ run' \in [Runner -> RunType] /\ run'[r] = j
           /\ \A q \in Runner : q # r => run'[q] = run[q]
OBVIOUS

\* What a step of getting the news does to its run.
LEMMA NewsShape ==
    ASSUME TypeOK, NEW r \in Runner, GetNews(r)
    PROVE  /\ run[r].pc \in {"news", "search", "asked"}
           /\ feed \subseteq feed' /\ feed' \subseteq Article
           /\ UNCHANGED <<move, changes, week, row, news, said, overlapped>>
           /\ run' \in [Runner -> RunType]
           /\ \A q \in Runner : q # r => run'[q] = run[q]
           /\ run'[r].pc \in {"news", "search", "asked"}
           /\ run'[r].pc = "asked" => SearchSent(r)
           /\ run'[r].hit = run[r].hit /\ run'[r].events = run[r].events
           /\ \A t \in Ticker : run'[r].found[t] \subseteq run[r].found[t] \cup feed'
<1>0. run \in [Runner -> RunType] /\ feed \subseteq Article
  BY DEF TypeOK, RunType
<1>1. ASSUME NEW t \in Ticker, FetchFeeds(r, t)
      PROVE  /\ feed \subseteq feed' /\ feed' \subseteq Article
             /\ run' \in [Runner -> RunType]
             /\ \A q \in Runner : q # r => run'[q] = run[q]
             /\ run'[r].pc \in {"news", "search"}
             /\ run'[r].hit = run[r].hit /\ run'[r].events = run[r].events
             /\ \A u \in Ticker : run'[r].found[u] \subseteq run[r].found[u] \cup feed'
  <2>1. PICK articles \in SUBSET Article, p \in {"news", "search"}, n \in Ticker \cup {None} :
          /\ feed' = feed \cup articles
          /\ run' = [run EXCEPT ![r].pc = p, ![r].left = @ \ {t}, ![r].at = n,
                                ![r].found[t] = articles]
    BY <1>1 DEF FetchFeeds
  <2>2. PICK c \in RunType : c = run[r]
    BY <1>0
  <2>3. PICK l \in SUBSET Ticker : l = c.left \ {t}
    BY DEF RunType
  <2>4. PICK f \in [Ticker -> SUBSET Article] : f = [c.found EXCEPT ![t] = articles]
    BY DEF RunType
  <2> DEFINE j == [c EXCEPT !.pc = p, !.left = l, !.at = n, !.found = f]
  <2>5. j \in RunType
    BY Zenon DEF RunType
  <2>6. j.pc = p /\ j.hit = c.hit /\ j.events = c.events /\ j.found = f
    BY DEF RunType
  <2>7. run' = [run EXCEPT ![r] = j]
    <3>1. run' = [run EXCEPT ![r] = run'[r]]
      BY <1>0, <2>1
    <3>2. run'[r] = [c EXCEPT !.pc = p, !.left = c.left \ {t}, !.at = n, !.found[t] = articles]
      BY <1>0, <2>1, <2>2 DEF RunType
    <3>3. run'[r] = j
      BY <3>2, <2>3, <2>4
    <3> QED BY <3>1, <3>3
  <2>8. \A u \in Ticker : f[u] = IF u = t THEN articles ELSE c.found[u]
    BY <2>4 DEF RunType
  <2> HIDE DEF j
  <2> QED BY <1>0, <2>1, <2>2, <2>5, <2>6, <2>7, <2>8, SetRun
<1>2. ASSUME SearchRefused(r) \/ SearchSent(r) \/ SearchFails(r)
      PROVE  /\ run' \in [Runner -> RunType]
             /\ \A q \in Runner : q # r => run'[q] = run[q]
             /\ run'[r].pc \in {"news", "asked"}
             /\ run'[r].pc = "asked" => SearchSent(r)
             /\ run'[r].hit = run[r].hit /\ run'[r].events = run[r].events
             /\ run'[r].found = run[r].found
  <2>1. PICK p \in {"news", "asked"}, n \in Ticker \cup {None} :
          /\ run' = [run EXCEPT ![r].pc = p, ![r].at = n]
          /\ p = "asked" => SearchSent(r)
    <3>1. CASE SearchSent(r)
      <4>1. run[r].at \in Ticker \cup {None}
        BY <1>0 DEF RunType
      <4>2. run' = [run EXCEPT ![r].pc = "asked", ![r].at = run[r].at]
        BY <1>0, <3>1 DEF SearchSent, RunType
      <4> QED BY <3>1, <4>1, <4>2
    <3>2. CASE SearchRefused(r) \/ SearchFails(r)
      BY <3>2 DEF SearchRefused, SearchFails
    <3> QED BY <1>2, <3>1, <3>2
  <2>2. PICK c \in RunType : c = run[r]
    BY <1>0
  <2> DEFINE j == [c EXCEPT !.pc = p, !.at = n]
  <2>3. j \in RunType
    BY Zenon DEF RunType
  <2>4. j.pc = p /\ j.hit = c.hit /\ j.events = c.events /\ j.found = c.found
    BY DEF RunType
  <2>5. run' = [run EXCEPT ![r] = j]
    BY <2>1, <2>2
  <2> HIDE DEF j
  <2> QED BY <1>0, <2>1, <2>2, <2>3, <2>4, <2>5, SetRun
<1>3. ASSUME SearchAnswers(r)
      PROVE  /\ run' \in [Runner -> RunType]
             /\ \A q \in Runner : q # r => run'[q] = run[q]
             /\ run'[r].pc = "news"
             /\ run'[r].hit = run[r].hit /\ run'[r].events = run[r].events
             /\ run'[r].found = run[r].found
  <2>1. PICK articles \in SUBSET Article :
          run' = [run EXCEPT ![r].pc = "news", ![r].at = None, ![r].web[run[r].at] = articles]
    BY <1>3 DEF SearchAnswers
  <2>2. PICK c \in RunType : c = run[r]
    BY <1>0
  <2>3. PICK w \in [Ticker -> SUBSET Article] : w = [c.web EXCEPT ![c.at] = articles]
    BY DEF RunType
  <2> DEFINE j == [c EXCEPT !.pc = "news", !.at = None, !.web = w]
  <2>4. j \in RunType
    BY Zenon DEF RunType
  <2>5. j.pc = "news" /\ j.hit = c.hit /\ j.events = c.events /\ j.found = c.found
    BY DEF RunType
  <2>6. run' = [run EXCEPT ![r] = j]
    <3>1. run' = [run EXCEPT ![r] = run'[r]]
      BY <1>0, <2>1
    <3>2. run'[r] = [c EXCEPT !.pc = "news", !.at = None, !.web[c.at] = articles]
      BY <1>0, <2>1, <2>2 DEF RunType
    <3>3. run'[r] = j
      BY <2>3, <3>2
    <3> QED BY <3>1, <3>3
  <2> HIDE DEF j
  <2> QED BY <1>0, <2>2, <2>4, <2>5, <2>6, SetRun
<1>4. /\ run[r].pc \in {"news", "search", "asked"}
      /\ UNCHANGED <<move, changes, week, row, news, said, overlapped>>
      /\ ~(\E t \in Ticker : FetchFeeds(r, t)) => feed' = feed
  BY DEF GetNews, FetchFeeds, SearchRefused, SearchSent, SearchFails, SearchAnswers
<1>5. CASE \E t \in Ticker : FetchFeeds(r, t)
  BY <1>1, <1>4, <1>5
<1>6. CASE SearchRefused(r) \/ SearchSent(r) \/ SearchFails(r)
  <2>1. feed' = feed
    BY <1>6 DEF SearchRefused, SearchSent, SearchFails
  <2> QED BY <1>0, <1>2, <1>4, <1>6, <2>1
<1>7. CASE SearchAnswers(r)
  <2>1. feed' = feed
    BY <1>7 DEF SearchAnswers
  <2> QED BY <1>0, <1>3, <1>4, <1>7, <2>1
<1> QED BY <1>5, <1>6, <1>7 DEF GetNews

\* What Triage leaves: for each article found in a feed, by the ticker that
\* claims it, an event to store.
LEMMA TriageShape ==
    ASSUME TypeOK, NEW r \in Runner, Triage(r)
    PROVE  /\ run[r].pc = "news"
           /\ UNCHANGED <<move, changes, week, row, news, used, feed, said, overlapped>>
           /\ \E e \in [Article -> Ticker \cup {None}] :
                /\ run' = [run EXCEPT ![r] = [Idle EXCEPT !.pc = "persist",
                                                          !.hit = run[r].hit,
                                                          !.events = e]]
                /\ \A a \in Article : e[a] # None => \E t \in Ticker : a \in run[r].found[t]
<1> DEFINE T == {t \in Ticker : run[r].hit[t] # 0}
           kept == [t \in T |-> Persisted(run[r].found[t], run[r].web[t])]
<1>1. PICK claim \in [Article -> T] :
        run' = [run EXCEPT ![r] = [Idle EXCEPT !.pc = "persist",
                                               !.hit = run[r].hit,
                                               !.events = NewEvents(kept, claim)]]
  BY Zenon DEF Triage
<1> DEFINE e == NewEvents(kept, claim)
<1>2. e \in [Article -> Ticker \cup {None}]
  BY DEF NewEvents
<1>3. ASSUME NEW a \in Article, e[a] # None
      PROVE  \E t \in Ticker : a \in run[r].found[t]
  <2>1. a \in kept[claim[a]] /\ claim[a] \in T
    BY <1>3 DEF NewEvents
  <2> QED BY <2>1 DEF Persisted
<1>4. /\ run[r].pc = "news"
      /\ UNCHANGED <<move, changes, week, row, news, used, feed, said, overlapped>>
  BY DEF Triage
<1> HIDE DEF e
<1>5. run' = [run EXCEPT ![r] = [Idle EXCEPT !.pc = "persist", !.hit = run[r].hit, !.events = e]]
  BY <1>1 DEF e
<1> QED BY <1>2, <1>3, <1>4, <1>5

\* What a run is after its next step; the other runs stay where they are.
LEMMA RunSteps ==
    ASSUME TypeOK, NEW r \in Runner,
           Filter(r) \/ GetNews(r) \/ Triage(r) \/ Persist(r) \/ RunFails(r) \/ Send(r) \/ SendFails(r)
    PROVE  /\ run' \in [Runner -> RunType]
           /\ \A q \in Runner : q # r => run'[q] = run[q]
           /\ Filter(r) => /\ run'[r].pc \in {"idle", "news"}
                           /\ run'[r].hit = [t \in Ticker |-> Hit(t)]
                           /\ run'[r].events = run[r].events /\ run'[r].found = run[r].found
           /\ GetNews(r) => /\ run'[r].pc \in {"news", "search", "asked"}
                            /\ run'[r].hit = run[r].hit
           /\ Triage(r) => /\ run'[r].pc = "persist" /\ run'[r].hit = run[r].hit
                           /\ run'[r].found = [t \in Ticker |-> {}]
                           /\ \A a \in Article : run'[r].events[a] # None =>
                                 \E t \in Ticker : a \in run[r].found[t]
           /\ Persist(r) => /\ run'[r].pc = "send" /\ run'[r].hit = run[r].hit
                            /\ run'[r].events = [a \in Article |-> None]
                            /\ run'[r].found = run[r].found
           /\ RunFails(r) \/ Send(r) \/ SendFails(r) => run'[r] = Idle
<1>0. run \in [Runner -> RunType]
  BY DEF TypeOK, RunType
<1>1. ASSUME Filter(r)
      PROVE  /\ run' \in [Runner -> RunType]
             /\ \A q \in Runner : q # r => run'[q] = run[q]
             /\ run'[r].pc \in {"idle", "news"}
             /\ run'[r].hit = [t \in Ticker |-> Hit(t)]
             /\ run'[r].events = run[r].events /\ run'[r].found = run[r].found
  <2> DEFINE h == [t \in Ticker |-> Hit(t)]
  <2>1. h \in [Ticker -> Move]
    BY HitFacts
  <2>2. PICK p \in {"idle", "news"}, l \in SUBSET Ticker :
          run' = [run EXCEPT ![r].pc = p, ![r].hit = h, ![r].left = l]
    BY <1>1 DEF Filter
  <2> HIDE DEF h
  <2>3. PICK c \in RunType : c = run[r]
    BY <1>0
  <2> DEFINE j == [c EXCEPT !.pc = p, !.hit = h, !.left = l]
  <2>4. j \in RunType
    BY <2>1, Zenon DEF RunType
  <2>5. j.pc = p /\ j.hit = h /\ j.events = c.events /\ j.found = c.found
    BY DEF RunType
  <2>6. run' = [run EXCEPT ![r] = j]
    BY <2>2, <2>3
  <2> HIDE DEF j
  <2> QED BY <1>0, <2>3, <2>4, <2>5, <2>6, SetRun DEF h
<1>2. ASSUME Triage(r)
      PROVE  /\ run' \in [Runner -> RunType]
             /\ \A q \in Runner : q # r => run'[q] = run[q]
             /\ run'[r].pc = "persist" /\ run'[r].hit = run[r].hit
             /\ run'[r].found = [t \in Ticker |-> {}]
             /\ \A a \in Article : run'[r].events[a] # None =>
                  \E t \in Ticker : a \in run[r].found[t]
  <2>1. PICK e \in [Article -> Ticker \cup {None}] :
          /\ run' = [run EXCEPT ![r] = [Idle EXCEPT !.pc = "persist", !.hit = run[r].hit,
                                                    !.events = e]]
          /\ \A a \in Article : e[a] # None => \E t \in Ticker : a \in run[r].found[t]
    BY <1>2, TriageShape
  <2>2. PICK h \in [Ticker -> Move] : h = run[r].hit
    BY <1>0 DEF RunType
  <2>3. PICK i \in RunType : i = Idle /\ i.found = [t \in Ticker |-> {}]
    BY IdleType
  <2> DEFINE j == [i EXCEPT !.pc = "persist", !.hit = h, !.events = e]
  <2>4. j \in RunType
    BY Zenon DEF RunType
  <2>5. j.pc = "persist" /\ j.hit = h /\ j.events = e /\ j.found = i.found
    BY DEF RunType
  <2>6. run' = [run EXCEPT ![r] = j]
    BY <2>1, <2>2, <2>3
  <2> HIDE DEF j
  <2> QED BY <1>0, <2>1, <2>2, <2>3, <2>4, <2>5, <2>6, SetRun
<1>3. ASSUME Persist(r)
      PROVE  /\ run' \in [Runner -> RunType]
             /\ \A q \in Runner : q # r => run'[q] = run[q]
             /\ run'[r].pc = "send" /\ run'[r].hit = run[r].hit
             /\ run'[r].events = [a \in Article |-> None] /\ run'[r].found = run[r].found
  <2>1. PICK e \in [Article -> Ticker \cup {None}] : e = [a \in Article |-> None]
    OBVIOUS
  <2>2. run' = [run EXCEPT ![r].pc = "send", ![r].events = e]
    BY <1>3, <2>1, IdleType DEF Persist
  <2>3. PICK c \in RunType : c = run[r]
    BY <1>0
  <2> DEFINE j == [c EXCEPT !.pc = "send", !.events = e]
  <2>4. j \in RunType
    BY Zenon DEF RunType
  <2>5. j.pc = "send" /\ j.hit = c.hit /\ j.events = e /\ j.found = c.found
    BY DEF RunType
  <2>6. run' = [run EXCEPT ![r] = j]
    BY <2>2, <2>3
  <2> HIDE DEF j
  <2> QED BY <1>0, <2>1, <2>3, <2>4, <2>5, <2>6, SetRun
<1>4. ASSUME RunFails(r) \/ Send(r) \/ SendFails(r)
      PROVE  /\ run' \in [Runner -> RunType]
             /\ \A q \in Runner : q # r => run'[q] = run[q]
             /\ run'[r] = Idle
  BY <1>0, <1>4, IdleType DEF RunFails, Send, SendFails
<1> QED BY <1>1, <1>2, <1>3, <1>4, NewsShape

\* The initial state has its types, and nothing is stored or announced.
LEMMA InitAll == Init => TypeOK /\ EventInv /\ WebNewsStaysOut /\ LadderInv
<1> SUFFICES ASSUME Init PROVE TypeOK /\ EventInv /\ WebNewsStaysOut /\ LadderInv
  OBVIOUS
<1>1. /\ run \in [Runner -> RunType]
      /\ \A r \in Runner : /\ run[r].pc = "idle" /\ run[r].found = [t \in Ticker |-> {}]
                            /\ \A a \in Article : run[r].events[a] = None
  BY IdleType DEF Init
<1>2. NoRow \in [tier : 0 .. MaxTier, dir : {-1, 0, 1}, week : (0 .. LastWeek) \cup {None}]
  BY MoversAssumption DEF NoRow
<1>3. TypeOK
  <2>1. /\ move \in [Ticker -> Move] /\ said \in [Ticker -> SUBSET Move] /\ feed \subseteq Article
        /\ changes \in 0 .. MaxChanges /\ week \in 0 .. LastWeek /\ used \in Nat
    BY MoversAssumption DEF Init, Move
  <2>2. news \in [Article -> Ticker \cup {None}] /\ overlapped \in BOOLEAN
    BY DEF Init
  <2>3. row \in [Ticker -> [tier : 0 .. MaxTier, dir : {-1, 0, 1}, week : (0 .. LastWeek) \cup {None}]]
    BY <1>2 DEF Init
  <2> QED BY <1>1, <2>1, <2>2, <2>3 DEF TypeOK, RunType
<1>4. EventInv /\ WebNewsStaysOut
  BY <1>1 DEF Init, EventInv, WebNewsStaysOut
<1>5. LadderInv
  BY <1>1 DEF Init, LadderInv, OneAtATime, SaidInv, HitInv
<1> QED BY <1>3, <1>4, <1>5

\* Every step keeps the types.
LEMMA NextType == TypeOK /\ [Next]_vars => TypeOK'
<1> SUFFICES ASSUME TypeOK, [Next]_vars PROVE TypeOK'
  OBVIOUS
<1>0. run \in [Runner -> RunType]
  BY DEF TypeOK, RunType
<1>1. ASSUME NEW r \in Runner, Filter(r) PROVE TypeOK'
  <2>2. run' \in [Runner -> RunType]
    BY <1>1, RunSteps
  <2>3. row' \in [Ticker -> [tier : 0 .. MaxTier, dir : {-1, 0, 1}, week : (0 .. LastWeek) \cup {None}]]
    <3>1. \A t \in Ticker : row'[t] \in {NoRow, row[t]}
      BY <1>1 DEF Filter
    <3>2. NoRow \in [tier : 0 .. MaxTier, dir : {-1, 0, 1}, week : (0 .. LastWeek) \cup {None}]
      BY MoversAssumption DEF NoRow
    <3>3. DOMAIN row' = Ticker /\ row' = [t \in Ticker |-> row'[t]]
      BY <1>1 DEF Filter
    <3> HIDE DEF NoRow
    <3> QED BY <3>1, <3>2, <3>3 DEF TypeOK
  <2>4. said' \in [Ticker -> SUBSET Move] /\ overlapped' \in BOOLEAN
    BY <1>1 DEF Filter, TypeOK
  <2> QED BY <1>1, <2>2, <2>3, <2>4 DEF Filter, TypeOK, RunType
<1>2. ASSUME NEW r \in Runner, GetNews(r) \/ Triage(r) PROVE TypeOK'
  <2>1. run' \in [Runner -> RunType]
    BY <1>2, RunSteps
  <2>2. used' \in Nat
    <3>1. used' = used \/ used' = used + 1
      BY <1>2, TriageShape DEF GetNews, FetchFeeds, SearchRefused, SearchSent, SearchFails,
         SearchAnswers
    <3> QED BY <3>1 DEF TypeOK
  <2>3. feed' \subseteq Article /\ UNCHANGED <<move, changes, week, row, news, said, overlapped>>
    BY <1>2, NewsShape, TriageShape DEF TypeOK
  <2> QED BY <2>1, <2>2, <2>3 DEF TypeOK, RunType
<1>3. ASSUME NEW r \in Runner, Persist(r) PROVE TypeOK'
  <2>1. run' \in [Runner -> RunType]
    BY <1>3, RunSteps
  <2>2. \A t \in Ticker : run[r].hit[t] \in Move
    BY <1>0 DEF RunType
  <2>3. row' \in [Ticker -> [tier : 0 .. MaxTier, dir : {-1, 0, 1}, week : (0 .. LastWeek) \cup {None}]]
    BY <1>3, <2>2, SignSize DEF Persist, TypeOK
  <2>4. said' \in [Ticker -> SUBSET Move] /\ news' \in [Article -> Ticker \cup {None}]
    BY <1>3 DEF Persist, TypeOK
  <2> QED BY <1>3, <2>1, <2>3, <2>4 DEF Persist, TypeOK, RunType
<1>4. ASSUME NEW r \in Runner, RunFails(r) \/ SendFails(r) PROVE TypeOK'
  <2>1. run' \in [Runner -> RunType]
    BY <1>4, RunSteps
  <2> QED BY <1>4, <2>1 DEF RunFails, SendFails, TypeOK, RunType
<1>5. ASSUME NEW r \in Runner, Send(r) PROVE TypeOK'
  <2>1. run' \in [Runner -> RunType]
    BY <1>5, RunSteps
  <2>2. \A t \in Ticker : run[r].hit[t] \in Move
    BY <1>0 DEF RunType
  <2>3. said' \in [Ticker -> SUBSET Move]
    BY <1>5, <2>2 DEF Send, TypeOK
  <2> QED BY <1>5, <2>1, <2>3 DEF Send, TypeOK, RunType
<1>6. ASSUME NEW t \in Ticker, PriceMoves(t) PROVE TypeOK'
  BY <1>6, MoversAssumption DEF PriceMoves, TypeOK
<1>7. CASE NewWeek
  BY <1>7, MoversAssumption DEF NewWeek, TypeOK, Move
<1>8. CASE UNCHANGED vars
  BY <1>8 DEF vars, TypeOK
<1> QED BY <1>1, <1>2, <1>3, <1>4, <1>5, <1>6, <1>7, <1>8 DEF Next

\* The state of the movers job keeps its types: tiers stay on the ladder.
THEOREM TypesHold == Spec => []TypeOK
BY InitAll, NextType, PTL DEF Spec

-----------------------------------------------------------------------------
(* Nothing but what a feed has delivered is stored *)

\* Every step keeps it.
LEMMA NextSources ==
    TypeOK /\ EventInv /\ WebNewsStaysOut /\ [Next]_vars => EventInv' /\ WebNewsStaysOut'
<1> SUFFICES ASSUME TypeOK, EventInv, WebNewsStaysOut, [Next]_vars
             PROVE  EventInv' /\ WebNewsStaysOut'
  OBVIOUS
<1>1. ASSUME NEW r \in Runner, Filter(r) PROVE EventInv' /\ WebNewsStaysOut'
  <2>1. \A q \in Runner : run'[q].events = run[q].events /\ run'[q].found = run[q].found
    BY <1>1, RunSteps
  <2> QED BY <1>1, <2>1 DEF Filter, EventInv, WebNewsStaysOut
<1>2. ASSUME NEW r \in Runner, GetNews(r) PROVE EventInv' /\ WebNewsStaysOut'
  <2>1. /\ feed \subseteq feed' /\ news' = news /\ run'[r].events = run[r].events
        /\ \A t \in Ticker : run'[r].found[t] \subseteq run[r].found[t] \cup feed'
        /\ \A q \in Runner : q # r => run'[q] = run[q]
    BY <1>2, NewsShape
  <2>2. EventInv'
    BY <2>1 DEF EventInv
  <2> QED BY <2>1, <2>2 DEF WebNewsStaysOut
<1>t. ASSUME NEW r \in Runner, Triage(r) PROVE EventInv' /\ WebNewsStaysOut'
  <2>1. feed' = feed /\ news' = news
    BY <1>t, TriageShape
  <2>2. /\ run'[r].found = [t \in Ticker |-> {}]
        /\ \A a \in Article : run'[r].events[a] # None => \E t \in Ticker : a \in run[r].found[t]
        /\ \A q \in Runner : q # r => run'[q] = run[q]
    BY <1>t, RunSteps
  <2>3. EventInv'
    BY <2>1, <2>2 DEF EventInv
  <2> QED BY <2>1, <2>3 DEF WebNewsStaysOut
<1>3. ASSUME NEW r \in Runner, Persist(r) PROVE EventInv' /\ WebNewsStaysOut'
  <2>1. feed' = feed /\ \A a \in Article : news'[a] \in {run[r].events[a], news[a]}
    BY <1>3 DEF Persist
  <2>2. /\ \A a \in Article : run'[r].events[a] = None
        /\ run'[r].found = run[r].found
        /\ \A q \in Runner : q # r => run'[q] = run[q]
    BY <1>3, RunSteps
  <2> QED BY <2>1, <2>2 DEF EventInv, WebNewsStaysOut
<1>4. ASSUME NEW r \in Runner, RunFails(r) \/ Send(r) \/ SendFails(r)
      PROVE  EventInv' /\ WebNewsStaysOut'
  <2>1. run'[r] = Idle /\ \A q \in Runner : q # r => run'[q] = run[q]
    BY <1>4, RunSteps
  <2>2. feed' = feed /\ news' = news
    BY <1>4 DEF RunFails, Send, SendFails
  <2> QED BY <2>1, <2>2, IdleType DEF EventInv, WebNewsStaysOut
<1>5. ASSUME NEW t \in Ticker, PriceMoves(t) PROVE EventInv' /\ WebNewsStaysOut'
  BY <1>5 DEF PriceMoves, EventInv, WebNewsStaysOut
<1>6. CASE NewWeek \/ UNCHANGED vars
  BY <1>6 DEF NewWeek, vars, EventInv, WebNewsStaysOut
<1> QED BY <1>1, <1>2, <1>t, <1>3, <1>4, <1>5, <1>6 DEF Next

\* What only the web search has found never reaches news_event, however many
\* runs gather and store articles at the same time: _build_news_events keeps it
\* out before the session, and a feed that has delivered an article has
\* delivered it for good.
THEOREM OnlyFeedsAreStored == Spec => []WebNewsStaysOut
<1>1. TypeOK /\ EventInv /\ WebNewsStaysOut /\ [Next]_vars
        => (TypeOK /\ EventInv /\ WebNewsStaysOut)'
  BY NextType, NextSources
<1> QED BY <1>1, InitAll, PTL DEF Spec

-----------------------------------------------------------------------------
(* The searches *)

\* The runs that wait for the web search are finitely many, at most all of them.
LEMMA AskingFinite ==
    /\ IsFiniteSet(Asking) /\ Cardinality(Asking) \in Nat
    /\ Cardinality(Runner) \in Nat /\ Cardinality(Runner) > 0
    /\ Cardinality(Asking) <= Cardinality(Runner)
<1>1. Asking \subseteq Runner
  BY DEF Asking
<1>2. Cardinality(Runner) # 0
  BY MoversAssumption, FS_EmptySet
<1> QED BY <1>1, <1>2, MoversAssumption, FS_Subset, FS_CardinalityType

\* Every step keeps the bound on the searches.
LEMMA NextSearches == TypeOK /\ TypeOK' /\ SearchesBounded /\ [Next]_vars => SearchesBounded'
<1> SUFFICES ASSUME TypeOK, TypeOK', SearchesBounded, [Next]_vars PROVE SearchesBounded'
  OBVIOUS
<1> DEFINE n == Cardinality(Asking)
           m == Cardinality(Asking')
           N == Cardinality(Runner)
<1>1. n \in Nat /\ N \in Nat /\ IsFiniteSet(Asking) /\ n <= N
  BY AskingFinite
<1>2. Asking' \in SUBSET Runner
  BY DEF Asking
<1>3. m \in Nat /\ m <= N
  BY <1>2, MoversAssumption, FS_Subset, FS_CardinalityType
<1>4. used \in Nat /\ used' \in Nat /\ TavilyCap \in Nat /\ used + n <= TavilyCap - 1 + N
  BY MoversAssumption DEF TypeOK, SearchesBounded
<1>5. SUFFICES used' + m <= TavilyCap - 1 + N
  BY DEF SearchesBounded
<1>6. ASSUME used' = used, Asking' \in SUBSET Asking
      PROVE  used' + m <= TavilyCap - 1 + N
  <2>1. m <= n
    BY <1>1, <1>6, FS_Subset
  <2> HIDE DEF m, n, N
  <2> QED BY <1>1, <1>3, <1>4, <1>6, <2>1
<1>7. ASSUME NEW r \in Runner, SearchSent(r) PROVE used' + m <= TavilyCap - 1 + N
  <2>1. used < TavilyCap /\ used' = used
    BY <1>7 DEF SearchSent
  <2> HIDE DEF m, n, N
  <2> QED BY <1>1, <1>3, <1>4, <2>1
<1>8. ASSUME NEW r \in Runner, SearchAnswers(r) PROVE used' + m <= TavilyCap - 1 + N
  <2>0. run \in [Runner -> RunType]
    BY DEF TypeOK, RunType
  <2>1. /\ run[r].pc = "asked" /\ used' = used + 1
        /\ run'[r].pc = "news" /\ \A q \in Runner : q # r => run'[q] = run[q]
    BY <1>8, <2>0 DEF SearchAnswers, RunType
  <2>2. r \in Asking /\ Asking' = Asking \ {r}
    BY <2>1 DEF Asking
  <2>3. m = n - 1
    BY <1>1, <2>2, FS_RemoveElement
  <2> HIDE DEF m, n, N
  <2> QED BY <1>1, <1>3, <1>4, <2>1, <2>3
<1>9. ASSUME NEW r \in Runner,
             \/ \E t \in Ticker : FetchFeeds(r, t)
             \/ SearchRefused(r) \/ SearchFails(r) \/ Filter(r) \/ Triage(r) \/ Persist(r)
             \/ RunFails(r) \/ Send(r) \/ SendFails(r)
      PROVE  used' + m <= TavilyCap - 1 + N
  <2>0. run \in [Runner -> RunType]
    BY DEF TypeOK, RunType
  <2>1. used' = used
    BY <1>9 DEF FetchFeeds, SearchRefused, SearchFails, Filter, Triage, Persist, RunFails,
       Send, SendFails
  <2>2. \A q \in Runner : q # r => run'[q] = run[q]
    BY <1>9, RunSteps DEF GetNews
  <2>3. run'[r].pc # "asked"
    <3>1. CASE (\E t \in Ticker : FetchFeeds(r, t)) \/ SearchRefused(r) \/ SearchFails(r)
      <4>1. GetNews(r) /\ run'[r].pc = "asked" => SearchSent(r)
        BY NewsShape
      <4>2. ~SearchSent(r)
        <5>1. used \in Int /\ TavilyCap \in Int
          BY MoversAssumption DEF TypeOK
        <5>2. run[r].pc # "search" \/ used >= TavilyCap
          BY <3>1 DEF FetchFeeds, SearchRefused, SearchFails
        <5>3. SearchSent(r) => run[r].pc = "search" /\ used < TavilyCap
          BY DEF SearchSent
        <5> QED BY <5>1, <5>2, <5>3
      <4> QED BY <3>1, <4>1, <4>2 DEF GetNews
    <3>2. CASE Filter(r) \/ Triage(r) \/ Persist(r)
      BY <3>2, RunSteps
    <3>3. CASE RunFails(r) \/ Send(r) \/ SendFails(r)
      BY <3>3, RunSteps, IdleType
    <3> QED BY <1>9, <3>1, <3>2, <3>3
  <2>4. Asking' \in SUBSET Asking
    BY <2>2, <2>3 DEF Asking
  <2> QED BY <1>6, <2>1, <2>4
<1>10. CASE (\E t \in Ticker : PriceMoves(t)) \/ NewWeek \/ UNCHANGED vars
  <2>1. used' = used /\ run' = run
    BY <1>10 DEF PriceMoves, NewWeek, vars
  <2>2. Asking' \in SUBSET Asking
    BY <2>1 DEF Asking
  <2> QED BY <1>6, <2>1, <2>2
<1> QED BY <1>7, <1>8, <1>9, <1>10 DEF Next, GetNews

\* The searches counted and under way never exceed the month's cap by more than
\* the number of runners less one, however their searches overlap and fail.
THEOREM SearchesStayBounded == Spec => []SearchesBounded
<1>1. Init => SearchesBounded
  <2> SUFFICES ASSUME Init PROVE SearchesBounded
    OBVIOUS
  <2>1. used = 0 /\ Asking = {}
    BY IdleType DEF Init, Asking
  <2>2. Cardinality(Asking) = 0
    BY <2>1, FS_EmptySet
  <2> QED BY <2>1, <2>2, AskingFinite, MoversAssumption DEF SearchesBounded
<1> QED BY <1>1, TypesHold, NextSearches, PTL DEF Spec

-----------------------------------------------------------------------------
(* No tier is announced twice *)

\* What LadderInv says while no two runs have been under way together.
Ladder == /\ OneAtATime
          /\ \A t \in Ticker : SaidInv(t)
          /\ \A r \in Runner, t \in Ticker : HitInv(r, t)

\* While one run acts alone, the others are at rest.
LEMMA OthersIdle ==
    ASSUME TypeOK, OneAtATime, NEW r \in Runner, run[r].pc # "idle",
           \A q \in Runner : q # r => run'[q] = run[q]
    PROVE  /\ \A q \in Runner : q # r => run[q].pc = "idle" /\ run'[q].pc = "idle"
           /\ OneAtATime'
BY DEF OneAtATime

\* Every step keeps LadderInv.
LEMMA NextLadder == TypeOK /\ TypeOK' /\ LadderInv /\ [Next]_vars => LadderInv'
<1> SUFFICES ASSUME TypeOK, TypeOK', LadderInv, [Next]_vars, ~overlapped' PROVE Ladder'
  BY DEF LadderInv, Ladder
<1>t. \A t \in Ticker : /\ \A r \in Runner : run[r].hit[t] \in Move
                        /\ \A n \in said[t] : n \in Move
                        /\ row[t].tier \in 0 .. MaxTier
  BY DEF TypeOK
<1>1. ASSUME NEW r \in Runner, Filter(r) PROVE Ladder'
  <2>1. Ladder /\ \A q \in Runner : q # r => run[q].pc = "idle"
    BY <1>1 DEF Filter, LadderInv, Ladder
  <2>2. \A q \in Runner : q # r => run'[q].pc = "idle"
    <3>1. \A q \in Runner : q # r => run'[q] = run[q]
      BY <1>1, RunSteps
    <3> QED BY <2>1, <3>1
  <2>3. OneAtATime'
    BY <2>2 DEF OneAtATime
  <2>4. ASSUME NEW t \in Ticker PROVE SaidInv(t)'
    <3>1. week' = week /\ (said'[t] = {} \/ (said'[t] = said[t] /\ row'[t] = row[t]))
      BY <1>1 DEF Filter
    <3> QED BY <2>1, <3>1 DEF Ladder, SaidInv
  <2>5. ASSUME NEW t \in Ticker PROVE HitInv(r, t)'
    <3>0. run'[r].hit = [v \in Ticker |-> Hit(v)] /\ run'[r].pc \in {"idle", "news"}
      BY <1>1, RunSteps
    <3>1. week' = week /\ run'[r].hit[t] = Hit(t) /\ run'[r].pc \in {"idle", "news"}
      BY <1>1, <3>0 DEF Filter
    <3>2. Hit(t) # 0 => row'[t] = row[t]
      BY <1>1, HitFacts DEF Filter
    <3> QED BY <3>1, <3>2, HitFacts DEF HitInv
  <2>6. \A q \in Runner, t \in Ticker : HitInv(q, t)'
    BY <2>2, <2>5 DEF HitInv
  <2> QED BY <2>3, <2>4, <2>6 DEF Ladder
<1>2. ASSUME NEW r \in Runner,
             GetNews(r) \/ Triage(r) \/ Persist(r) \/ RunFails(r) \/ Send(r) \/ SendFails(r)
      PROVE  Ladder'
  <2>1. Ladder /\ overlapped' = overlapped /\ week' = week /\ run[r].pc # "idle"
    BY <1>2, NewsShape, TriageShape DEF Persist, RunFails, Send, SendFails, LadderInv, Ladder
  <2>2. \A q \in Runner : q # r => run'[q] = run[q]
    BY <1>2, RunSteps
  <2>3. OneAtATime' /\ \A q \in Runner : q # r => run'[q].pc = "idle"
    BY <2>1, <2>2, OthersIdle DEF Ladder
  <2>4. SUFFICES ASSUME NEW t \in Ticker PROVE SaidInv(t)' /\ HitInv(r, t)'
    BY <2>3 DEF Ladder, HitInv
  <2>5. SaidInv(t) /\ HitInv(r, t)
    BY <2>1 DEF Ladder
  <2>6. CASE GetNews(r) \/ Triage(r)
    <3>1. row' = row /\ said' = said /\ run[r].pc \in {"news", "search", "asked"}
      BY <2>6, NewsShape, TriageShape
    <3>2. /\ run'[r].pc \in {"news", "search", "asked", "persist"}
          /\ run'[r].hit = run[r].hit
      BY <2>6, RunSteps
    <3> QED BY <2>1, <2>5, <3>1, <3>2 DEF SaidInv, HitInv
  <2>7. CASE Persist(r)
    <3>1. run'[r].pc = "send" /\ run'[r].hit = run[r].hit /\ run[r].pc = "persist"
      BY <2>7, RunSteps DEF Persist
    <3>2. CASE run[r].hit[t] = 0
      <4>1. row'[t] = row[t] /\ said'[t] = said[t]
        BY <2>7, <3>2 DEF Persist
      <4> QED BY <2>1, <2>5, <3>1, <3>2, <4>1 DEF SaidInv, HitInv
    <3>3. CASE run[r].hit[t] # 0
      <4> DEFINE n == run[r].hit[t]
      <4>1. row'[t] = [tier |-> Size(n), dir |-> Sign(n), week |-> week]
        BY <2>7, <3>3 DEF Persist
      <4>2. said'[t] = IF row[t].dir # Sign(n) THEN {} ELSE said[t]
        BY <2>7, <3>3 DEF Persist
      <4>3. ASSUME NEW m \in said'[t]
            PROVE  Sign(m) = Sign(n) /\ Size(m) < Size(n)
        <5>1. m \in said[t] /\ row[t].dir = Sign(n)
          BY <4>2, <4>3
        <5>2. row[t].week = week /\ row[t].dir = Sign(m) /\ Size(m) <= row[t].tier
          BY <2>5, <5>1 DEF SaidInv
        <5>3. row[t].tier < Size(n)
          BY <2>5, <3>1, <3>3, <5>1, <5>2 DEF HitInv
        <5>4. Size(m) \in Int /\ Size(n) \in Int /\ row[t].tier \in Int
          BY <1>t, <5>1, SignSize
        <5> QED BY <5>1, <5>2, <5>3, <5>4
      <4>4. \A m \in said'[t] : Size(m) <= Size(n)
        <5>1. \A m \in said'[t] : Size(m) \in Int
          BY <1>t, <4>2, SignSize
        <5>2. Size(n) \in Int
          BY <1>t, SignSize
        <5> QED BY <4>3, <5>1, <5>2
      <4> HIDE DEF n
      <4>5. SaidInv(t)'
        BY <2>1, <4>1, <4>3, <4>4 DEF SaidInv
      <4>6. HitInv(r, t)'
        BY <2>1, <3>1, <4>1, <4>3 DEF HitInv, n
      <4> QED BY <4>5, <4>6
    <3> QED BY <3>2, <3>3
  <2>8. CASE RunFails(r) \/ SendFails(r)
    <3>1. row' = row /\ said' = said
      BY <2>8 DEF RunFails, SendFails
    <3>2. run'[r].pc = "idle"
      BY <2>8, RunSteps, IdleType
    <3> QED BY <2>1, <2>5, <3>1, <3>2 DEF SaidInv, HitInv
  <2>9. CASE Send(r)
    <3> DEFINE n == run[r].hit[t]
    <3>1. row' = row /\ run[r].pc = "send" /\ said'[t] = IF n = 0 THEN said[t] ELSE said[t] \cup {n}
      BY <2>9 DEF Send
    <3>2. run'[r].pc = "idle"
      BY <2>9, RunSteps, IdleType
    <3>3. n # 0 => row[t].tier = Size(n) /\ row[t].dir = Sign(n) /\ row[t].week = week
      BY <2>5, <3>1 DEF HitInv
    <3>4. Size(n) \in Int
      BY <1>t, SignSize
    <3>5. SaidInv(t)'
      BY <2>1, <2>5, <3>1, <3>3, <3>4 DEF SaidInv
    <3> QED BY <3>2, <3>5 DEF HitInv
  <2> QED BY <1>2, <2>6, <2>7, <2>8, <2>9
<1>3. ASSUME NEW u \in Ticker, PriceMoves(u) PROVE Ladder'
  BY <1>3 DEF PriceMoves, LadderInv, Ladder, OneAtATime, SaidInv, HitInv
<1>4. CASE NewWeek
  <2>1. \A r \in Runner : run'[r].pc = "idle"
    BY <1>4 DEF NewWeek
  <2>2. \A t \in Ticker : said'[t] = {}
    BY <1>4 DEF NewWeek
  <2> QED BY <2>1, <2>2 DEF Ladder, OneAtATime, SaidInv, HitInv
<1>5. CASE UNCHANGED vars
  BY <1>5 DEF vars, LadderInv, Ladder, OneAtATime, SaidInv, HitInv
<1> QED BY <1>1, <1>2, <1>3, <1>4, <1>5 DEF Next

\* The ladder holds in every state the job reaches: what has been announced is
\* on record, and a run under way is about to announce more.
THEOREM LadderHolds == Spec => []LadderInv
BY TypesHold, InitAll, NextLadder, PTL DEF Spec

\* As long as runs do not overlap no e-mail repeats a tier, whichever sessions
\* and e-mails fail in between.
THEOREM NoTierTwice == Spec => AnnouncedOnce
<1>1. TypeOK /\ LadderInv /\ [Next]_vars =>
        [\A r \in Runner, t \in Ticker :
           Send(r) /\ ~overlapped /\ run[r].hit[t] # 0 => run[r].hit[t] \notin said[t]]_vars
  <2> SUFFICES ASSUME TypeOK, LadderInv, NEW r \in Runner, NEW t \in Ticker,
                      Send(r), ~overlapped, run[r].hit[t] # 0, run[r].hit[t] \in said[t]
               PROVE  FALSE
    OBVIOUS
  <2>1. run[r].pc = "send"
    BY DEF Send
  <2>2. Size(run[r].hit[t]) < Size(run[r].hit[t])
    BY <2>1 DEF LadderInv, HitInv
  <2>3. Size(run[r].hit[t]) \in Int
    BY SignSize DEF TypeOK
  <2> QED BY <2>2, <2>3
<1> QED BY <1>1, TypesHold, LadderHolds, PTL DEF Spec, AnnouncedOnce

=============================================================================

-------------------------- MODULE SuggestionReview --------------------------
(***************************************************************************)
(* The weekly suggestions of one broker account: drafts sized and anchored *)
(* from the gaps, the review graph (context_adjust, reason, critic,        *)
(* revise, finalize), the rows it writes and the owner who answers them    *)
(* meanwhile.  A run may be repeated in the same week, by the scheduler or *)
(* through POST /admin/run-weekly-suggestions.                             *)
(*                                                                         *)
(* Money is in ticks, some of them to the cent, as levels and closes are   *)
(* finer than the limits; size factors are in quarters.  What the LLM      *)
(* answers is arbitrary within its schema: so is the confidence of a       *)
(* level, hence which level in reach select_anchor picks.  A rationale is  *)
(* the ticker and side of the draft under whose number the LLM filed it,   *)
(* whatever its words speak of, and the values of a row are the number of  *)
(* the run that wrote them; a draft's anchor is left out beside its limit. *)
(***************************************************************************)
EXTENDS Integers, Sequences, FiniteSets, FiniteSetsExt, SequencesExt

CONSTANTS
    GapOrder,      \* the target tickers, largest gap first
    Level,         \* methods of support and resistance levels
    LevelType,     \* [Level -> {"support", "resistance"}]
    LevelPrice,    \* [Level -> Nat]
    HalfCent,      \* ticks to half a cent
    Close,         \* the last close of every ticker
    KnownSet,      \* sets of tickers whose close the review graph may find
    Gap,           \* the gaps a ticker may have: usd, band status, room to the band
    Cash,          \* the cash balances the snapshot may find
    CashFloor,
    MaxDistance,   \* max_distance_pct
    Fraction,      \* sentiment times confidence of a top-up, in quarters
    Multiplier,    \* size multipliers the LLM may ask for, in quarters
    SizeMin, SizeMax,  \* context_size_min, context_size_max, in quarters
    CriticQty,     \* quantities the critic may ask for
    CriticPrice,   \* limits the critic may ask for
    ScoredSet,     \* sets of levels that may be scored, in memory or in the table
    Runner,        \* threads that may run the job
    MaxRuns,       \* bound on the runs of the week
    None

Ticker == Range(GapOrder)
Key    == Ticker \X {"buy", "sell"}
Band   == {"under", "in_band", "over"}

ASSUME ReviewAssumption ==
    /\ GapOrder \in Seq(Range(GapOrder)) /\ IsInjective(GapOrder)
    /\ LevelType \in [Level -> {"support", "resistance"}]
    /\ LevelPrice \in [Level -> Nat \ {0}]
    /\ HalfCent \in Nat \ {0} /\ KnownSet \subseteq SUBSET Ticker
    /\ Close \in Nat \ {0} /\ Cash \subseteq Nat /\ CashFloor \in Nat /\ MaxDistance \in Nat
    /\ \A g \in Gap : g.usd \in Int /\ g.band \in Band /\ g.room \in Int
    /\ Fraction \subseteq 0 .. 4 /\ Multiplier \subseteq Nat
    /\ CriticQty \subseteq Nat /\ CriticPrice \subseteq Nat
    /\ SizeMin \in Nat /\ SizeMax \in Nat /\ SizeMin <= SizeMax
    /\ ScoredSet \subseteq SUBSET Level
    /\ MaxRuns \in Nat
    /\ None \notin Level

VARIABLES
    rows,   \* order_suggestion of the week: status, the run that wrote it, llm_rationale
    run,    \* each runner's state of the review graph
    runs    \* how many runs have begun

vars == <<rows, run, runs>>

Status == {"absent", "pending", "accepted", "rejected"}
NoRow  == [status |-> "absent", by |-> 0, text |-> None]
NoContext == [scored |-> [t \in Ticker |-> {}], known |-> Ticker, earnings |-> {},
              narrative |-> FALSE]
Idle   == [pc |-> "idle", id |-> 0, cash |-> 0, drafts |-> <<>>, texts |-> <<>>,
           ctx |-> NoContext, first |-> 0, seen |-> "absent"]

KeyOf(d) == <<d.ticker, d.side>>

Init ==
    /\ rows = [k \in Key |-> NoRow]
    /\ run = [r \in Runner |-> Idle]
    /\ runs = 0

----------------------------------------------------------------------------
\* Prices.

Cent == 2 * HalfCent

\* round(price, 2), of a price halfway up; _floor2dp and _ceil2dp.
Rounded(price)   == ((price + HalfCent) \div Cent) * Cent
FloorCent(price) == (price \div Cent) * Cent
CeilCent(price)  == ((price + Cent - 1) \div Cent) * Cent

\* The limit the graph takes from a level.
Reanchored(side, price) == IF side = "buy" THEN FloorCent(price) ELSE CeilCent(price)

----------------------------------------------------------------------------
\* Levels and anchors.

Distance(l) == IF LevelPrice[l] < Close THEN Close - LevelPrice[l] ELSE LevelPrice[l] - Close

InReach(l) == 100 * Distance(l) <= MaxDistance * Close

\* The level type a side trades at, and the side of the market it lies on.
TypeFor(side) == IF side = "buy" THEN "support" ELSE "resistance"
OnItsSide(side, price) == IF side = "buy" THEN price <= Close ELSE price >= Close

\* build_nearby_levels: the levels of a type beyond the close, up to half of it away.
Nearby(side) ==
    {l \in Level : /\ LevelType[l] = TypeFor(side)
                   /\ LevelPrice[l] # Close /\ OnItsSide(side, LevelPrice[l])
                   /\ 2 * Distance(l) <= Close}

Nearest(S) == {l \in S : \A k \in S : Distance(l) <= Distance(k)}

SelectAnchor(S) == {l \in S : InReach(l)}

\* The anchors a draft may get: a scored level on its side that is in reach,
\* else the nearest computed one if that is in reach.  A support that was
\* closed through lately is broken and counts for neither.
Anchors(side, scored, broken) ==
    LET ok   == IF side = "buy" THEN Level \ broken ELSE Level
        best == SelectAnchor({l \in scored \cap ok : /\ LevelType[l] = TypeFor(side)
                                                     /\ OnItsSide(side, LevelPrice[l])})
    IN  IF best # {} THEN best ELSE SelectAnchor(Nearest(Nearby(side) \cap ok))

----------------------------------------------------------------------------
\* Drafts.

SideOf(gap) == IF gap.usd > 0 THEN "buy" ELSE "sell"
Size(n)     == IF n < 0 THEN -n ELSE n

\* What the buys of ds cost at so much less than their limits.
Buys(ds) == {i \in DOMAIN ds : ds[i].side = "buy"}
Spent(ds, less) ==
    SumFunctionOnSet([i \in DOMAIN ds |-> ds[i].qty * (ds[i].limit - less)], Buys(ds))

Shares(usd, price) == usd \div price

\* Half of the gap in whole shares at the anchor's price, which is then rounded.
Regular(t, gap, l) ==
    [ticker |-> t, side |-> SideOf(gap), kind |-> "regular",
     qty |-> Shares(Size(gap.usd) \div 2, LevelPrice[l]), limit |-> Rounded(LevelPrice[l])]

\* The drafts so far and the cash left, and the draft of t, if t is outside its
\* band and has an anchor; a buy only if it leaves the floor, at the price before
\* rounding.
AddRegular(acc, t, gap, anchor) ==
    LET d    == Regular(t, gap[t], anchor[t])
        cost == IF d.side = "buy" THEN d.qty * LevelPrice[anchor[t]] ELSE 0
    IN  IF /\ gap[t].band # "in_band" /\ anchor[t] # None
           /\ gap[t].usd > 0 \/ gap[t].band = "over"
           /\ d.qty >= 1
           /\ d.side = "buy" => cost <= acc.cash - CashFloor
        THEN [drafts |-> Append(acc.drafts, d), cash |-> acc.cash - cost] ELSE acc

\* The tickers are taken by the size of their gaps.
GenerateSuggestions(gap, anchor, cash) ==
    LET after[n \in 0 .. Len(GapOrder)] ==
          IF n = 0 THEN [drafts |-> <<>>, cash |-> cash]
          ELSE AddRegular(after[n - 1], GapOrder[n], gap, anchor)
    IN  after[Len(GapOrder)].drafts

\* A mutant of TopupBudget: the regular buys are forgotten.
TopupBudgetWhole(cash, drafts) == cash

\* The cash top-ups may draw on: what the regular buys leave at their limits.
TopupBudget(cash, drafts) == cash - Spent(drafts, 0)

\* A mutant of Eligible: a ticker may have a top-up besides its regular buy.
EligibleTwice(t, gap, anchor, drafts) == gap[t].usd > 0 /\ anchor[t] # None

Eligible(t, gap, anchor, drafts) ==
    /\ gap[t].usd > 0 /\ anchor[t] # None
    /\ <<t, "buy">> \notin {KeyOf(drafts[i]) : i \in DOMAIN drafts}

\* The top-ups so far and the cash left, and the top-up of t: the gap to the
\* target in whole shares, at least one, scaled by sentiment and confidence,
\* capped by the band and by what is left of the cash.
AddTopup(acc, t, gap, anchor, drafts, fraction) ==
    LET price == LevelPrice[anchor[t]]
        base  == Max({1, Shares(gap[t].usd, price)})
        qty   == Min({Max({1, (base * fraction) \div 4}), Shares(gap[t].room, price),
                      Shares(acc.cash - CashFloor, price)})
    IN  IF Eligible(t, gap, anchor, drafts) /\ qty >= 1
        THEN [drafts |-> Append(acc.drafts, [ticker |-> t, side |-> "buy", kind |-> "topup",
                                             qty |-> qty, limit |-> Rounded(price)]),
              cash |-> acc.cash - qty * price]
        ELSE acc

GenerateTopups(gap, anchor, cash, drafts, fraction) ==
    LET after[n \in 0 .. Len(GapOrder)] ==
          IF n = 0 THEN [drafts |-> <<>>, cash |-> TopupBudget(cash, drafts)]
          ELSE AddTopup(after[n - 1], GapOrder[n], gap, anchor, drafts, fraction)
    IN  after[Len(GapOrder)].drafts

\* A support the latest closes went through is broken; any of them may be.
BrokenSets == SUBSET Nearby("buy")

\* The rationales stored by earlier runs of the week, at the positions of the
\* drafts with their ticker and side.
CachedTexts(ds) ==
    LET known == {i \in DOMAIN ds : rows[KeyOf(ds[i])].text # None}
    IN  [i \in known |-> rows[KeyOf(ds[i])].text]

\* A run scores the levels, takes a snapshot, drafts orders and top-ups, and
\* picks up the rationales that earlier runs of the week have stored.
Draft(r) ==
    /\ run[r].pc = "idle"
    /\ runs < MaxRuns
    /\ runs' = runs + 1
    /\ \E gap \in [Ticker -> Gap], cash \in Cash, fraction \in Fraction,
          scored \in [Ticker -> ScoredSet], broken \in BrokenSets :
         \E anchor \in [Ticker -> Level \cup {None}] :
           /\ \A t \in Ticker :
                LET A == Anchors(SideOf(gap[t]), scored[t], broken)
                IN  IF A = {} THEN anchor[t] = None ELSE anchor[t] \in A
           /\ LET drafts == GenerateSuggestions(gap, anchor, cash)
                  all    == drafts \o GenerateTopups(gap, anchor, cash, drafts, fraction)
              IN  run' = [run EXCEPT ![r] =
                    [Idle EXCEPT !.pc = "gather", !.id = runs + 1, !.cash = cash,
                       !.drafts = all, !.texts = CachedTexts(all)]]
    /\ UNCHANGED rows

----------------------------------------------------------------------------
\* The nodes of the review graph.

\* The levels of the table with a confidence: each ticker's latest scored set,
\* which need not be the one this run has scored.
LatestScored == [Ticker -> ScoredSet]

\* gather_context_node: the scored levels of the table, the closes, the earnings
\* and, if there is one, the market context of the week.
GatherContext(r) ==
    /\ run[r].pc = "gather"
    /\ \E scored \in LatestScored, known \in KnownSet,
          earnings \in SUBSET Ticker, narrative \in BOOLEAN :
         run' = [run EXCEPT ![r].pc = "adjust", ![r].cash = 0,
                   ![r].ctx = [scored |-> scored, known |-> known, earnings |-> earnings,
                               narrative |-> narrative]]
    /\ UNCHANGED <<rows, runs>>

\* The nearest scored level beyond the limit.
DeeperAnchor(d, scored) ==
    Nearest({l \in scored : /\ LevelType[l] = TypeFor(d.side)
                            /\ IF d.side = "buy" THEN LevelPrice[l] < d.limit
                                                 ELSE LevelPrice[l] > d.limit})

\* A mutant of FindLevel: only method and type are compared.
FindLevelByMethod(side, method, scored, isKnown) ==
    {l \in scored : l = method /\ LevelType[l] = TypeFor(side)}

\* The level the LLM prefers, if it is scored, of the right type and, when the
\* close is known, on the right side of the market and in reach.
FindLevel(side, method, scored, isKnown) ==
    {l \in scored : /\ l = method /\ LevelType[l] = TypeFor(side)
                    /\ isKnown => OnItsSide(side, LevelPrice[l]) /\ InReach(l)}

Clamp(m) == Max({SizeMin, Min({SizeMax, m})})

NoAdvice == [mult |-> 4, prefer |-> None]
Advice(ctx) ==
    {NoAdvice} \cup IF ctx.narrative THEN [mult : Multiplier, prefer : Level \cup {None}] ELSE {}

\* What context_adjust_node makes of a draft: earnings halve it and move it to
\* a deeper level, the advice of the LLM scales it within the bounds and may
\* name a level; top-ups are exempt.
Adjusted(d, ctx, advice) ==
    LET reports == d.ticker \in ctx.earnings
        deeper  == IF reports THEN DeeperAnchor(d, ctx.scored[d.ticker]) ELSE {}
        wanted  == FindLevel(d.side, advice.prefer, ctx.scored[d.ticker], d.ticker \in ctx.known)
        anchor  == IF deeper # {} THEN deeper ELSE wanted
        nf      == IF advice = NoAdvice THEN 4 ELSE Clamp(advice.mult)
        qty     == (d.qty * nf * (IF reports THEN 1 ELSE 2)) \div 8
    IN  IF d.kind = "topup" THEN d
        ELSE IF anchor = {} THEN [d EXCEPT !.qty = qty]
        ELSE LET l == CHOOSE l \in anchor : TRUE
             IN  [d EXCEPT !.qty = qty, !.limit = Reanchored(d.side, LevelPrice[l])]

\* A mutant of Rekeyed: a rationale stays at its position.
RekeyedByPosition(texts, kept) == [j \in DOMAIN texts \cap DOMAIN kept |-> texts[j]]

\* The rationales of the drafts that are kept, at their new positions; kept
\* lists the old ones.
Rekeyed(texts, kept) == [j \in {j \in DOMAIN kept : kept[j] \in DOMAIN texts} |-> texts[kept[j]]]

\* The positions S in their order.
Positions(S) ==
    {p \in [1 .. Cardinality(S) -> S] : \A i, j \in DOMAIN p : i < j => p[i] < p[j]}

\* A mutant of Tradable: a draft of no share is kept.
TradableAny(d) == TRUE

Tradable(d) == d.qty >= 1

\* context_adjust_node: drafts of less than a share are dropped.
ContextAdjust(r) ==
    LET ds == run[r].drafts
    IN  /\ run[r].pc = "adjust"
        /\ \E advice \in [DOMAIN ds -> Advice(run[r].ctx)] :
             LET new == [i \in DOMAIN ds |-> Adjusted(ds[i], run[r].ctx, advice[i])]
             IN  \E kept \in Positions({i \in DOMAIN ds : Tradable(new[i])}) :
                   run' = [run EXCEPT ![r].pc = "reason",
                             ![r].drafts = [j \in DOMAIN kept |-> new[kept[j]]],
                             ![r].texts = Rekeyed(run[r].texts, kept),
                             ![r].ctx = [@ EXCEPT !.earnings = {}, !.narrative = FALSE]]
        /\ UNCHANGED <<rows, runs>>

\* A rationale filed under a number that no draft has.
Stray == <<None, None>>

\* reason_node asks for the rationales that are missing.  The answer may file one
\* under any number, cached ones and numbers beyond the last draft included.
Reason(r) ==
    LET ds == run[r].drafts
        ts == run[r].texts
    IN  /\ run[r].pc = "reason"
        /\ \E written \in SUBSET (1 .. Len(ds) + 1) :
             /\ DOMAIN ds \subseteq DOMAIN ts => written = {}
             /\ run' = [run EXCEPT ![r].pc = "critic",
                          ![r].texts = [i \in DOMAIN ts \cup written |->
                                          IF i \notin written THEN ts[i]
                                          ELSE IF i \in DOMAIN ds THEN KeyOf(ds[i]) ELSE Stray]]
        /\ UNCHANGED <<rows, runs>>

\* What _apply_changes may make of a draft: the price of a scored level, as the
\* anchor the critic names, or a limit within a cent of one, and a quantity.
\* Changes it finds invalid leave the draft as it is.
ApplyChanges(d, scored) ==
    LET beside == {p \in CriticPrice : \E l \in scored : LevelPrice[l] \in p - Cent .. p + Cent}
        placed == {d} \cup {[d EXCEPT !.limit = p] : p \in beside \cup {LevelPrice[l] : l \in scored}}
    IN  placed \cup {[p EXCEPT !.qty = q] : p \in placed, q \in {q \in CriticQty : q >= 1}}

\* What revise_node may make of the drafts at the positions kept.
Revisions(ds, kept, scored) ==
    LET of(j) == ApplyChanges(ds[kept[j]], scored[ds[kept[j]].ticker])
    IN  {f \in [DOMAIN kept -> UNION {of(j) : j \in DOMAIN kept}] :
           \A j \in DOMAIN kept : f[j] \in of(j)}

\* critic_node: each draft is kept, rejected or changed.
Critic(r) ==
    LET ds == run[r].drafts
    IN  /\ run[r].pc = "critic"
        /\ \E reject \in SUBSET DOMAIN ds :
             \E kept \in Positions(DOMAIN ds \ reject) :
               \E finals \in Revisions(ds, kept, run[r].ctx.scored) :
                   run' = [run EXCEPT ![r].pc = "finalize", ![r].drafts = finals,
                                      ![r].texts = Rekeyed(run[r].texts, kept),
                                      ![r].ctx = NoContext]
        /\ UNCHANGED <<rows, runs>>

\* Without a rejection or a change the drafts go through, and the rationales too.
SkipRevise(r) ==
    /\ run[r].pc = "critic"
    /\ run' = [run EXCEPT ![r].pc = "finalize", ![r].ctx = NoContext]
    /\ UNCHANGED <<rows, runs>>

----------------------------------------------------------------------------
\* Persisting, e-mail, answers.

\* A mutant of Open: answered rows are written too.
OpenAny(status) == TRUE

\* The rows persist_suggestions writes: new ones and pending ones.
Open(status) == status \in {"absent", "pending"}

\* finalize_node reads the rows in order.  The first one it will write is still
\* read without SQLite's write lock; the lock is taken before the next read.
FinalizeRead(r) ==
    LET ds   == run[r].drafts
        open == {i \in DOMAIN ds : Open(rows[KeyOf(ds[i])].status)}
        i    == IF open = {} THEN 0 ELSE Min(open)
    IN  /\ run[r].pc = "finalize"
        /\ run' = [run EXCEPT ![r].pc = "write", ![r].first = i,
                     ![r].seen = IF i = 0 THEN "absent" ELSE rows[KeyOf(ds[i])].status]
        /\ UNCHANGED <<rows, runs>>

Written(r) ==
    {i \in DOMAIN run[r].drafts :
       run[r].first > 0 /\ (i = run[r].first \/
         (i > run[r].first /\ Open(rows[KeyOf(run[r].drafts[i])].status)))}

\* The rows are written and committed.  A row another run has inserted since it
\* was read violates the unique constraint.
FinalizeWrite(r) ==
    LET ds == run[r].drafts
        ts == run[r].texts
        first == KeyOf(ds[run[r].first])
    IN  /\ run[r].pc = "write"
        /\ run[r].first > 0 /\ run[r].seen = "absent" => rows[first].status = "absent"
        /\ rows' = [k \in Key |->
             LET W == {i \in Written(r) : KeyOf(ds[i]) = k}
                 i == Max(W)
             IN  IF W = {} THEN rows[k]
                 ELSE [status |-> IF rows[k].status = "absent" THEN "pending" ELSE rows[k].status,
                       by     |-> run[r].id,
                       text   |-> IF i \in DOMAIN ts THEN ts[i] ELSE rows[k].text]]
        /\ run' = [run EXCEPT ![r] = [Idle EXCEPT !.pc = "mail"]]
        /\ UNCHANGED runs

\* The stored rows are read again and sent; a failure to send ends the run too.
Mail(r) ==
    /\ run[r].pc = "mail"
    /\ run' = [run EXCEPT ![r] = Idle]
    /\ UNCHANGED <<rows, runs>>

\* An exception (an LLM call that fails or finds the daily cap reached, a lock
\* that is not to be had, a violated constraint) ends the account's run with
\* nothing written.
RunFails(r) ==
    /\ run[r].pc \notin {"idle", "mail"}
    /\ run' = [run EXCEPT ![r] = Idle]
    /\ UNCHANGED <<rows, runs>>

\* The owner follows a link of an e-mail or uses the API.
Answer(k) ==
    /\ rows[k].status = "pending"
    /\ \E answer \in {"accepted", "rejected"} : rows' = [rows EXCEPT ![k].status = answer]
    /\ UNCHANGED <<run, runs>>

Next ==
    \/ \E r \in Runner :
         \/ Draft(r) \/ GatherContext(r) \/ ContextAdjust(r) \/ Reason(r) \/ Critic(r)
         \/ SkipRevise(r) \/ FinalizeRead(r) \/ FinalizeWrite(r) \/ Mail(r) \/ RunFails(r)
    \/ \E k \in Key : Answer(k)

Spec == Init /\ [][Next]_vars

----------------------------------------------------------------------------

DraftType == [ticker : Ticker, side : {"buy", "sell"}, kind : {"regular", "topup"},
              qty : Nat \ {0}, limit : Nat]

TypeOK ==
    /\ rows \in [Key -> [status : Status, by : 0 .. MaxRuns, text : Key \cup {None}]]
    /\ runs \in 0 .. MaxRuns
    /\ \A r \in Runner :
         /\ run[r].id \in 0 .. runs /\ run[r].cash \in Cash \cup {0}
         /\ run[r].drafts \in Seq(DraftType)
         /\ DOMAIN run[r].texts \subseteq Nat
         /\ run[r].first \in {0} \cup DOMAIN run[r].drafts

\* The llm_rationale of a row was filed for the row's own ticker and side, by this
\* run or an earlier one, however many drafts context_adjust dropped and the
\* critic rejected in front of it, and one filed under a number without a draft
\* reaches no row: texts are paired with rows by position (finalize_node), so each
\* step that drops a draft must re-key them.
TextOfItsRow == \A k \in Key : rows[k].text \in {None, k}

\* A row the owner has answered keeps its values and its rationale through all
\* later runs of the week; only a run that read it while it was pending, as the
\* first row it writes, can still overwrite it.
AnsweredRowFrozen ==
    [][\A k \in Key :
         \/ rows[k].status \in {"absent", "pending"}
         \/ rows'[k] = rows[k]
         \/ \E r \in Runner : /\ run[r].pc = "write" /\ run[r].first > 0
                              /\ KeyOf(run[r].drafts[run[r].first]) = k]_vars

\* The drafts of a run, top-ups included, leave the cash floor untouched but for
\* half a cent a share: all buys together, bought at their limits.  The floor is
\* checked with the prices of the anchors, which round(price, 2) may raise
\* (generate_suggestions, then the top-ups from what these leave).
DraftsWithinFloor ==
    \A r \in Runner : run[r].pc = "gather" /\ Buys(run[r].drafts) # {} =>
      Spent(run[r].drafts, HalfCent) <= run[r].cash - CashFloor

\* A run has one draft at most for a ticker and side, whatever became of the
\* others: two of them would be written to one row, one over the other.
OneDraftPerOrder ==
    \A r \in Runner : \A i, j \in DOMAIN run[r].drafts :
      KeyOf(run[r].drafts[i]) = KeyOf(run[r].drafts[j]) => i = j

\* The limit is on its side of the market up to the half cent of rounding.
NearItsSide(side, limit) ==
    IF side = "buy" THEN limit - HalfCent <= Close ELSE limit + HalfCent >= Close

\* Until the critic has seen them, buys stay at or below the market and sells at
\* or above it but for half a cent, through the anchor's choice and rounding, the
\* earnings re-anchor and the levels the LLM prefers, which come from another
\* table of levels; not so where the graph knows no close (_find_level).
LimitOnItsSide ==
    \A r \in Runner : run[r].pc \in {"gather", "adjust", "reason", "critic"} =>
      \A d \in Range(run[r].drafts) :
        d.ticker \in run[r].ctx.known => NearItsSide(d.side, d.limit)

----------------------------------------------------------------------------
\* What every step keeps: the properties above hold of the drafts of a run while
\* it is under way, and its rationales lie beside the drafts they were written
\* for.

Sound(x) ==
    /\ x.first \in {0} \cup DOMAIN x.drafts
    /\ x.first # 0 => x.pc = "write"
    /\ \A i \in DOMAIN x.texts \cap DOMAIN x.drafts : x.texts[i] = KeyOf(x.drafts[i])
    /\ \A i, j \in DOMAIN x.drafts : KeyOf(x.drafts[i]) = KeyOf(x.drafts[j]) => i = j
    /\ x.pc \in {"gather", "adjust", "reason", "critic"} =>
         \A i \in DOMAIN x.drafts : x.drafts[i].ticker \in x.ctx.known =>
           NearItsSide(x.drafts[i].side, x.drafts[i].limit)
    /\ x.pc = "gather" => x.ctx = NoContext
    /\ x.pc = "gather" /\ Buys(x.drafts) # {} =>
         Spent(x.drafts, HalfCent) <= x.cash - CashFloor

ReviewInv == TextOfItsRow /\ \A r \in Runner : Sound(run[r])

=============================================================================

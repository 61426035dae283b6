# A TLA+ model of the investor assistant

The program compares a broker account with a target allocation, suggests limit
orders once a week, lets the owner accept or reject them, and, when auto-trade is
on, places the accepted ones, watches them and records their fills. The modules
here model the parts of it where money and concurrency meet: the weekly drafting
and review of suggestions, the broker orders placed for them and the rows that
record those orders, the account rows and the cash they show, the shared LLM
client and its daily budget, and the alerts on movers.

All paths below are relative to `src/src/investor/`.

## Inventory

| Component | State | Operations | What makes it correct |
|---|---|---|---|
| Auto-trade pass: `services/auto_trade.py`, `jobs/auto_trade.py` | `order_execution`, `auto_trade_state`, the broker's orders | `run_auto_trade_pass` (from cron and from `POST /admin/run-auto-trade`) | one working order per suggestion and per ticker, every order found again after a crash |
| Kill switch and modes: `services/auto_trade.py`, `main.py` | `auto_trade_state.mode`, `kill_switch_log` | `_trigger_kill_switch`, promote, emergency-stop | a stop leaves only the passes under way; a simulation touches nothing |
| Cancel and un-accept: `services/orders.py`, `services/unaccept.py` | rows and suggestions | `cancel_working_execution`, `unaccept_suggestion` | a row says cancelled only if a cancel was accepted |
| Suggestions: `services/suggest.py`, `main.py` | `order_suggestion` | persist, accept, reject (PATCH and magic link) | an answer is not overwritten; sizes respect cash and gap |
| Expiry sweep: `jobs/suggestion_expiry.py` | rows and suggestions | `sweep_expired_suggestions` | every stale suggestion is closed and its order cancelled |
| Admin endpoints: `main.py` | all of the above | cancel-all-orders, reset-week-suggestions | no order survives without a mandate |
| Target loader: `services/targets.py` | versioned `target`, `order_suggestion` | `load_targets_into_db` | one active version; orders of removed tickers are cancelled |
| Reconciliation: `services/reconciliation.py`, `jobs/reconciliation.py` | rows, suggestions, the last-run meta row | window, match, persist, sync, infer cancels | every fill is recorded, once, on the right suggestion |
| Sessions: `db.py`, `models.py` | SQLite | `session_scope`, pragmas, unique constraints | a handler's writes appear together or not at all |
| Broker adapters: `brokers/*` | none; the registry caches adapters | get, cancel, submit, activities, list | an open `client_order_id` is returned, not duplicated |
| Scheduler: `scheduler.py` | APScheduler's jobs | cron triggers | every job runs on its days, not twice at once |
| Accounts and sync: `services/accounts.py`, `services/snapshot.py`, `jobs/sync.py`, `brokers/__init__.py` | close-and-insert rows of `broker_account`, `positions_snapshot`, the adapter registry | sync, onboard, soft-delete, restart | one open row per account; a deleted account stays deleted; closed positions disappear, whichever sync writes last |
| Funds detection: `services/funds.py`, `jobs/funds_detection.py` | `funds_event` | compare two account rows and the fills between | a transfer is reported with its amount, once |
| Weekly job, review graph, sizing: `jobs/weekly_suggestions.py`, `graphs/suggestion_review.py`, `services/suggest.py` | the graph's state, `order_suggestion` | score, draft, top up, adjust, reason, criticise, revise, finalize | drafts within the cash; limits on their side of the market; a rationale stays with its row |
| LLM client and level scoring: `services/llm.py`, `services/llm_levels.py` | daily spend, `sr_level` scores | checked calls with retry, parallel scoring | the cap is exceeded by a bounded amount only; every task ends |
| Movers, news: `jobs/movers.py`, `services/news.py`, `graphs/news_triage.py`, `services/tavily.py` | `mover_state`, `news_event`, the Tavily counter | filter, gather, triage, persist, send | a tier is announced once, again after a flip, a recovery or a new week; the search cap is exceeded by a bounded amount only |
| Levels, indicators, reports, charts, e-mail, backup, analytics, `safety.py` | none of their own | computation, rendering, I/O | not a subject of these modules |

How they interact. There is no messaging: the parts meet in one SQLite database
and at the broker. APScheduler runs jobs in a thread pool, FastAPI runs its sync
endpoints in another, so any two handlers may overlap. A handler opens a session,
reads, calls the broker *inside* the session, and commits at the end. The first
flush takes SQLite's only write lock and keeps it; a second writer polls for it
and finally gives up with an exception. The broker executes, cancels and expires
orders on its own time and answers a cancel before the cancel has taken effect.

What is hard here, with lines, is the list `hazards` of `PROJECT.json`: passes
that overlap, an order that exists while its row was rolled back, a cancel that
loses against a fill, state read once and used for the rest of a pass, one
failing call among several, windows of time that must not leave a gap, and
things that must happen in the end.

## Modules

| Module | Models |
|---|---|
| `OrderLifecycle` | suggestions, orders, rows, mode, workers and their transactions; all handlers that touch them |
| `OrderLifecycle_proofs` | its inductive invariant and what follows from it for overlapping handlers |
| `OrderSerial_proofs` | what a stop leaves, and what holds while handlers do not overlap |
| `ReconciliationWindow` | which orders a reconciliation run asks the broker for, over time |
| `ReconciliationWindow_proofs` | its invariant and two action properties |
| `LlmBudget` | the LLM client and the threads that share it; level scoring |
| `DailyBudget` | what the daily cap promises; `LlmBudget` implements it |
| `LlmBudget_proofs` | types, the refinement, the overshoot, the cost of a day |
| `Movers` | the movers job: tiers, news, triage, commit, e-mail |
| `Movers_proofs` | its types, what is stored, the search cap, and the ladder of announced tiers |
| `SuggestionReview` | the weekly run of an account, from the gaps to the persisted rows |
| `SuggestionReview_proofs` | its safety properties, every node of the graph |
| `BrokerAccounts` | account rows, snapshots, sync, onboarding, deletion, funds detection |
| `BrokerAccounts_proofs` | exact events, positions, the identity of the account row |
| `SumTheorems` | lemmas about sums over finite sets, used by the two modules above |
| `MC...` | small instances of the six state machines |

### OrderLifecycle

State of the database: `status` (`order_suggestion.status`), `row`
(`order_execution.status` of each real order), `recent` (created within 24
hours), `cancelledAt`, `dry` (suggestions with a `dry_run` row), `mode`. At the
broker: `ord` (none, working, pending_cancel, closed) and `qty` (nothing, some or
all executed). Besides: `clock`, thirds of a week (Mon-Wed, Thu-Fri, weekend:
the points where `_next_monday`, `expires_at` and the Mon-Fri crons change their
mind); `lock`, SQLite's write lock; `tx[w]`, what worker `w` is doing and has not
committed yet.

An order is the pair `<<s, n>>` that its `client_order_id` encodes: `sug-s` for
`n = 0`, `sug-s-rn` afterwards. The name is all that keeps two passes apart, so
it is the identity in the model too.

| Action | Code |
|---|---|
| `PersistSuggestions`, `ActOnSuggestion` | `persist_suggestions`; PATCH and magic link |
| `UnacceptUnplaced`, `UnacceptPlaced` | `unaccept_suggestion` with `cancel_working_execution` |
| `CancelAllOrders`, `ResetWeekSuggestions` | the admin endpoints |
| `SweepExpiredSuggestions` | the sweep, over one account |
| `LoadTargets` | the end of `load_targets_into_db` |
| `Reconcile` | `persist_reconciliation`, `sync_open_order_statuses`, `infer_manual_cancels` in one session |
| `Promote`, `EmergencyStop` | the mode endpoints |
| `BeginPass`, `GuardSkips`, `GuardLive`, `GuardRaises`, `PlaceDryRun`, `ReAdopt`, `ChooseClientOrderId`, `SubmitOrder`, `SubmitRefused`, `SubmitError`, `RecordExecution`, `RecordConflict`, `ReadbackFails`, `TriggerKillSwitch`, `EndPass` | `run_auto_trade_pass`, one action for each stretch between two calls of the broker or two flushes |
| `Commit`, `Rollback` | the two ends of `session_scope`; `Rollback` is also a crash |
| `Execute`, `CloseAtBroker`, `NewDay`, `AdvanceClock` | the broker and the calendar (external) |

Grain. Handlers other than the pass read and call the broker in one step, and
their writes are committed in another: whatever lies between is open to the other
workers. A handler that flushes on its way takes the lock earlier than the model
does, so the model has more interleavings than the program, never fewer. The pass
is split because it talks to the broker many times while holding reads of its own.

Data left out. Prices, sizes and sides; the wash-sale, cap and cash guards are a
verdict that may fall either way (their arithmetic changes no state); e-mails,
outcome lists, audit rows. Every order is one of the pass's: the owner does not
trade by hand in the same account, so of the matching rules of
`reconcile_activities` only the first, by `client_order_id`, applies. There is
one account; the jobs treat accounts separately.

`Faults` says which calls may fail: `get` (`get_order`, `list_orders`), `cancel`,
`submit` (with or without the broker having taken the order), `readback`, and
`abort`, an exception or a crash at any point of any handler.

### ReconciliationWindow

`get_activities` selects orders by the time they were *submitted*; a run asks for
those since the last run, or since the oldest open row was *created* if that is
earlier, less an overlap, and never further back than a cap. The module keeps
both times of every order, reads the window in one step (`ReadWindow`) and
reconciles in a later one (`Reconcile`), as the job does in two sessions, and
lets runs fail (`RunFails`). `OrderLifecycle` leaves the window out and lets a
reconciliation see any set of executed orders. A unit of time is a few hours.
Time may pass between the two sessions, more of it than in practice.

### LlmBudget and DailyBudget

One client object serves the scoring pool and the graph nodes. `spent` and `day`
are its two fields, `backend` says which of the two clients it is; `pc`, `seen`,
`attempt` are each thread's place in `call`, `taken` counts the tasks begun. A call
reads the date, rolls over, checks the cap, asks with retries and pays, and CPython
may switch threads between any two of these. The agent SDK's client reads the date
again when it rolls over (`RollClears`, `ReadDateAgain`, `StoreDate`), the API's does
not (`RollOver`). A request that fails may have been billed: its answer came too late
or has no text, or its model has no rates. The client raises before it adds such a
cost, so `Retry` and `CallFails` add to `bill` and not to `spent`, and `uncounted`
says how often. `bill`, `uncounted`, `admitted` and `setBack` are history. How a
caller validates an answer and what scoring writes back to `sr_level` are left out.

`DailyBudget` is the promise without threads, retries or dates: a call is admitted
below the cap, an open call pays or fails, the counter may be cleared. The mapping
takes the open calls to be the threads in `calling`. Midnight is an action, so that a
thread may act on the date of yesterday after another has rolled over;
`DayCostBounded` counts how often that happened (`setBack`), and adds the failed
requests that the counter has missed.

### Movers

A move is counted in tiers of 5% with a sign. `row` is `mover_state`, `news` is
`news_event`, `run[r]` is what a runner has decided and not yet committed.
`Filter` includes the reset of recovered tickers (a session of its own), `FetchFeeds`
the feeds of one ticker; where they deliver little the Tavily client is asked too.
That client is one for all threads: `_search` checks the month's cap (`SearchSent`,
`SearchRefused`), waits for the answer and counts afterwards (`SearchAnswers`), and
other runners may come in between. The counter `used` is never set back; only a
restart would do that, and none is modelled. The weekly review searches through the
same client: for the cap it is one more runner. `Triage` is the three nodes of the
triage graph and the rows made of what they keep, without their verdicts on the
articles, `Persist` the commit of articles and tiers, `Send` and `SendFails` the
e-mail after it. `said` records what the owner was told since the last fresh
start. Two runs may overlap; `AnnouncedOnce` excludes histories in which they did,
because then the code does repeat itself (see the hazards).

### SuggestionReview

`rows` are the week's `order_suggestion` rows of one account: status, which run
wrote the values, and under which ticker and side the rationale was filed.
`run[r]` is the state of the graph. `Draft` is the job up to the graph: anchors
from scored or computed levels, sizes in whole shares, the cash floor, top-ups and
the rationales cached from earlier runs. `GatherContext`, `ContextAdjust`,
`Reason`, `Critic` are the nodes, `ApplyChanges` the revision of a draft,
`SkipRevise` the way past it; `FinalizeRead` and `FinalizeWrite` are `finalize_node`,
split where SQLite's write lock is taken: the first row to be written is read before
it.

The LLM may answer anything its schemas allow. In `Reason` it may file a rationale
under any number, cached ones and numbers beyond the last draft included; what the
words of a rationale speak of is not modelled, so a text filed under another draft's
number belongs, for the model as for the code, to that other draft.

Money is in ticks, `HalfCent` of them to half a cent, since levels and closes are
finer than limits. The job checks cash at the price of the anchor and rounds the
limit to the nearest cent afterwards (`Rounded`; ties go up in the model, in the code
they go as floating point has it, and both lie within the half cent that the
properties allow); the graph rounds buys down and sells up (`Reanchored`). The graph
finds the close of the tickers in a member of `KnownSet`; for the others `FindLevel`
takes a preferred level on any side, as the code does. `gap.max_dollars`, which only
makes drafts smaller, is left out.

### BrokerAccounts

Time is the number of outside events (transfers, fills, price moves, midnights),
so a fetch at time `n` shows the events up to `n` and a window of times is a set
of events. A sync is three steps: `SyncFetch` gets the account, whose time is the `ts`
of every row the sync writes; `SyncRead` gets the positions and the tickers seen
lately; `SyncWrite` writes positions, tombstones and the account row. If there is a
position row to write, its INSERT takes the write lock before the latest account row
is read (`"locked"`); without one the row is read first (`"unlocked"`), and that sync
works with what it read. `snap` is the row that readers take for the latest, the one
with the largest `ts` and not the one written last; of equal times either
(`LatestOf`). Fills reach the cash at once and `order_execution` with the next
reconciliation (`RecordFills`).

Left out: amounts are whole units, so the tolerance of a cent in
`_write_broker_account` never applies (in the code a balance may be off by that cent);
its comparison of `account_id` is always true of one account; an order fills at once,
so that one filled in parts around a sync, with a single `filled_at`, does not occur.

## Runs

`Fair` says that the run uses `FairSpec`.

| Run | Instance | Shows |
|---|---|---|
| `concurrent_pass` | one suggestion, two threads (scheduler, web), a replacement order, every fault | `AtMostOneWorking`, `WorkingOrderTracked`, `LostOrderIsNext`, `FilledMeansExecuted`, `StopFreezesOrders` |
| `serial_week` | one suggestion, every handler, one thread, a week and the next Monday, `get` fails | `NoOrderWithoutMandate`, `RecordedFillStays` |
| `replacing` | two suggestions of one ticker in two weeks, one thread | `OneWorkingPerTicker`, `DryRunNeverTouchesBroker` |
| `liveness` (Fair) | two threads and the sweep, `submit` and `readback` fail | `TransactionEnds`, `StaleSuggestionExpires`, `DeadOrderRowSettles` |
| `window` (Fair) | two orders, cap 4 within 5 units of time, every event | `WindowInv`, `NextRunRecordsFill`, `RecentFillRecorded`, `PromptFillSettles` |
| `budget` (Fair) | either backend, two threads, five tasks, a cap of 1, requests of cost at most 1, two attempts, one midnight | `OvershootBounded`, `DayCostBounded`, `EveryTaskEnds`, `BudgetKept` |
| `movers` (Fair) | one ticker, one article, two runners, two tiers either way, two weeks, a cap of one search | `WebNewsStaysOut`, `SearchesBounded`, `AnnouncedOnce`, `LadderCatchesUp` |
| `review` | two tickers, the close of one of them unknown to the graph, four levels (one a support above the market, one that rounds up), two runs of one runner | `TextOfItsRow`, `DraftsWithinFloor`, `OneDraftPerOrder`, `LimitOnItsSide`, `AnsweredRowFrozen` |
| `accounts` | one account that opens with a position and no cash, two syncing threads, three outside events, one deletion within the first of them | `EventExact`, `IdentityKept`, `PositionsFollow` |

Why these bounds. `MaxReplace = 1` is the first value with a replaced order: a
second submission, a row to re-adopt and a row that is not the latest.
`MaxClock = 3` is the first Monday after the expiry of week 0. Two threads are
what contention takes; suggestions of different tickers share nothing but the
lock and the mode. The theorems below remove these bounds: from the properties
of `concurrent_pass` without a condition, from those of `serial_week` and
`replacing` for handlers that do not overlap. The latter
are claims about the state between handlers, or about what a sequence of complete
handlers does: with overlapping handlers several of them are false, as the hazards
say, and the instances with one thread say how much holds without overlap.

In `budget` two threads are enough to have both admitted below the cap, a third
task meets the counter they leave, and a midnight between them sets it back. In
`movers` two tiers are the first with an escalation, the second week makes an old tier
stale, and with a cap of one search two runners can exceed it. In `review` two tickers
give two to three positions to re-key, the second run meets the cached rationales and
answered rows of the first, and a level half a cent above the lower cent rounds up past
the market. In `accounts` time starts at 1, the midnight before the onboarding, and
`MaxTime = 4` leaves three events: a transfer or fill, a midnight and one to spare give
a row of yesterday, a row of today and something between them; a sale and two midnights
give a position last seen before the look-back (which is scaled to one day).
`LastDelete = 2` keeps the run short: the deletion comes within the first event, and what
follows it is the end of the syncs under way, or the whole life of an account that one of
them has brought back. The
threads of `accounts` are interchangeable and its properties are not about liveness, so
the run uses their symmetry.

Each run ends within five minutes on two cores; `movers` and `review`, a little over
two minutes each, are the longest.

No run checks for deadlock: the broker may have nothing to execute, the calendar
is bounded, and the program may have nothing to do. That no handler hangs is
`TransactionEnds`.

### Fairness

* A handler that has begun runs on. A step that needs the write lock is enabled
  only while the lock is free; SQLite polls for it, so a step that is enabled
  again and again is taken: strong fairness of `PassStep` and `Commit`. An insert
  that conflicts rolls back (weak fairness).
* The sweep and the reconciliation run on every working day, and time passes:
  strong fairness of the two and of `AdvanceClock`, which waits for idle workers.
  No other handler is fair: nobody has to answer, and passes may never run.
* `StaleSuggestionExpires` and `DeadOrderRowSettles` assume `QuietHours`, that
  the workers are all idle again and again. The two are about days, handlers take
  seconds. `TransactionEnds` does not assume it.
* In `ReconciliationWindow` a run is started in the end, and not every run fails.
* In `LlmBudget` a thread with a task goes on: the SDK's time-outs and the bounded
  retries end every call, and the executor starts what was submitted.
* In `Movers` the job runs every working day, a run that has begun goes on and not
  every run fails; nothing is assumed of the e-mail or of the market.

### Disagreements between the code and its documentation

Three runs expect a violation. Each checks what a comment or a docstring says,
quoted in `findings`.

| Run | What TLC finds |
|---|---|
| `sweep_oldest_row` | the sweep takes the first row of a suggestion; after a replacement that is the cancelled one, and the open order outlives the expired suggestion |
| `double_buy` | a cancel is requested, the order fills anyway, and the next pass sees "not live" and buys again |
| `funds_twice` | a quiet sync moves `last_sync` in place, the next day's detection compares with an older row and reports the same deposit again |

Further disagreements that the modules contain, without a run of their own:

* an emergency stop committed during a pass does not stop that pass, which has
  read the mode (`auto_trade.py:460`; ADR-0015 says "instantly"); `StopFreezesOrders`
  says how much may still happen: one order for each suggestion left on its list;
* a cancel that fails in the target loader is not retried by the sweep, which does
  not look at expired suggestions (`targets.py:159`, message at line 162);
* un-accept reports a cancelled order although the cancel failed
  (`unaccept.py:58`, page at `main.py:710`);
* the reconciliation window misses the fill of a re-adopted row, whose
  `created_at` is later than the order's `submitted_at`, and of a row cleared
  after its order filled (`jobs/reconciliation.py:50`, `auto_trade.py:192`);
* the critic may move a buy to any scored level, also one above the market, which
  the docstring of `_find_level` (`suggestion_review.py:373`) wants ruled out;
* the first row a weekly run writes may have been answered since it was read
  ("Never overwrites accepted/rejected rows", `suggest.py:456`);
* the limits of the job are rounded to the nearest cent (`suggest.py:335`, `431`, `634`),
  so that a buy may lie up to half a cent above the market, and all buys together half
  a cent a share below the cash floor, where the graph takes care to round inwards;
* a rationale filed under the number of a cached draft replaces the stored one
  (`suggestion_review.py:341`), although the node asks only for those that are missing;
* a request that the provider bills and the client raises for is never added to the
  day's cost (`llm.py:197-208`), so the daily cap does not see it;
* two threads may both pass the check of the month's search cap before either has
  counted (`tavily.py:108-131`);
* a sync that finds no recent position row while another is about to write one leaves
  a position that was sold in the latest rows, until the next sync (`snapshot.py:61`).

## Proofs

Every safety invariant and every action property that a passing run checks is
also a theorem, proved for every value of the constants that satisfies the
module's assumption. The assumptions ask for no more than the code has:

* `ConstantsAssumption`: the functions have their types, `None` is neither a
  suggestion nor a worker;
* `WindowAssumption`: times are naturals and the overlap is not zero;
* `BudgetAssumption`: finitely many threads, a cap and a number of attempts above zero;
* `MoversAssumption`: finitely many runners, and at least one; at least one tier;
  bounds are naturals;
* `ReviewAssumption`: the gaps are a list without repetition, prices are positive,
  half a cent is a positive number of ticks, closes are known of tickers only, shares
  of the LLM lie between nothing and all, `SizeMin <= SizeMax`;
* `AccountsAssumption`: amounts are integers, prices positive, thresholds and the
  opening balance naturals, the opening position worth a price or nothing.

| Theorem | Statement |
|---|---|
| **`OrderLifecycle_proofs`** | |
| `Invariance` | `Spec => []IInv` |
| `TypeCorrect` | `Spec => []TypeOK` |
| `OneWorkingOrder` | `Spec => []AtMostOneWorking` |
| `TrackedWhileWorking` | `Spec => []WorkingOrderTracked` |
| `LostOrderIsTheNext` | `Spec => []LostOrderIsNext` |
| `FilledOnEvidence` | `Spec => []FilledMeansExecuted` |
| **`OrderSerial_proofs`** | |
| `StopFreezes` | `Spec => StopFreezesOrders` |
| `DryRunLeavesBroker` | `Spec /\ []NoOverlap => DryRunNeverTouchesBroker` |
| `FillsStayRecorded` | `Spec /\ []NoOverlap => RecordedFillStays` |
| `OneRecordedPerTicker` | `Spec /\ []NoOverlap => []TickerInv` |
| `OrdersAreRecorded` | no `submit`, `readback`, `abort` fails: `Spec /\ []NoOverlap /\ NoPassRaises => []NoLostOrder` |
| `ReplacedPerTicker` | `Spec /\ []NoOverlap /\ []NoLostOrder => []OneWorkingPerTicker` |
| `OpenOrdersMandated` | no `cancel` fails: `Spec /\ []NoOverlap => []MandateInv` |
| `NoOrderUnmandated` | no `cancel` fails: `Spec /\ []NoOverlap /\ []NoLostOrder => []NoOrderWithoutMandate` |
| `WeekWithoutOverlap` | none of the four fails: `Spec /\ []NoOverlap /\ NoPassRaises => []NoOrderWithoutMandate /\ []OneWorkingPerTicker` |
| **`ReconciliationWindow_proofs`** | |
| `WindowInvariance` | `Spec => []WindowInv` |
| `FillOfTrackedOrderRecorded` | `Spec => NextRunRecordsFill` |
| `FillSinceLastRunRecorded` | `Spec => RecentFillRecorded` |
| **`LlmBudget_proofs`** | |
| `BudgetTypeCorrect` | `Spec => []TypeOK` |
| `BudgetImplemented` | `Spec => BudgetKept`: `LlmBudget` implements `DailyBudget` |
| `OvershootIsOneCallPerThread` | `Spec => []OvershootBounded` |
| `DayCostIsBounded` | `Spec => []DayCostBounded` |
| **`Movers_proofs`** | |
| `TypesHold` | `Spec => []TypeOK` |
| `OnlyFeedsAreStored` | `Spec => []WebNewsStaysOut` |
| `SearchesStayBounded` | `Spec => []SearchesBounded` |
| `LadderHolds` | `Spec => []LadderInv` |
| `NoTierTwice` | `Spec => AnnouncedOnce` |
| **`SuggestionReview_proofs`** | |
| `TypesHold` | `Spec => []TypeOK` |
| `RationalesMatchRows` | `Spec => []TextOfItsRow` |
| `FloorIsKept` | `Spec => []DraftsWithinFloor` |
| `DraftsAreDistinct` | `Spec => []OneDraftPerOrder` |
| `LimitsStayOnSide` | `Spec => []LimitOnItsSide` |
| `AnswersAreKept` | `Spec => AnsweredRowFrozen` |
| **`BrokerAccounts_proofs`** | |
| `TypesHold` | `Spec => []TypeOK` |
| `EventsAreExact` | `Spec => []EventExact` |
| `SnapshotsFollow` | `Spec => PositionsFollow` |
| `IdentityIsKept` | `Spec => IdentityKept` |

### Orders under concurrency

That a suggestion has one working order
is not inductive: a pass computes the suffix of the next order from the number of
`broker_cancelled` rows it sees, submits it some steps later and records it later
still, while others cancel, re-adopt, commit and roll back. `IInv` adds what the
suffix relies on:

* `RowInv`: a row stands for an order that exists, and unless it is
  `accepted_for_routing` the order is leaving (its cancel was requested or it has
  ended) and will never work again;
* `FenceInv`: if order `n` of a suggestion exists, every earlier one has a
  committed row and is leaving;
* `WriteInv`: the writes a worker holds back satisfy the same, so that `Commit`
  may merge them with whatever has been committed since they were computed;
* `PassInv`: a pass inserts at most one row of a suggestion, and the suffix it is
  about to submit is taken already or all earlier orders are recorded and leaving.

The step that matters is `ChooseClientOrderId`: the suggestion has no row in the
pass's view but `broker_cancelled` ones, these are a prefix of the suffixes by
`FenceInv`, so their number is the first free suffix (a cardinality argument:
`0..n-1` has `n` elements). If another pass has submitted it meanwhile, the
broker returns or refuses the duplicate, which is the other disjunct of `PassInv`.

`FilledOnEvidence` has an invariant of its own, `FillInv`: the status `filled`
waiting in a transaction was computed from an order executed in full, and an
execution is never taken back.

`StopFreezes` (in `OrderSerial_proofs`, but without its hypothesis) is about a stop that
meets passes under way. `PassDue(w)` are the suggestions pass `w` may still submit for:
its list, and the one at hand until it is submitted. The proof goes through the shapes
of the steps of a pass: none adds to the list but `BeginPass`, which a mode of OFF
rules out, and a submission uses its suggestion up. `LiveInv` says that only a LIVE
pass comes near a submission, so that a simulation, whose list counts for nothing,
creates no order.

### Orders without overlap

`NoOverlap` is the hypothesis that at most one worker is inside a handler. It is a
hypothesis of the theorems and not a guard of the model: the same `Spec`, all
handlers, any threads, any of the failing calls. It cannot be dropped; the hazards
name the interleaving that breaks each property (for instance an emergency stop
during a pass that has read LIVE). The proofs sort the steps of a pass by their shape
(`Quits`, `Goes`, ...), so that each invariant is disturbed by few of them.

* `ModeInv`: a pass under way works in the committed mode, and not in OFF.
* `FillRowInv`: a row, or a write held back, says `filled` only of an executed order,
  and no write held back takes a recorded fill away.
* `TickerInv`: of the orders that work and are recorded as such, a ticker has one,
  in the committed rows and in what a pass sees; a pass about to submit sees none.
  This is what `_check_stale_live_order` achieves over the suggestions of a ticker.
* `MandateInv`: an open order's suggestion is accepted, expired or filled, also
  after the writes under way; a pass under way has changed no suggestion, and what
  it may still place is accepted.
* `RecordedInv`: a working order without a row belongs to the pass that holds the row
  back or is about to write it, and nobody else has a row of that name. The suffix
  is fresh because the cancelled rows are a prefix.

`OneRecordedPerTicker` and `OpenOrdersMandated` are about recorded orders. What the
broker has and no row shows comes in by the hypothesis `NoLostOrder`, and
`OrdersAreRecorded` says which failures can violate it: a submission or a read-back
that raises, a handler that is broken off, and `NoPassRaises`, a pass whose cancel
of a stale order raises after it has placed another order. The last one takes three
suggestions, more than a run has, and came up in the proof: the pass rolls back the
row of what it has placed, and an un-accept then finds no row to cancel. A failing
`cancel` also breaks `MandateInv` by itself, since un-accept clears the suggestion
whatever the cancel answers; hence the hypothesis of `OpenOrdersMandated`.
`WeekWithoutOverlap` puts these together. All hypotheses hold in the runs `serial_week`
and `replacing` (one thread, no failures but reads), so none of them is empty.

### Reconciliation window

`WindowInv` says of a window that has been read what the later step needs: it
starts no later than the last completed run and than the submission of every open
order tracked from its submission, unless the cap has moved it.

### Budget

`OvershootBounded` counts the open calls too: the counter plus what the open calls
may still cost stays below the cap plus one call per thread. Admitting a call
adds a member to `Calling` while the counter is below the cap, so the sum is
bounded by the number of threads; paying moves cost from the open calls to the
counter. `BudgetImplemented` follows step by step, each action of a thread being
one of `DailyBudget` or a stutter.

`DayCostIsBounded` is about money and not about the
counter, which a thread with a date read before midnight can clear a second time.
What it can bound is the bill without the requests that the client has missed
(`Counted`). While the client's date is the calendar's, that is the counter
plus one allowance for each time it was cleared (`TodayInv`); while it lags behind,
the threads that may still be admitted without looking at the date again
(`Admissible`) and those that call already are once each thread at most; a thread of
the SDK's client between its two looks at the date is one of them until it has stored
the second. The days gone by have only the calls in flight left (`PastInv`). The bound is
`(1 + setBack) * (Overshoot + MaxCost * Cardinality(Thread))` and the cost of the missed
requests; the proof needs the
allowance of a call per thread beside the overshoot, although two threads alone
do not exhaust it.

### Movers

`OnlyFeedsAreStored` carries `EventInv`, that an article a run holds an event of was
once delivered by a feed, through the three nodes of the triage. `SearchesBounded` counts
the searches under way with those counted: an answer moves one from the first to the
second, and one goes out only while the counter is below the cap and its runner has
none under way. `NoTierTwice`
follows from `LadderInv`: everything announced lies on the ladder up to the
committed tier, in its direction and week (`SaidInv`), and a run under way is about
to announce more than that and has committed it when it sends (`HitInv`). A flip, a
recovery or a new week clears what was said together with the tier.

### Weekly review

`Sound` is the invariant of a run in the graph: rationales are keyed by position and
were filed for the draft there, drafts differ in ticker and side, the floor is kept as long as
sizes are those of the job, limits are on their side until the critic speaks.
The steps that matter re-key: `ContextAdjust` drops drafts and moves the rationales
with them (`PositionsKept`: no two kept drafts come from one position), `ApplyChanges` does
the same with rejected drafts, and `FinalizeWrite` hands a rationale to the row of its own key. The
floor is a sum over drafts that grows with `AddRegular` and `AddTopup`, in the order
of the gap list; whole shares at a price cost at most the money set aside for
them, and rounding adds half a cent a share. Whatever number the LLM answers, a rationale
is keyed to the draft of that number, or to none.

### Accounts

`EventsAreExact` compares a sum over a window with a difference of balances.
`BalanceInv`: every account row but the first shows the balance of the time it was
synced, as does the sync under way, so two rows differ by the transfers and fills
between their times; recording a fill changes no sum. `RowsInv`: the last row is open,
and the first row, written at onboarding, is closed once there is another.
`TimesInv`: one event at a time.

`SnapshotsFollow` is about one `SyncWrite`: of two rows the larger `ts` wins, so an older
fetch changes nothing and the newest one prevails. `SeenInv` fills the gap between the
read of the recent tickers and the write: a row that a sync has found too old does not
become recent again, as days only pass, and a sync that saw a position writes a row. A
sync that found none to write, and none was written since, thus leaves a position only
if its row is older than the look-back.

`IdentityIsKept` is about syncs that read the account row under the write lock, which
is what its premise says; without a position to write the code reads it before
(a hazard), and the property makes no claim.

### Induction over data

The library's induction theorems cannot be instantiated here, so facts about folds
over lists and sums over sets are proved from a least counterexample: a non-empty
set of naturals has a least element (`LeastNat`), a false statement about a finite
set fails for a minimal one (`LeastSet`), and the step below it is a
contradiction. `SumTheorems` proves in this way that a sum over a finite set is an
integer, splits over disjoint parts, depends on nothing but the summands and
survives a renaming of the set.
For this the models write sums with `SumFunctionOnSet` and lists as recursive
functions; no module with a theorem uses a `RECURSIVE` operator.

### Only model-checked

What needs fairness is out of the prover's reach and stays with TLC:
`TransactionEnds`, `StaleSuggestionExpires`, `DeadOrderRowSettles`,
`PromptFillSettles`, `EveryTaskEnds`, `LadderCatchesUp`. So do the counterexamples
of the three runs that expect a violation.

## Plan

1. The guards of the pass (caps, wash sale, cash) as arithmetic over a small
   account, with two overlapping passes; then the bound on what two passes spend.
2. Matching: the rules of `reconcile_activities`, `manual_review`,
   `POST /admin/reconcile/{id}`, FIFO profit; trades made by hand then enter the
   model.
3. The versioned target rows; the weekly review and the context it leaves for the
   next Monday.
4. Proofs: an abstract order book (one intended order per suggestion, placed,
   cancelled, executed) that `OrderLifecycle` implements; the part of
   `IdentityKept` that survives a sync that has read its row without the lock.

## Not modelled

How levels, indicators and bars are computed: numerical functions of price series
without state or concurrency (which levels are near, broken or scored is in
`SuggestionReview`). Reports, charts, e-mail and the texts of the LLM are
rendering and I/O. `safety.py` is a set of assertions on constants. Backup and
analytics copy and read. Magic-link signatures are a matter of cryptography; what
a valid link does is `ActOnSuggestion` and `UnacceptPlaced`. APScheduler's
misfire handling only decides whether a job runs on a day, which fairness covers.
The other parts without a module are in the plan.

## Running

    tlc -workers 2 -config Concurrent.cfg MCOrderLifecycle
    tlc -workers 2 -config Window.cfg MCReconciliationWindow
    tlc -workers 2 -config Budget.cfg MCLlmBudget
    tlc -workers 2 -config Movers.cfg MCMovers
    tlc -workers 2 -config Review.cfg MCSuggestionReview
    tlc -workers 2 -config Accounts.cfg MCBrokerAccounts
    tlapm OrderLifecycle_proofs.tla
    tlapm OrderSerial_proofs.tla
    tlapm ReconciliationWindow_proofs.tla
    tlapm LlmBudget_proofs.tla
    tlapm Movers_proofs.tla
    tlapm SumTheorems.tla
    tlapm SuggestionReview_proofs.tla
    tlapm BrokerAccounts_proofs.tla

--------------------------- MODULE OrderLifecycle ---------------------------
(***************************************************************************)
(* The life of an order suggestion of one broker account and of the broker *)
(* orders placed for it: the weekly generator, the owner's answers, the    *)
(* auto-trade pass, un-accept, the admin endpoints, the expiry sweep, the  *)
(* target loader and the daily reconciliation, on a database shared by     *)
(* worker threads and at a broker that acts on its own.                    *)
(*                                                                         *)
(* Every handler is a transaction of a worker.  It reads the database and  *)
(* calls the broker, and its writes wait in tx[w] until Commit; a rollback *)
(* loses the writes but not what the broker was told.  The auto-trade pass *)
(* takes several steps and, from its first flush, holds SQLite's write     *)
(* lock.                                                                   *)
(***************************************************************************)
EXTENDS Integers, FiniteSets

CONSTANTS
    Suggestion,   \* order_suggestion ids of the account
    Ticker,
    TickerOf,     \* [Suggestion -> Ticker]
    WeekOf,       \* [Suggestion -> Nat], the suggestion's week_of
    Worker,       \* threads: the scheduler's pool and the web server's pool
    Duty,         \* [Worker -> SUBSET Job], the handlers a thread may run
    MaxReplace,   \* bound: a suggestion's orders are sug-N, -r1 .. -rMaxReplace
    MaxClock,     \* bound on the calendar
    Faults,       \* the calls that may fail, see FaultKind
    None

FaultKind == {"get", "cancel", "submit", "readback", "abort"}

Job == {"generate", "act", "unaccept", "cancel_all", "reset", "sweep", "targets",
        "reconcile", "promote", "stop", "pass"}

ASSUME ConstantsAssumption ==
    /\ TickerOf \in [Suggestion -> Ticker]
    /\ WeekOf \in [Suggestion -> Nat]
    /\ Duty \in [Worker -> SUBSET Job]
    /\ MaxReplace \in Nat
    /\ MaxClock \in Nat
    /\ Faults \subseteq FaultKind
    /\ None \notin Suggestion \cup Worker

Idx  == 0 .. MaxReplace

\* A broker order is identified by its client_order_id: <<s, 0>> is "sug-s"
\* and <<s, n>> is "sug-s-rn".
Coid == Suggestion \X Idx

SuggestionStatus ==
    {"absent", "pending", "accepted", "rejected", "cancelled", "expired", "filled"}
RowStatus   == {"none", "accepted_for_routing", "broker_cancelled", "filled", "canceled"}
OrderStatus == {"none", "working", "pending_cancel", "closed"}
Mode        == {"OFF", "DRY_RUN", "LIVE"}

VARIABLES
    status,       \* order_suggestion.status
    row,          \* order_execution.status of the real row of an order
    recent,       \* rows whose created_at lies within the last 24 hours
    cancelledAt,  \* order_execution.cancelled_at: "null", "fresh" or "old"
    dry,          \* suggestions with a dry_run row
    mode,         \* auto_trade_state.mode
    ord,          \* the broker's order
    qty,          \* shares executed: 0 none, 1 some, 2 all
    clock,        \* third of a week: 0 Mon-Wed, 1 Thu-Fri, 2 the weekend
    lock,         \* the worker that holds SQLite's write lock
    tx            \* each worker's handler and its uncommitted writes

db   == <<status, row, recent, cancelledAt, dry, mode>>
vars == <<status, row, recent, cancelledAt, dry, mode, ord, qty, clock, lock, tx>>

Keep == "keep"

Tx == [pc   : {"idle", "guard", "check", "submit", "record", "kill", "commit"},
       mode : Mode,                                \* mode read by the pass
       todo : SUBSET Suggestion,                   \* list read by the pass
       cur  : Suggestion \cup {None},
       idx  : Idx,
       wrow : [Coid -> (RowStatus \ {"none"}) \cup {Keep}],  \* row writes
       ins  : SUBSET Coid,                         \* rows that are INSERTs
       stamp: SUBSET Coid,                         \* cancelled_at writes
       wsug : [Suggestion -> SuggestionStatus \cup {Keep}],
       wmode: Mode \cup {Keep},
       wdry : SUBSET Suggestion]

IdleTx == [pc |-> "idle", mode |-> "OFF", todo |-> {}, cur |-> None, idx |-> 0,
           wrow |-> [c \in Coid |-> Keep], ins |-> {}, stamp |-> {},
           wsug |-> [s \in Suggestion |-> Keep], wmode |-> Keep, wdry |-> {}]

TypeOK ==
    /\ status \in [Suggestion -> SuggestionStatus]
    /\ row \in [Coid -> RowStatus]
    /\ recent \in SUBSET Coid
    /\ cancelledAt \in [Coid -> {"null", "fresh", "old"}]
    /\ dry \in SUBSET Suggestion
    /\ mode \in Mode
    /\ ord \in [Coid -> OrderStatus]
    /\ qty \in [Coid -> 0..2]
    /\ clock \in Nat
    /\ lock \in Worker \cup {None}
    /\ tx \in [Worker -> Tx]

Init ==
    /\ status = [s \in Suggestion |-> "absent"]
    /\ row = [c \in Coid |-> "none"]
    /\ recent = {}
    /\ cancelledAt = [c \in Coid |-> "null"]
    /\ dry = {}
    /\ mode \in Mode
    /\ ord = [c \in Coid |-> "none"]
    /\ qty = [c \in Coid |-> 0]
    /\ clock = 0
    /\ lock = None
    /\ tx = [w \in Worker |-> IdleTx]

-----------------------------------------------------------------------------
(* The calendar *)

Week  == clock \div 3
Phase == clock % 3

\* Mon-Wed this week's Monday, Thu-Sun the next one.
NextMonday == IF Phase = 0 THEN Week ELSE Week + 1

\* Past expires_at, Friday 21:00 UTC of the suggestion's week.
Expired(s) == clock > 3 * WeekOf[s] + 1

-----------------------------------------------------------------------------
(* What the broker answers *)

Filled(c) == ord[c] = "closed" /\ qty[c] = 2

\* _LIVE_ORDER_STATUSES
Live(c) == ord[c] \in {"working", "pending_cancel"}

\* The answers cancel_order can give for an order: TRUE, or an exception.
CancelAnswer(c) ==
    CASE ord[c] = "working" -> {TRUE} \cup (IF "cancel" \in Faults THEN {FALSE} ELSE {})
      [] ord[c] = "pending_cancel" -> BOOLEAN
      [] OTHER -> {FALSE}

\* K is a possible set of successes when cancel_order is called for all of C.
CancelSuccess(C, K) == K \subseteq C /\ \A c \in C : (c \in K) \in CancelAnswer(c)

\* The broker's orders once cancel_order has succeeded for K.
CancelRequested(K) ==
    [c \in Coid |-> IF c \in K /\ ord[c] = "working" THEN "pending_cancel" ELSE ord[c]]

\* The answers get_order can give: TRUE is the order's true status.
GetAnswer == {TRUE} \cup (IF "get" \in Faults THEN {FALSE} ELSE {})
GetSuccess(C, G) == G \subseteq C /\ \A c \in C : (c \in G) \in GetAnswer

\* Mutant: a failed cancel is taken for a cancelled order.
CancelledRowIgnoringFailure(c, g, k) ==
    IF g /\ Filled(c) THEN Keep ELSE "broker_cancelled"

\* Mutant: a filled order is treated like any other terminal one.
CancelledRowOfFilled(c, g, k) ==
    IF (g /\ ~Live(c)) \/ k THEN "broker_cancelled" ELSE Keep

(***************************************************************************)
(* cancel_working_execution, given whether get_order (g) and cancel_order  *)
(* (k) answer: the status written on the row, if any.                      *)
(***************************************************************************)
CancelCalled(c, g) == ~g \/ Live(c)
CancelledRow(c, g, k) ==
    CASE ~g -> IF k THEN "broker_cancelled" ELSE Keep
      [] g /\ Filled(c) -> Keep                               \* ALREADY_FILLED
      [] g /\ ~Filled(c) /\ ~Live(c) -> "broker_cancelled"    \* NOOP, terminal
      [] g /\ ord[c] = "working" /\ qty[c] = 1 -> Keep        \* PARTIAL
      [] OTHER -> IF k THEN "broker_cancelled" ELSE Keep

-----------------------------------------------------------------------------
(* Rows as a transaction sees them: its own writes over the committed ones *)

View(w) == [c \in Coid |-> IF tx[w].wrow[c] # Keep THEN tx[w].wrow[c] ELSE row[c]]

RowsOf(v, s) == {n \in Idx : v[<<s, n>>] # "none"}
WithStatus(v, s, st) == {n \in Idx : v[<<s, n>>] = st}

\* Mutant: the ordering by created_at is ascending.
IsLatestAscending(n, N) == n \in N /\ \A m \in N : n <= m

\* n is the row with the greatest created_at: rows are inserted in the order of
\* their suffixes, and only the latest one is ever re-adopted.
IsLatest(n, N) == n \in N /\ \A m \in N : m <= n

\* n is the row a query without ORDER BY returns first, the oldest.
IsFirst(n, N) == n \in N /\ \A m \in N : n <= m

\* Mutants: all rows are counted; the first order already gets a suffix.
NextClientOrderIdAllRows(v, s) == Cardinality(RowsOf(v, s))
NextClientOrderIdOffByOne(v, s) == Cardinality(WithStatus(v, s, "broker_cancelled")) + 1

\* _next_client_order_id: the number of broker_cancelled rows.
NextClientOrderId(v, s) == Cardinality(WithStatus(v, s, "broker_cancelled"))

\* A committed row that is neither absent nor broker_cancelled, or one of w's own.
HasExecution(v, s) == \E n \in Idx : v[<<s, n>>] \notin {"none", "broker_cancelled"}

\* _fetch_accepted_unexecuted
FetchAcceptedUnexecuted ==
    {s \in Suggestion : /\ status[s] = "accepted"
                        /\ WeekOf[s] = Week
                        /\ ~HasExecution(row, s)}

\* Mutant: only orders of the same week are replaced.
StaleRowsSameWeek(v, s) ==
    {c \in Coid : /\ c[1] # s
                  /\ WeekOf[c[1]] = WeekOf[s]
                  /\ TickerOf[c[1]] = TickerOf[s]
                  /\ v[c] = "accepted_for_routing"}

\* Live placement rows of other suggestions for the same ticker.
StaleRows(v, s) ==
    {c \in Coid : /\ c[1] # s
                  /\ TickerOf[c[1]] = TickerOf[s]
                  /\ v[c] = "accepted_for_routing"}

-----------------------------------------------------------------------------
(* Transactions *)

\* Mutant: a lock its own holder waits for.
FreeNotReentrant(w) == lock = None

\* The write lock is w's or can be taken.
Free(w) == lock \in {None, w}

\* The handler that w runs goes on with the writes and locals t.
Becomes(w, t) == tx' = [tx EXCEPT ![w] = t]

\* An idle worker runs a handler whose writes are t; they wait for Commit.
Handle(w, t) ==
    /\ tx[w].pc = "idle"
    /\ Becomes(w, [t EXCEPT !.pc = "commit"])
    /\ UNCHANGED <<db, clock, lock, qty>>

WriteRows(f) == [IdleTx EXCEPT !.wrow = f]
WriteSug(S, st) == [s \in Suggestion |-> IF s \in S THEN st ELSE Keep]

\* The end of a session_scope without an exception.
Commit(w) ==
    /\ tx[w].pc = "commit"
    /\ Free(w)
    /\ \A c \in tx[w].ins : row[c] = "none"
    /\ status' = [s \in Suggestion |->
                    IF tx[w].wsug[s] # Keep THEN tx[w].wsug[s] ELSE status[s]]
    /\ row' = View(w)
    /\ recent' = recent \cup {c \in Coid : tx[w].wrow[c] = "accepted_for_routing"}
    /\ cancelledAt' = [c \in Coid |-> IF c \in tx[w].stamp THEN "fresh" ELSE cancelledAt[c]]
    /\ dry' = dry \cup tx[w].wdry
    /\ mode' = IF tx[w].wmode # Keep THEN tx[w].wmode ELSE mode
    /\ Becomes(w, IdleTx)
    /\ lock' = None
    /\ UNCHANGED <<ord, qty, clock>>

\* An exception leaves the session: rollback.  It is an insert of a
\* broker_order_id another worker has committed (uq_broker_order_id), or any
\* failure: a locked database, a broker call nobody catches, a crash.
Rollback(w) ==
    /\ tx[w].pc # "idle"
    /\ \/ "abort" \in Faults
       \/ tx[w].pc = "commit" /\ \E c \in tx[w].ins : row[c] # "none"
    /\ Becomes(w, IdleTx)
    /\ lock' = IF lock = w THEN None ELSE lock
    /\ UNCHANGED <<db, ord, qty, clock>>

-----------------------------------------------------------------------------
(* The weekly generator and the owner's answers *)

\* persist_suggestions: a row that exists keeps its status.
PersistSuggestions(w) ==
    \E S \in SUBSET {s \in Suggestion : WeekOf[s] = NextMonday /\ status[s] = "absent"} :
        /\ S # {}
        /\ Handle(w, [IdleTx EXCEPT !.wsug = WriteSug(S, "pending")])
        /\ UNCHANGED ord

\* PATCH /suggestions/{sid} and the magic link.
ActOnSuggestion(w, s, st) ==
    /\ status[s] = "pending"
    /\ st \in {"accepted", "rejected"}
    /\ Handle(w, [IdleTx EXCEPT !.wsug = WriteSug({s}, st)])
    /\ UNCHANGED ord

\* unaccept_suggestion without an order, and with one: only a filled order
\* leaves the suggestion as it is.
UnacceptUnplaced(w, s) ==
    /\ status[s] = "accepted"
    /\ RowsOf(row, s) = {}
    /\ Handle(w, [IdleTx EXCEPT !.wsug = WriteSug({s}, "cancelled")])
    /\ UNCHANGED ord

UnacceptPlaced(w, s) ==
    /\ status[s] = "accepted"
    /\ \E n \in Idx : LET c == <<s, n>> IN
         /\ IsLatest(n, RowsOf(row, s))
         /\ \E g \in GetAnswer, k \in CancelAnswer(c) :
              /\ ord' = IF k /\ CancelCalled(c, g) THEN CancelRequested({c}) ELSE ord
              /\ Handle(w, [WriteRows([d \in Coid |->
                               IF d = c THEN CancelledRow(c, g, k) ELSE Keep])
                             EXCEPT !.wsug = IF g /\ Filled(c)
                                               THEN WriteSug({}, "cancelled")
                                               ELSE WriteSug({s}, "cancelled")])

-----------------------------------------------------------------------------
(* Operations on many orders *)

\* POST /admin/cancel-all-orders: broker_cancelled rows are tried again.
CancelAllOrders(w) ==
    LET C == {c \in Coid : row[c] \in {"accepted_for_routing", "broker_cancelled"}}
    IN  /\ C # {}
        /\ \E K \in SUBSET C :
             /\ CancelSuccess(C, K)
             /\ ord' = CancelRequested(K)
             /\ Handle(w, WriteRows([c \in Coid |->
                             IF c \in K THEN "broker_cancelled" ELSE Keep]))

\* POST /admin/reset-week-suggestions for one side: S are the accepted
\* suggestions of that side.  A failed cancel does not stop the reset.
ResettableSuggestions ==
    {s \in Suggestion : /\ status[s] = "accepted"
                        /\ WeekOf[s] = NextMonday
                        /\ WithStatus(row, s, "filled") = {}}

ResetWeekSuggestions(w) ==
    \E S \in SUBSET ResettableSuggestions :
      LET C == {c \in Coid : /\ c[1] \in S
                             /\ row[c] \in {"accepted_for_routing", "broker_cancelled"}}
      IN  /\ S # {}
          /\ \E K \in SUBSET C :
               /\ CancelSuccess(C, K)
               /\ ord' = CancelRequested(K)
               /\ Handle(w, [WriteRows([c \in Coid |->
                                IF c \in K THEN "broker_cancelled" ELSE Keep])
                              EXCEPT !.wsug = WriteSug(S, "pending")])

\* The rows sweep_expired_suggestions looks at, one for a suggestion of A.
SweptRows(A) == {c \in Coid : c[1] \in A /\ IsFirst(c[2], RowsOf(row, c[1]))}

\* Mutant: only the current week is swept.
StaleWithThisWeek(st) == {s \in Suggestion : status[s] = st /\ Expired(s) /\ WeekOf[s] = Week}

\* The suggestions in status st past their expires_at.
StaleWith(st) == {s \in Suggestion : status[s] = st /\ Expired(s)}

\* sweep_expired_suggestions, Mon-Fri 09:00 ET.
SweepExpiredSuggestions(w) ==
    LET A == StaleWith("accepted")
        P == StaleWith("pending")
        C == SweptRows(A)
    IN  /\ Phase # 2
        /\ A \cup P # {}
        /\ \E G \in SUBSET C, K \in SUBSET C :
             /\ GetSuccess(C, G)
             /\ CancelSuccess(C, K)
             /\ ord' = CancelRequested({c \in K : CancelCalled(c, c \in G)})
             /\ Handle(w, [WriteRows([c \in Coid |->
                              IF c \in C THEN CancelledRow(c, c \in G, c \in K) ELSE Keep])
                            EXCEPT !.wsug = WriteSug(A \cup P, "expired")])

\* load_targets_into_db, the part that touches suggestions and orders: T are
\* the tickers the new targets leave out.
LoadTargets(w) ==
    \E T \in SUBSET Ticker :
      LET S == {s \in Suggestion : /\ status[s] = "accepted"
                                   /\ WeekOf[s] = Week
                                   /\ TickerOf[s] \in T}
          C == {c \in Coid : c[1] \in S /\ row[c] = "accepted_for_routing"}
      IN  /\ S # {}
          /\ \E K \in SUBSET C :
               /\ CancelSuccess(C, K)
               /\ ord' = CancelRequested(K)
               /\ Handle(w, [WriteRows([c \in Coid |->
                                IF c \in K THEN "broker_cancelled" ELSE Keep])
                              EXCEPT !.wsug = WriteSug(S, "expired")])

-----------------------------------------------------------------------------
(* The daily reconciliation, Mon-Fri 16:45 ET *)

\* Mutant: a status no reader of order_execution knows.
ActivityStatusUnmapped(c) == IF Filled(c) THEN "filled" ELSE "done_for_day"

\* The status get_activities reports for a closed order with shares executed.
ActivityStatus(c) == IF Filled(c) THEN "filled" ELSE "canceled"

(***************************************************************************)
(* A are the orders get_activities returns: closed, with shares executed.  *)
(* Which of them lie in the requested window is the concern of the module  *)
(* ReconciliationWindow; here it may be any of them.  The three parts run  *)
(* in this order in one session: persist_reconciliation,                   *)
(* sync_open_order_statuses (unless list_orders fails: synced = FALSE) and *)
(* infer_manual_cancels.  Every order is one of the pass's: the owner does *)
(* not trade the account by hand, so only rule 1 of reconcile_activities   *)
(* (the client_order_id) ever matches.                                     *)
(***************************************************************************)
PersistedRow(A) == [c \in Coid |-> IF c \in A THEN ActivityStatus(c) ELSE row[c]]

\* Mutant: any activity of a suggestion marks it filled.
PersistedFilledByAny(A) ==
    {s \in Suggestion : status[s] = "accepted" /\ \E c \in A : c[1] = s}

PersistedFilled(A) ==
    {s \in Suggestion : status[s] = "accepted" /\ \E c \in A : c[1] = s /\ Filled(c)}

\* Mutant: only yesterday's and today's orders are polled.
SyncedRowsRecent(v) ==
    {c \in recent : v[c] = "accepted_for_routing" /\ ord[c] = "closed" /\ ~Filled(c)}

SyncedRows(v) ==
    {c \in Coid : /\ v[c] = "accepted_for_routing"
                  /\ ord[c] = "closed"
                  /\ ~Filled(c)}

InferredCancels(v, stamped) ==
    {s \in Suggestion :
        /\ WithStatus(v, s, "accepted_for_routing") = {}
        /\ \E n \in WithStatus(v, s, "broker_cancelled") :
             /\ IsLatest(n, RowsOf(v, s))
             /\ <<s, n>> \notin stamped
             /\ cancelledAt[<<s, n>>] = "old"}

Reconcile(w) ==
    \E A \in SUBSET {c \in Coid : ord[c] = "closed" /\ qty[c] > 0},
       synced \in {TRUE} \cup (IF "get" \in Faults THEN {FALSE} ELSE {}) :
      LET v1 == PersistedRow(A)
          F  == PersistedFilled(A)
          Y  == IF synced THEN SyncedRows(v1) ELSE {}
          v2 == [c \in Coid |-> IF c \in Y THEN "broker_cancelled" ELSE v1[c]]
          X  == {s \in InferredCancels(v2, Y) : status[s] = "accepted" /\ s \notin F}
      IN  /\ Phase # 2
          /\ Handle(w, [IdleTx EXCEPT
                  !.wrow = [c \in Coid |-> IF c \in A \cup Y THEN v2[c] ELSE Keep],
                  !.ins = {c \in A : row[c] = "none"},
                  !.stamp = Y,
                  !.wsug = [s \in Suggestion |-> IF s \in F THEN "filled"
                                                 ELSE IF s \in X THEN "cancelled" ELSE Keep]])
          /\ UNCHANGED ord

-----------------------------------------------------------------------------
(* The mode and the kill switch *)

\* POST /admin/auto-trade/promote; no soak window applies to paper accounts.
Promote(w, m) ==
    /\ m # mode
    /\ Handle(w, [IdleTx EXCEPT !.wmode = m])
    /\ UNCHANGED ord

\* The orders _trigger_kill_switch cancels; it does not touch their rows.
KillTargets(w) ==
    {c \in Coid : /\ View(w)[c] = "accepted_for_routing"
                  /\ c \in recent \/ tx[w].wrow[c] = "accepted_for_routing"}

\* POST /admin/auto-trade/emergency-stop
EmergencyStop(w) ==
    \E K \in SUBSET KillTargets(w) :
        /\ CancelSuccess(KillTargets(w), K)
        /\ ord' = CancelRequested(K)
        /\ Handle(w, [IdleTx EXCEPT !.wmode = "OFF"])

-----------------------------------------------------------------------------
(* The auto-trade pass: run_auto_trade_pass *)

\* Mutant: an account that is not trading is taken for a live one.
PassModeDefaultsToLive == IF mode = "OFF" THEN "LIVE" ELSE mode

\* _get_mode
PassMode == mode

\* Mode and list are read once; an OFF mode or an empty list ends the pass.
BeginPass(w) ==
    /\ tx[w].pc = "idle"
    /\ PassMode # "OFF"
    /\ FetchAcceptedUnexecuted # {}
    /\ Becomes(w, [tx[w] EXCEPT !.pc = "guard", !.mode = PassMode,
                                !.todo = FetchAcceptedUnexecuted])
    /\ UNCHANGED <<db, ord, qty, clock, lock>>

\* Mutant: every pass that is not OFF trades.
TradesUnlessOff(w) == tx[w].mode # "OFF"

\* The pass places real orders.
Trades(w) == tx[w].mode = "LIVE"

\* The pass goes on with the next suggestion; f are its row writes.
Continue(w, s, f) ==
    Becomes(w, [tx[w] EXCEPT !.pc = "guard", !.todo = @ \ {s}, !.cur = None, !.wrow = f])

\* _check_idempotency
Executed(w, s) == IF tx[w].mode = "DRY_RUN" THEN s \in dry \cup tx[w].wdry
                                            ELSE HasExecution(View(w), s)

\* A guard skips the suggestion: it has an execution, or in DRY_RUN there is a
\* stale live order or one of the wash-sale, cap and cash guards fails.
GuardSkips(w, s) ==
    /\ tx[w].pc = "guard"
    /\ s \in tx[w].todo
    /\ Executed(w, s) \/ tx[w].mode = "DRY_RUN"
    /\ Continue(w, s, tx[w].wrow)
    /\ UNCHANGED <<db, ord, qty, clock, lock>>

(***************************************************************************)
(* _check_stale_live_order in LIVE mode, then the remaining guards.  D are *)
(* the stale rows handled before get_order fails for one (all of them when *)
(* none fails): a live order is cancelled, a done one only loses its row.  *)
(* The wash-sale, cap and cash guards then let the suggestion pass or not  *)
(* (ok), after the stale orders have been cancelled.                       *)
(***************************************************************************)
GuardLive(w, s) ==
    LET C == StaleRows(View(w), s)
    IN  /\ tx[w].pc = "guard"
        /\ Trades(w)
        /\ s \in tx[w].todo
        /\ ~Executed(w, s)
        /\ \E D \in SUBSET C, ok \in BOOLEAN :
             LET f == [c \in Coid |-> IF c \in D THEN "broker_cancelled" ELSE tx[w].wrow[c]]
             IN  /\ D # C => "get" \in Faults /\ ~ok
                 /\ ord' = CancelRequested({c \in D : Live(c)})
                 /\ D # {} => Free(w)
                 /\ lock' = IF D # {} THEN w ELSE lock
                 /\ IF ok THEN Becomes(w, [tx[w] EXCEPT !.pc = "check", !.cur = s,
                                                         !.todo = @ \ {s}, !.wrow = f])
                          ELSE Continue(w, s, f)
        /\ UNCHANGED <<db, qty, clock>>

\* cancel_order of a stale order raises: nobody catches it, the pass rolls
\* back although the orders of D have been cancelled.
GuardRaises(w, s) ==
    LET C == StaleRows(View(w), s)
    IN  /\ tx[w].pc = "guard"
        /\ Trades(w)
        /\ s \in tx[w].todo
        /\ ~Executed(w, s)
        /\ \E D \in SUBSET C :
             /\ \E c \in C \ D : Live(c) /\ FALSE \in CancelAnswer(c)
             /\ ord' = CancelRequested({c \in D : Live(c)})
        /\ Becomes(w, IdleTx)
        /\ lock' = IF lock = w THEN None ELSE lock
        /\ UNCHANGED <<db, qty, clock>>

\* DRY_RUN: the guards pass and a dry_run row is added.
PlaceDryRun(w, s) ==
    /\ tx[w].pc = "guard"
    /\ tx[w].mode = "DRY_RUN"
    /\ s \in tx[w].todo
    /\ ~Executed(w, s)
    /\ StaleRows(View(w), s) = {}
    /\ Free(w)
    /\ lock' = w
    /\ Becomes(w, [tx[w] EXCEPT !.todo = @ \ {s}, !.wdry = @ \cup {s}])
    /\ UNCHANGED <<db, ord, qty, clock>>

\* The cancelled order is still live at the broker: take its row back.
ReAdopt(w) ==
    LET s == tx[w].cur
    IN  /\ tx[w].pc = "check"
        /\ \E n \in Idx :
             /\ IsLatest(n, WithStatus(View(w), s, "broker_cancelled"))
             /\ Live(<<s, n>>)
             /\ Continue(w, s, [tx[w].wrow EXCEPT ![<<s, n>>] = "accepted_for_routing"])
        /\ Free(w)
        /\ lock' = w
        /\ UNCHANGED <<db, ord, qty, clock>>

\* No cancelled order, a dead one, or get_order failed: a fresh order.
ChooseClientOrderId(w) ==
    LET s == tx[w].cur
        n == NextClientOrderId(View(w), s)
    IN  /\ tx[w].pc = "check"
        /\ \A m \in Idx : IsLatest(m, WithStatus(View(w), s, "broker_cancelled"))
                            => ~Live(<<s, m>>) \/ "get" \in Faults
        /\ IF n \in Idx
             THEN Becomes(w, [tx[w] EXCEPT !.pc = "submit", !.idx = n])
             ELSE Continue(w, s, tx[w].wrow)    \* the bound MaxReplace
        /\ UNCHANGED <<db, ord, qty, clock, lock>>

Placing(w) == <<tx[w].cur, tx[w].idx>>

\* submit_order succeeds: a new order, or the open one with this
\* client_order_id.
SubmitOrder(w) ==
    /\ tx[w].pc = "submit"
    /\ ord[Placing(w)] \in {"none", "working"}
    /\ ord' = [ord EXCEPT ![Placing(w)] = "working"]
    /\ Becomes(w, [tx[w] EXCEPT !.pc = "record"])
    /\ UNCHANGED <<db, qty, clock, lock>>

\* BrokerValidationError: the order is refused, or the client_order_id
\* belongs to an order that is no longer open.
SubmitRefused(w) ==
    /\ tx[w].pc = "submit"
    /\ ord[Placing(w)] # "working"
    /\ Continue(w, tx[w].cur, tx[w].wrow)
    /\ UNCHANGED <<db, ord, qty, clock, lock>>

\* Any other exception; the broker may have taken the order all the same.
SubmitError(w) ==
    /\ tx[w].pc = "submit"
    /\ "submit" \in Faults
    /\ \/ ord' = ord
       \/ ord[Placing(w)] = "none" /\ ord' = [ord EXCEPT ![Placing(w)] = "working"]
    /\ Becomes(w, [tx[w] EXCEPT !.pc = "kill"])
    /\ UNCHANGED <<db, qty, clock, lock>>

\* Read-back agrees: the order's row is added and flushed.
RecordExecution(w) ==
    LET c == Placing(w)
    IN  /\ tx[w].pc = "record"
        /\ Free(w)
        /\ row[c] = "none"
        /\ lock' = w
        /\ Becomes(w, [tx[w] EXCEPT !.pc = "guard", !.cur = None, !.ins = @ \cup {c},
                                    !.wrow = [@ EXCEPT ![c] = "accepted_for_routing"]])
        /\ UNCHANGED <<db, ord, qty, clock>>

\* The flush meets the order's row, committed by another worker.
RecordConflict(w) ==
    /\ tx[w].pc = "record"
    /\ Free(w)
    /\ row[Placing(w)] # "none"
    /\ Becomes(w, IdleTx)
    /\ lock' = None
    /\ UNCHANGED <<db, ord, qty, clock>>

\* Read-back fails or shows another client_order_id.
ReadbackFails(w) ==
    /\ tx[w].pc = "record"
    /\ "readback" \in Faults
    /\ Becomes(w, [tx[w] EXCEPT !.pc = "kill"])
    /\ UNCHANGED <<db, ord, qty, clock, lock>>

\* _trigger_kill_switch inside the pass, which then stops.
TriggerKillSwitch(w) ==
    /\ tx[w].pc = "kill"
    /\ Free(w)
    /\ lock' = w
    /\ \E K \in SUBSET KillTargets(w) :
         /\ CancelSuccess(KillTargets(w), K)
         /\ ord' = CancelRequested(K)
    /\ Becomes(w, [tx[w] EXCEPT !.pc = "commit", !.wmode = "OFF"])
    /\ UNCHANGED <<db, qty, clock>>

EndPass(w) ==
    /\ tx[w].pc = "guard"
    /\ tx[w].todo = {}
    /\ Becomes(w, [tx[w] EXCEPT !.pc = "commit"])
    /\ UNCHANGED <<db, ord, qty, clock, lock>>

-----------------------------------------------------------------------------
(* The broker and the calendar *)

Execute(c) ==
    /\ Live(c)
    /\ \/ qty[c] = 0 /\ qty' = [qty EXCEPT ![c] = 1] /\ ord' = ord
       \/ qty' = [qty EXCEPT ![c] = 2] /\ ord' = [ord EXCEPT ![c] = "closed"]
    /\ UNCHANGED <<db, clock, lock, tx>>

\* A requested cancel takes effect, or the order expires or is cancelled in
\* the broker's own interface.
CloseAtBroker(c) ==
    /\ Live(c)
    /\ ord' = [ord EXCEPT ![c] = "closed"]
    /\ UNCHANGED <<db, qty, clock, lock, tx>>

\* No handler runs for hours: time passes while the workers are idle.
AllIdle == \A w \in Worker : tx[w].pc = "idle"

Aged == [c \in Coid |-> IF cancelledAt[c] = "fresh" THEN "old" ELSE cancelledAt[c]]

NewDay ==
    /\ AllIdle
    /\ recent # {} \/ Aged # cancelledAt
    /\ recent' = {}
    /\ cancelledAt' = Aged
    /\ UNCHANGED <<status, row, dry, mode, ord, qty, clock, lock, tx>>

AdvanceClock ==
    /\ AllIdle
    /\ clock < MaxClock
    /\ clock' = clock + 1
    /\ recent' = {}
    /\ cancelledAt' = Aged
    /\ UNCHANGED <<status, row, dry, mode, ord, qty, lock, tx>>

-----------------------------------------------------------------------------

Handler(w) ==
    \/ "generate" \in Duty[w] /\ PersistSuggestions(w)
    \/ "act" \in Duty[w] /\ \E s \in Suggestion, st \in {"accepted", "rejected"} :
                                ActOnSuggestion(w, s, st)
    \/ "unaccept" \in Duty[w] /\ \E s \in Suggestion :
                                     UnacceptUnplaced(w, s) \/ UnacceptPlaced(w, s)
    \/ "cancel_all" \in Duty[w] /\ CancelAllOrders(w)
    \/ "reset" \in Duty[w] /\ ResetWeekSuggestions(w)
    \/ "sweep" \in Duty[w] /\ SweepExpiredSuggestions(w)
    \/ "targets" \in Duty[w] /\ LoadTargets(w)
    \/ "reconcile" \in Duty[w] /\ Reconcile(w)
    \/ "promote" \in Duty[w] /\ \E m \in Mode : Promote(w, m)
    \/ "stop" \in Duty[w] /\ EmergencyStop(w)
    \/ "pass" \in Duty[w] /\ BeginPass(w)

PassStep(w) ==
    \/ \E s \in Suggestion : \/ GuardSkips(w, s)
                             \/ GuardLive(w, s)
                             \/ GuardRaises(w, s)
                             \/ PlaceDryRun(w, s)
    \/ ReAdopt(w)
    \/ ChooseClientOrderId(w)
    \/ SubmitOrder(w)
    \/ SubmitRefused(w)
    \/ SubmitError(w)
    \/ RecordExecution(w)
    \/ RecordConflict(w)
    \/ ReadbackFails(w)
    \/ TriggerKillSwitch(w)
    \/ EndPass(w)

Environment ==
    \/ \E c \in Coid : Execute(c) \/ CloseAtBroker(c)
    \/ NewDay
    \/ AdvanceClock

Next ==
    \/ \E w \in Worker : Handler(w) \/ PassStep(w) \/ Commit(w) \/ Rollback(w)
    \/ Environment

Spec == Init /\ [][Next]_vars

(***************************************************************************)
(* A handler that has begun runs on: SQLite's busy handler polls the lock  *)
(* until it is free, so a step that is enabled again and again is taken    *)
(* (strong fairness).  The scheduler runs the sweep and the reconciliation *)
(* on every working day, and time passes.                                  *)
(***************************************************************************)
WorkerFairness ==
    \A w \in Worker : SF_vars(PassStep(w)) /\ SF_vars(Commit(w)) /\ WF_vars(Rollback(w))

CronFairness ==
    /\ \A w \in Worker :
         /\ "sweep" \in Duty[w] => SF_vars(SweepExpiredSuggestions(w))
         /\ "reconcile" \in Duty[w] => SF_vars(Reconcile(w))
    /\ SF_vars(AdvanceClock)

FairSpec == Spec /\ WorkerFairness /\ CronFairness

-----------------------------------------------------------------------------
(* Properties *)

\* The broker never holds two working orders of one suggestion, whatever the
\* interleaving of passes and endpoints, the failed calls and the rollbacks:
\* the client_order_id run_auto_trade_pass derives fences a second submission.
AtMostOneWorking ==
    \A s \in Suggestion, m, n \in Idx :
        ord[<<s, m>>] = "working" /\ ord[<<s, n>>] = "working" => m = n

\* An order_execution row that says an order is gone (broker_cancelled, filled
\* or canceled) never hides an order still working: a working order is found
\* through an accepted_for_routing row or has no row at all.
WorkingOrderTracked ==
    \A c \in Coid : ord[c] = "working" => row[c] \in {"accepted_for_routing", "none"}

\* An order without a row, left behind by a rollback or a kill switch, is the
\* only one of its suggestion and carries the client_order_id that follows the
\* recorded ones: the next submission meets it instead of duplicating it.
LostOrderIsNext ==
    \A s \in Suggestion, n \in Idx :
        ord[<<s, n>>] # "none" /\ row[<<s, n>>] = "none" => n = Cardinality(RowsOf(row, s))

\* A suggestion is marked filled only if one of its orders was executed in
\* full, also when handlers overwrite one another's writes.
FilledMeansExecuted ==
    \A s \in Suggestion : status[s] = "filled" => \E n \in Idx : Filled(<<s, n>>)

\* Between handlers, a suggestion that was reset to pending, rejected or
\* cancelled (un-accepted or inferred) has no working order.
NoOrderWithoutMandate ==
    AllIdle => \A c \in Coid :
        status[c[1]] \in {"absent", "pending", "rejected", "cancelled"} => ord[c] # "working"

\* Between handlers, cancel-and-replace leaves at most one working order per
\* ticker, across suggestions and weeks.
OneWorkingPerTicker ==
    AllIdle => \A c, d \in Coid :
        /\ ord[c] = "working" /\ ord[d] = "working"
        /\ TickerOf[c[1]] = TickerOf[d[1]]
        => c = d

\* A recorded fill stays recorded: no cancel path turns a filled
\* order_execution row into something else.
RecordedFillStays ==
    [][\A c \in Coid : row[c] = "filled" => row'[c] = "filled"]_vars

\* A pass that began in DRY_RUN never creates or cancels a real order.
DryRunNeverTouchesBroker ==
    [][\A w \in Worker :
         tx[w].mode = "DRY_RUN" => \A c \in Coid : ord'[c] \in {ord[c], "closed"}]_vars

\* The suggestions for which a pass under way may still submit an order.
PassDue(w) ==
    CASE tx[w].mode = "LIVE" /\ tx[w].pc \in {"check", "submit"} -> tx[w].todo \cup {tx[w].cur}
      [] tx[w].mode = "LIVE" /\ tx[w].pc \in {"guard", "record"} -> tx[w].todo
      [] OTHER -> {}

\* A stop ends automated trading with the passes it finds under way, also when
\* handlers overlap: while the committed mode is OFF no pass takes up a
\* suggestion, and an order is created only by a pass that read its list before,
\* at most one for each suggestion left on that list.
StopFreezesOrders ==
    [][mode = "OFF" =>
         /\ \A w \in Worker : PassDue(w)' \subseteq PassDue(w)
         /\ \A c \in Coid : ord[c] = "none" /\ ord'[c] # "none" =>
              \E w \in Worker : c[1] \in PassDue(w) \ PassDue(w)']_vars

\* Every transaction ends: no handler waits for the lock for ever.
TransactionEnds ==
    \A w \in Worker : tx[w].pc # "idle" ~> tx[w].pc = "idle"

\* Handlers take seconds and run a few times a day: the workers do not keep
\* one another busy for ever, and the calendar (AdvanceClock) moves on.
QuietHours == []<>AllIdle

\* A suggestion past expires_at does not stay pending or accepted: a daily
\* sweep closes it, whatever passes and endpoints overwrite meanwhile.
StaleSuggestionExpires ==
    QuietHours =>
      \A s \in Suggestion :
        status[s] \in {"pending", "accepted"} /\ Expired(s)
          ~> status[s] \notin {"pending", "accepted"}

\* The accepted_for_routing row of an order that ended unfilled is settled by
\* the daily reconciliation.
DeadOrderRowSettles ==
    QuietHours =>
      \A c \in Coid : row[c] = "accepted_for_routing" /\ ord[c] = "closed" /\ ~Filled(c)
                        ~> row[c] # "accepted_for_routing"

-----------------------------------------------------------------------------
(* The inductive invariant behind the safety properties *)

\* A cancel was requested or the order has ended: it never works again.
Leaving(c) == ord[c] \in {"pending_cancel", "closed"}

\* A row stands for an order, and one that is not open for an order that leaves.
RowInv ==
    \A c \in Coid :
        /\ row[c] # "none" => ord[c] # "none"
        /\ row[c] \notin {"none", "accepted_for_routing"} => Leaving(c)

\* All orders before a suggestion's latest are recorded and leaving.
FenceInv ==
    \A s \in Suggestion, n, m \in Idx :
        m < n /\ ord[<<s, n>>] # "none" => row[<<s, m>>] # "none" /\ Leaving(<<s, m>>)

\* The same of the writes a transaction holds back.
WriteInv(w) ==
    \A c \in Coid :
        tx[w].wrow[c] # Keep =>
          /\ ord[c] # "none"
          /\ (tx[w].wrow[c] # "accepted_for_routing" => Leaving(c))
          /\ (row[c] # "none" \/ c \in tx[w].ins)

\* A pass inserts at most one row of a suggestion, and the client_order_id it
\* has chosen is taken or all earlier orders are recorded and leaving.
PassInv(w) ==
    /\ tx[w].pc = "idle" => tx[w] = IdleTx
    /\ tx[w].pc \in {"check", "submit", "record"} => tx[w].cur \in Suggestion
    /\ tx[w].cur \notin tx[w].todo
    /\ \A c \in tx[w].ins : c[1] \notin tx[w].todo \cup {tx[w].cur}
    /\ tx[w].pc = "submit" =>
         \/ ord[Placing(w)] # "none"
         \/ \A m \in Idx : (m < tx[w].idx) =>
              (row[<<tx[w].cur, m>>] # "none" /\ Leaving(<<tx[w].cur, m>>))
    /\ tx[w].pc = "record" => ord[Placing(w)] # "none"

IInv ==
    /\ TypeOK
    /\ RowInv
    /\ FenceInv
    /\ \A w \in Worker : WriteInv(w) /\ PassInv(w)

-----------------------------------------------------------------------------
(* Handlers that do not overlap *)

\* Handlers run one after the other, on whichever threads.
NoOverlap ==
    \A v, w \in Worker : tx[v].pc # "idle" /\ tx[w].pc # "idle" => v = w

\* No pass has left a working order behind without a row.
NoLostOrder == AllIdle => \A c \in Coid : ord[c] = "working" => row[c] # "none"

\* No pass breaks off because the cancel of a stale order raises.
NoPassRaises == [][\A w \in Worker, s \in Suggestion : ~GuardRaises(w, s)]_vars

\* A working order has a row, or the pass that has placed it holds the row back
\* or is about to write it; nobody else has a row of that name.
RecordedInv ==
    /\ \A c \in Coid : ord[c] = "working" =>
         \/ row[c] # "none"
         \/ \E w \in Worker : /\ tx[w].mode = "LIVE"
                              /\ c \in tx[w].ins \/ (tx[w].pc = "record" /\ c = Placing(w))
    /\ \A w \in Worker :
         /\ tx[w].pc # "kill"
         /\ tx[w].mode = "LIVE" => \A c \in tx[w].ins : row[c] = "none" /\ tx[w].wrow[c] # Keep
         /\ tx[w].pc = "check" => ~HasExecution(View(w), tx[w].cur)
         /\ tx[w].pc \in {"submit", "record"} => row[Placing(w)] = "none"

\* An order that works and is recorded as such, by the rows v.
Open(v, c) == v[c] = "accepted_for_routing" /\ ord[c] = "working"

\* The invariants below hold of such behaviours.  The mode of a pass is the
\* committed one, and only a LIVE pass comes near the broker.
ModeInv(w) ==
    /\ tx[w].pc \notin {"idle", "commit"} => tx[w].mode = mode /\ mode # "OFF"
    /\ tx[w].pc \in {"check", "submit", "record", "kill"} => tx[w].mode = "LIVE"

\* A row says filled only of a filled order, and no write takes that back.
FillRowInv ==
    /\ \A c \in Coid : row[c] = "filled" => Filled(c)
    /\ \A w \in Worker, c \in Coid :
         /\ tx[w].wrow[c] = "filled" => Filled(c)
         /\ row[c] = "filled" => tx[w].wrow[c] \in {Keep, "filled"}

OneOpenPerTicker(v) ==
    \A c, d \in Coid : Open(v, c) /\ Open(v, d) /\ TickerOf[c[1]] = TickerOf[d[1]] => c = d

\* One open order for a ticker, before and after the commit, and none while the
\* pass is about to place one.
TickerInv ==
    /\ OneOpenPerTicker(row)
    /\ \A w \in Worker :
         /\ OneOpenPerTicker(View(w))
         /\ tx[w].pc \in {"check", "submit", "record"} =>
              \A c \in Coid : TickerOf[c[1]] = TickerOf[tx[w].cur] => ~Open(View(w), c)

\* The statuses of suggestions that may have an open order.
Mandated == {"accepted", "expired", "filled"}

\* A suggestion's status once w has committed.
StatusAfter(w, s) == IF tx[w].wsug[s] # Keep THEN tx[w].wsug[s] ELSE status[s]

\* Open orders belong to such suggestions, before and after the commit; the
\* suggestions of a pass stay accepted.
MandateInv ==
    /\ \A c \in Coid : Open(row, c) => status[c[1]] \in Mandated
    /\ \A w \in Worker :
         /\ \A c \in Coid : Open(View(w), c) => StatusAfter(w, c[1]) \in Mandated
         /\ tx[w].pc \notin {"idle", "commit"} =>
              /\ \A s \in Suggestion : tx[w].wsug[s] = Keep
              /\ \A s \in tx[w].todo \cup ({tx[w].cur} \ {None}) : status[s] = "accepted"

-----------------------------------------------------------------------------
(* What the repository says of the program and the code does not do *)

\* sweep_expired_suggestions: an accepted suggestion past expires_at has its
\* broker order cancelled and is then marked expired.
ExpiredOrderCancelled ==
    AllIdle => \A c \in Coid : status[c[1]] = "expired" => ord[c] # "working"

\* run_auto_trade_pass re-adopts an order rather than placing a duplicate: a
\* suggestion is bought at most once.
NeverBuysTwice ==
    \A s \in Suggestion, m, n \in Idx :
        Filled(<<s, m>>) /\ Filled(<<s, n>>) => m = n

=============================================================================

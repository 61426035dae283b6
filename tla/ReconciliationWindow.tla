------------------------ MODULE ReconciliationWindow ------------------------
(***************************************************************************)
(* Which fills a reconciliation run sees.  get_activities selects broker   *)
(* orders by the time they were SUBMITTED, a run asks for those since the  *)
(* previous run or since the oldest open order_execution row was CREATED,  *)
(* and never looks back further than a cap.  The daily job reads the       *)
(* window in one session and reconciles in a second one, so that passes,   *)
(* cancels and the broker act between the two.                             *)
(***************************************************************************)
EXTENDS Integers

CONSTANTS
    Order,            \* broker orders of the account
    Overlap,          \* the hour of overlap, taken twice
    InitialLookback,  \* the 7 days a first run looks back
    MaxLookback,      \* reconciliation_max_lookback_days
    MaxTime,          \* bound on the clock
    Events            \* what else may happen to an order, see EventKind

\* A pass that rolls back after submitting, a cancel that the broker has not
\* acted on yet, and a pass that clears the row of an order that is done.
EventKind == {"rollback", "cancel", "clear"}

ASSUME WindowAssumption ==
    /\ Overlap \in Nat \ {0}
    /\ InitialLookback \in Nat
    /\ MaxLookback \in Nat
    /\ MaxTime \in Nat
    /\ Events \subseteq EventKind

VARIABLES
    now,
    ord,      \* the broker's order: none, live, filled, dead
    sub,      \* its submitted_at
    row,      \* order_execution.status: none, open, cancelled, filled
    created,  \* order_execution.created_at
    ran,      \* the account has a meta row: a run has ended
    lastRun,  \* its value
    busy,     \* the run has read its window
    since     \* the start of that window

vars == <<now, ord, sub, row, created, ran, lastRun, busy, since>>

TypeOK ==
    /\ now \in Nat
    /\ ord \in [Order -> {"none", "live", "filled", "dead"}]
    /\ sub \in [Order -> Nat]
    /\ row \in [Order -> {"none", "open", "cancelled", "filled"}]
    /\ created \in [Order -> Nat]
    /\ ran \in BOOLEAN
    /\ lastRun \in Nat
    /\ busy \in BOOLEAN
    /\ since \in Int

Init ==
    /\ now = 0
    /\ ord = [o \in Order |-> "none"]
    /\ sub = [o \in Order |-> 0]
    /\ row = [o \in Order |-> "none"]
    /\ created = [o \in Order |-> 0]
    /\ ran = FALSE
    /\ lastRun = 0
    /\ busy = FALSE
    /\ since = 0

-----------------------------------------------------------------------------
(* The auto-trade pass and the broker *)

\* An order is submitted and its row added in one pass.
Place(o) ==
    /\ ord[o] = "none"
    /\ ord' = [ord EXCEPT ![o] = "live"]
    /\ sub' = [sub EXCEPT ![o] = now]
    /\ row' = [row EXCEPT ![o] = "open"]
    /\ created' = [created EXCEPT ![o] = now]
    /\ UNCHANGED <<now, ran, lastRun, busy, since>>

\* An order is submitted, and the pass rolls back or trips the kill switch.
PlaceLost(o) ==
    /\ "rollback" \in Events
    /\ ord[o] = "none"
    /\ ord' = [ord EXCEPT ![o] = "live"]
    /\ sub' = [sub EXCEPT ![o] = now]
    /\ UNCHANGED <<now, row, created, ran, lastRun, busy, since>>

\* A later pass submits the same client_order_id and is given the open order.
Recover(o) ==
    /\ ord[o] = "live"
    /\ row[o] = "none"
    /\ row' = [row EXCEPT ![o] = "open"]
    /\ created' = [created EXCEPT ![o] = now]
    /\ UNCHANGED <<now, ord, sub, ran, lastRun, busy, since>>

\* Any of the cancel paths; the broker has not acted on the request yet.
CancelRow(o) ==
    /\ "cancel" \in Events
    /\ row[o] = "open"
    /\ ord[o] # "filled"
    /\ row' = [row EXCEPT ![o] = "cancelled"]
    /\ UNCHANGED <<now, ord, sub, created, ran, lastRun, busy, since>>

\* _check_stale_live_order, for another suggestion of the ticker: the order is
\* done, its row is cleared.
ClearRow(o) ==
    /\ "clear" \in Events
    /\ row[o] = "open"
    /\ ord[o] \in {"filled", "dead"}
    /\ row' = [row EXCEPT ![o] = "cancelled"]
    /\ UNCHANGED <<now, ord, sub, created, ran, lastRun, busy, since>>

\* The pass finds the cancelled order live and takes its row back.
ReAdopt(o) ==
    /\ row[o] = "cancelled"
    /\ ord[o] = "live"
    /\ row' = [row EXCEPT ![o] = "open"]
    /\ created' = [created EXCEPT ![o] = now]
    /\ UNCHANGED <<now, ord, sub, ran, lastRun, busy, since>>

\* The broker fills the order or ends it unfilled.
End(o) ==
    /\ ord[o] = "live"
    /\ \E st \in {"filled", "dead"} : ord' = [ord EXCEPT ![o] = st]
    /\ UNCHANGED <<now, sub, row, created, ran, lastRun, busy, since>>

-----------------------------------------------------------------------------
(* Reconciliation *)

\* Mutant: the window starts at the present run.
SinceLastRunNow == IF ran THEN now - Overlap ELSE now - InitialLookback

SinceLastRun == IF ran THEN lastRun - Overlap ELSE now - InitialLookback

OpenRows == {o \in Order : row[o] = "open"}

\* Mutant: the newest open row.
ReachesOpenRowsNewest(t) ==
    OpenRows = {} \/ \E o \in OpenRows : t <= created[o] - Overlap

\* t is not later than the oldest open row's created_at less the overlap.
ReachesOpenRows(t) == \A o \in OpenRows : t <= created[o] - Overlap

\* t is the earlier of the two starts.
WindowStart(t) ==
    /\ t <= SinceLastRun
    /\ ReachesOpenRows(t)
    /\ t = SinceLastRun \/ \E o \in OpenRows : t = created[o] - Overlap

\* The first session: the window, capped.
ReadWindow ==
    /\ ~busy
    /\ \E t \in {SinceLastRun} \cup {created[o] - Overlap : o \in OpenRows} :
         /\ WindowStart(t)
         /\ since' = IF t < now - MaxLookback THEN now - MaxLookback ELSE t
    /\ busy' = TRUE
    /\ UNCHANGED <<now, ord, sub, row, created, ran, lastRun>>

\* get_activities: filled orders submitted after the window's start, which is
\* moved back by another overlap.
Activities == {o \in Order : ord[o] = "filled" /\ sub[o] > since - Overlap}

\* The second session: persist_reconciliation, sync_open_order_statuses and
\* the meta row.
Reconcile ==
    /\ busy
    /\ row' = [o \in Order |->
                 IF o \in Activities THEN "filled"
                 ELSE IF row[o] = "open" /\ ord[o] = "dead" THEN "cancelled"
                 ELSE row[o]]
    /\ ran' = TRUE
    /\ lastRun' = now
    /\ busy' = FALSE
    /\ since' = 0
    /\ UNCHANGED <<now, ord, sub, created>>

\* The run fails: the broker's call raises and the job skips the account.
RunFails ==
    /\ busy
    /\ busy' = FALSE
    /\ since' = 0
    /\ UNCHANGED <<now, ord, sub, row, created, ran, lastRun>>

Tick ==
    /\ now < MaxTime
    /\ now' = now + 1
    /\ UNCHANGED <<ord, sub, row, created, ran, lastRun, busy, since>>

Next ==
    \/ \E o \in Order : \/ Place(o) \/ PlaceLost(o) \/ Recover(o)
                        \/ CancelRow(o) \/ ClearRow(o) \/ ReAdopt(o) \/ End(o)
    \/ ReadWindow \/ Reconcile \/ RunFails
    \/ Tick

Spec == Init /\ [][Next]_vars

\* The job runs every working day, and not every run fails.
FairSpec == Spec /\ WF_vars(ReadWindow) /\ SF_vars(Reconcile)

-----------------------------------------------------------------------------
(* Properties *)

\* The row was created when the order was submitted: not recovered and not
\* re-adopted later.
Prompt(o) == created[o] = sub[o]

\* The next run that completes records the fill of an order tracked since its
\* submission, however long ago that was within the cap, and whatever
\* placements, cancels and fills happen between its two sessions.
NextRunRecordsFill ==
    [][Reconcile =>
         \A o \in Order :
            /\ row[o] = "open" /\ ord[o] = "filled" /\ Prompt(o)
            /\ sub[o] > now - MaxLookback
            => row'[o] = "filled"]_vars

\* A fill of an order submitted since the last completed run is recorded even
\* if the order has no row or its row says cancelled.
RecentFillRecorded ==
    [][Reconcile =>
         \A o \in Order :
            /\ ran /\ ord[o] = "filled"
            /\ sub[o] >= lastRun
            /\ sub[o] > now - MaxLookback
            => row'[o] = "filled"]_vars

\* The fill of an order tracked since its submission is recorded in the end,
\* unless a pass clears its row first or the cap on the lookback passes it.
PromptFillSettles ==
    \A o \in Order :
        row[o] = "open" /\ ord[o] = "filled" /\ Prompt(o)
          ~> row[o] \in {"filled", "cancelled"} \/ sub[o] <= now - MaxLookback

\* The inductive invariant: a window that has been read starts no later than
\* now and than the last completed run, and reaches every prompt open order.
WindowInv ==
    /\ TypeOK
    /\ lastRun <= now
    /\ \A o \in Order : sub[o] <= now
    /\ busy =>
         /\ since <= now
         /\ ran => since <= lastRun \/ since <= now - MaxLookback
         /\ \A o \in Order : row[o] = "open" /\ Prompt(o) =>
              since <= sub[o] \/ sub[o] <= now - MaxLookback

=============================================================================

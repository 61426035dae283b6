--------------------------- MODULE BrokerAccounts ---------------------------
(***************************************************************************)
(* One broker account as the system keeps it: the state rows of            *)
(* broker_account (close and insert), the snapshots of its position, its   *)
(* adapter, the sync jobs that fetch from the broker and write, the admin  *)
(* who onboards and deletes it, restarts, and the daily job that tells     *)
(* transfers from trades in the cash balance.                              *)
(*                                                                         *)
(* A time is the number of outside events so far (transfers, fills, price  *)
(* moves, midnights), so a state fetched at time n shows the events 1..n.  *)
(***************************************************************************)
EXTENDS Integers, Sequences, FiniteSets, FiniteSetsExt, Functions

CONSTANTS
    Syncer,      \* threads that may sync the account
    Amount,      \* transfers in (positive) or out (negative)
    Price,       \* what a fill costs, and what the position may be worth
    Opening,     \* the cash the account has when it is onboarded
    OpeningWorth,  \* what its position is worth then
    Threshold,   \* funds_detection_threshold_usd
    TombstoneDays,  \* how far back take_snapshot looks for closed positions
    MaxTime,     \* bound on the outside events
    MaxDeletes,  \* bound on deletes
    LastDelete   \* bound on the time of a delete

ASSUME AccountsAssumption ==
    /\ Amount \subseteq Int /\ Price \subseteq Nat \ {0}
    /\ Opening \in Nat /\ OpeningWorth \in Price \cup {0}
    /\ Threshold \in Nat /\ TombstoneDays \in Nat
    /\ MaxTime \in Nat \ {0} /\ MaxDeletes \in Nat /\ LastDelete \in Nat

VARIABLES
    now,        \* outside events so far
    midnights,  \* the times at which a day began
    cash, worth,   \* at the broker: the cash, the value of the position (0: none)
    transfers,  \* history: transfers, with their times
    fills,      \* fills, with their times; recorded: it is an order_execution row
    rows,       \* broker_account rows of the account
    snap,       \* the positions_snapshot row of the ticker with the largest ts
    adapter,    \* the account has an entry in app.state.adapters
    sync,       \* what each syncer has fetched and read
    events,     \* funds_event rows
    deletes     \* how often the account was deleted

broker == <<cash, worth, transfers, fills>>
vars == <<now, midnights, cash, worth, transfers, fills, rows, snap, adapter, sync, events, deletes>>

Day        == Cardinality(midnights)
DayOf(t)   == Cardinality({m \in midnights : m <= t})
TodayStart == Max(midnights)

Open   == {i \in DOMAIN rows : rows[i].open}
Active == \E i \in Open : rows[i].active

\* The row with the latest sync, 0 if there is none; of rows synced between the
\* same two outside events the last written.
Newest(S) ==
    IF S = {} THEN 0
    ELSE CHOOSE i \in S :
           \A j \in S \ {i} :
             \/ rows[i].sync > rows[j].sync
             \/ rows[i].sync = rows[j].sync /\ i > j

Latest == Newest(Open)

NoSnap   == [held |-> FALSE, at |-> -1]
IdleSync == [pc |-> "idle", cash |-> 0, equity |-> 0, at |-> 0, held |-> FALSE,
             latest |-> 0, active |-> FALSE, seen |-> NoSnap]

Init ==
    /\ now = 1 /\ midnights = {1}
    /\ cash = Opening /\ worth = OpeningWorth
    /\ transfers = {} /\ fills = {}
    /\ rows = <<>> /\ snap = NoSnap /\ adapter = FALSE
    /\ sync = [s \in Syncer |-> IdleSync]
    /\ events = {} /\ deletes = 0

----------------------------------------------------------------------------
\* The admin.

\* POST /admin/broker-accounts: a row without balances, and the adapter.
CreateBrokerAccount ==
    /\ rows = <<>>
    /\ rows' = <<[cash |-> 0, equity |-> 0, sync |-> now, open |-> TRUE, active |-> TRUE]>>
    /\ adapter' = TRUE
    /\ UNCHANGED <<now, midnights, broker, snap, sync, events, deletes>>

\* DELETE /admin/broker-accounts: every row of the account becomes inactive.
DeleteBrokerAccount ==
    /\ rows # <<>> /\ deletes < MaxDeletes /\ now <= LastDelete
    /\ deletes' = deletes + 1
    /\ rows' = [i \in DOMAIN rows |-> [rows[i] EXCEPT !.active = FALSE]]
    /\ adapter' = FALSE
    /\ UNCHANGED <<now, midnights, broker, snap, sync, events>>

\* The process stops and starts: the adapter of an active account is built from
\* the configuration that the onboarding has tried.
Restart ==
    /\ adapter' = Active
    /\ sync' = [s \in Syncer |-> IdleSync]
    /\ UNCHANGED <<now, midnights, broker, rows, snap, events, deletes>>

----------------------------------------------------------------------------
\* Sync: take_snapshot and _write_broker_account.

\* A position row that take_snapshot still sees when it looks for closed ones.
Recent(row)  == row # NoSnap /\ DayOf(row.at) >= Day - TombstoneDays
RecentlySeen == Recent(snap)

\* get_account, whose time is the time of every row that the sync writes.
SyncFetch(s) ==
    /\ sync[s].pc = "idle"
    /\ Active /\ adapter
    /\ sync' = [sync EXCEPT ![s] =
          [IdleSync EXCEPT !.pc = "fetched", !.cash = cash, !.equity = cash + worth, !.at = now]]
    /\ UNCHANGED <<now, midnights, broker, rows, snap, adapter, events, deletes>>

\* get_positions and the read of the tickers seen lately.  If there is a position
\* row to write, a tombstone included, the write lock is taken before the latest
\* account row is read; else that row is read now.
SyncRead(s) ==
    /\ sync[s].pc = "fetched"
    /\ sync' = [sync EXCEPT ![s] =
          IF worth > 0 \/ RecentlySeen
          THEN [@ EXCEPT !.pc = "locked", !.held = (worth > 0)]
          ELSE [@ EXCEPT !.pc = "unlocked", !.latest = Latest,
                         !.active = rows[Latest].active, !.seen = snap]]
    /\ UNCHANGED <<now, midnights, broker, rows, snap, adapter, events, deletes>>

\* A mutant of SameValues: only the equity is compared.
SameEquity(row, f) == row.equity = f.equity

SameValues(row, f) == row.cash = f.cash /\ row.equity = f.equity

\* A mutant of Written: the latest row is not closed.
WrittenBeside(latest, active, f) ==
    IF SameValues(rows[latest], f) THEN [rows EXCEPT ![latest].sync = f.at]
    ELSE Append(rows,
                [cash |-> f.cash, equity |-> f.equity, sync |-> f.at,
                 open |-> TRUE, active |-> active])

\* _write_broker_account: unchanged values get the new time of sync in place,
\* others close the latest row and add one with its identity.
Written(latest, active, f) ==
    IF SameValues(rows[latest], f) THEN [rows EXCEPT ![latest].sync = f.at]
    ELSE Append([rows EXCEPT ![latest].open = FALSE],
                [cash |-> f.cash, equity |-> f.equity, sync |-> f.at,
                 open |-> TRUE, active |-> active])

\* What readers may take for the latest row once the sync has written a row: the
\* one with the larger ts, whichever was written last.
LatestOf(f) ==
    {x \in {snap, [held |-> f.held, at |-> f.at]} : x.at >= snap.at /\ x.at >= f.at}

\* A mutant of Snapshots: a closed position leaves no row.
SnapshotsWithoutTombstone(f) == IF f.held THEN LatestOf(f) ELSE {snap}

\* A mutant of Snapshots: the last written row counts, whatever its time.
SnapshotsLastWritten(f) ==
    IF f.pc = "locked" THEN {[held |-> f.held, at |-> f.at]} ELSE {snap}

\* The row of the position, or the tombstone of one that was closed, if the sync
\* found one of them to write.
Snapshots(f) == IF f.pc = "locked" THEN LatestOf(f) ELSE {snap}

SyncWrite(s) ==
    LET f == sync[s]
        i == IF f.pc = "locked" THEN Latest ELSE f.latest
        a == IF f.pc = "locked" THEN rows[Latest].active ELSE f.active
    IN  /\ f.pc \in {"locked", "unlocked"}
        /\ rows' = Written(i, a, f)
        /\ snap' \in Snapshots(f)
        /\ sync' = [sync EXCEPT ![s] = IdleSync]
        /\ UNCHANGED <<now, midnights, broker, adapter, events, deletes>>

\* The broker or the database fails; nothing is written.
SyncFails(s) ==
    /\ sync[s].pc # "idle"
    /\ sync' = [sync EXCEPT ![s] = IdleSync]
    /\ UNCHANGED <<now, midnights, broker, rows, snap, adapter, events, deletes>>

----------------------------------------------------------------------------
\* Funds detection.

Sum(S)          == SumFunctionOnSet([e \in S |-> e.usd], S)
Window(S, a, b) == {e \in S : e.at > a /\ e.at <= b}

\* The latest row whose sync predates today, 0 if there is none.
PriorRow == Newest({i \in DOMAIN rows : rows[i].sync < TodayStart})

\* A mutant of TradeFlow: fills since the start of the day only.
TradeFlowToday(a, b) == Sum(Window({f \in fills : f.recorded}, TodayStart, b))

\* The cash that the recorded fills explain.
TradeFlow(a, b) == Sum(Window({f \in fills : f.recorded}, a, b))

\* A mutant of Exceeds: a flow of the threshold itself counts.
ExceedsOrEquals(flow) == flow >= Threshold \/ flow <= -Threshold

Exceeds(flow) == flow > Threshold \/ flow < -Threshold

\* run_funds_detection_all_brokers, once a day; a run that finds nothing changes
\* nothing.
DetectFunds ==
    LET cur  == Latest
        prev == PriorRow
        a    == rows[prev].sync
        b    == rows[cur].sync
        flow == rows[cur].cash - rows[prev].cash - TradeFlow(a, b)
    IN  /\ Active /\ prev # 0
        /\ \A e \in events : e.day # Day
        /\ Exceeds(flow)
        /\ events' = events \cup
             {[day |-> Day, usd |-> flow, from |-> prev, after |-> a, upto |-> b,
               unrecorded |-> Sum(Window({f \in fills : ~f.recorded}, a, b))]}
        /\ UNCHANGED <<now, midnights, broker, rows, snap, adapter, sync, deletes>>

----------------------------------------------------------------------------
\* Outside.

\* What happens before the account is onboarded or once it is deleted does not
\* matter.
Happens == Active /\ now < MaxTime /\ now' = now + 1

Transfer ==
    /\ Happens
    /\ \E u \in Amount : /\ cash + u >= 0
                         /\ cash' = cash + u
                         /\ transfers' = transfers \cup {[at |-> now + 1, usd |-> u]}
    /\ UNCHANGED <<midnights, worth, fills, rows, snap, adapter, sync, events, deletes>>

\* A buy opens the position, a sell closes it, at once; the fill is not recorded
\* yet.
Fill ==
    /\ Happens
    /\ \E p \in Price :
         LET usd == IF worth > 0 THEN worth ELSE -p
         IN  /\ cash + usd >= 0
             /\ cash' = cash + usd
             /\ worth' = IF worth > 0 THEN 0 ELSE p
             /\ fills' = fills \cup {[at |-> now + 1, usd |-> usd, recorded |-> FALSE]}
    /\ UNCHANGED <<midnights, transfers, rows, snap, adapter, sync, events, deletes>>

\* The daily reconciliation of an active account with an adapter records the fills.
RecordFills ==
    /\ Active /\ adapter
    /\ \E f \in fills : ~f.recorded
    /\ fills' = {[f EXCEPT !.recorded = TRUE] : f \in fills}
    /\ UNCHANGED <<now, midnights, cash, worth, transfers, rows, snap, adapter, sync, events, deletes>>

PriceMoves ==
    /\ Happens
    /\ worth > 0
    /\ \E p \in Price \ {worth} : worth' = p
    /\ UNCHANGED <<midnights, cash, transfers, fills, rows, snap, adapter, sync, events,
                   deletes>>

Midnight ==
    /\ Happens
    /\ midnights' = midnights \cup {now + 1}
    /\ UNCHANGED <<broker, rows, snap, adapter, sync, events, deletes>>

Next ==
    \/ CreateBrokerAccount \/ DeleteBrokerAccount \/ Restart
    \/ \E s \in Syncer : SyncFetch(s) \/ SyncRead(s) \/ SyncWrite(s) \/ SyncFails(s)
    \/ DetectFunds \/ RecordFills
    \/ Transfer \/ Fill \/ PriceMoves \/ Midnight

Spec == Init /\ [][Next]_vars

----------------------------------------------------------------------------

TypeOK ==
    /\ now \in 1 .. MaxTime /\ midnights \subseteq 1 .. now
    /\ cash \in Nat /\ worth \in Price \cup {0}
    /\ \A i \in DOMAIN rows :
         rows[i].cash \in Nat /\ rows[i].sync \in 1 .. now /\ rows[i].equity >= rows[i].cash
    /\ snap.at <= now
    /\ \A e \in events : /\ e.day \in 1 .. Day /\ e.from \in DOMAIN rows
                         /\ e.usd \in Int /\ e.usd \notin -Threshold .. Threshold
    /\ adapter \in BOOLEAN /\ deletes \in 0 .. MaxDeletes

\* What a funds event reports is what was transferred in the window it names,
\* plus the fills the reconciliation has not recorded yet: trades, price moves
\* and syncs of any number, in place or not, cancel out.  Two cases are left out:
\* an event that compares with the empty row of the onboarding counts the balance
\* found too, and of two overlapping syncs the one that fetched first may write
\* last, so that the open row is older than the one before today.
EventExact ==
    \A e \in events : e.from # 1 /\ e.after <= e.upto =>
      e.usd = Sum(Window(transfers, e.after, e.upto)) + e.unrecorded

\* Each day's event reports the flow against the prior day, so that a transfer
\* is reported once: no two events, of which neither compares with the empty row
\* of the onboarding, have it in their windows.
ReportedOnce ==
    \A e, f \in events : e # f /\ e.from # 1 /\ f.from # 1 =>
      Window(transfers, e.after, e.upto) \cap Window(transfers, f.after, f.upto) = {}

\* Syncs that overlap leave one open row, and a sync that overlaps with a delete
\* does not bring the account back: the write lock is held when the latest row is
\* read.  Only a sync without a position row to write reads it too early.
IdentityKept ==
    [][(\A s \in Syncer : sync[s].pc # "unlocked") =>
         /\ Cardinality(Open) <= 1 => Cardinality(Open') <= 1
         /\ deletes > 0 /\ ~Active => ~Active']_vars

\* After a sync the latest position rows show what the broker returned to the
\* newest sync: a position it returned is there, one it did not return is gone,
\* unless its last row is older than take_snapshot looks back.  A sync that asked
\* earlier and writes later leaves them alone.  Only a sync that found no recent
\* row, while another has written one since, leaves a closed position for the next
\* sync: it read the tickers without the write lock.
PositionsFollow ==
    [][\A s \in Syncer : SyncWrite(s) =>
         /\ sync[s].at < snap.at => snap' = snap
         /\ sync[s].at > snap.at /\ (sync[s].pc = "unlocked" => sync[s].seen = snap) =>
              /\ sync[s].held => snap'.held
              /\ snap'.held => sync[s].held \/ ~RecentlySeen]_vars

----------------------------------------------------------------------------
\* What every step keeps.

\* The cash at time t: what was there at first and all that has moved since.
BalanceAt(t) ==
    Opening + Sum({e \in transfers : e.at <= t}) + Sum({e \in fills : e.at <= t})

\* The rows but the first, which the onboarding leaves empty, and what the
\* syncers hold show the cash of their time.
BalanceInv ==
    /\ cash = BalanceAt(now)
    /\ \A i \in DOMAIN rows \ {1} : rows[i].cash = BalanceAt(rows[i].sync)
    /\ \A s \in Syncer : sync[s].pc # "idle" =>
         rows # <<>> /\ sync[s].cash = BalanceAt(sync[s].at)

\* The last row is open, the first one no longer once there are others.
RowsInv ==
    /\ rows # <<>> => rows[Len(rows)].open
    /\ 1 \in Open => Len(rows) = 1
    /\ \A s \in Syncer : sync[s].pc = "unlocked" => sync[s].latest \in DOMAIN rows
    /\ rows = <<>> => deletes = 0

\* A row that a sync found to be too old does not become recent again, and a sync
\* that saw a position writes a row.
SeenInv ==
    \A s \in Syncer :
      /\ sync[s].pc = "unlocked" => ~Recent(sync[s].seen)
      /\ sync[s].held => sync[s].pc = "locked"

\* One event at a time; windows end in the past.
TimesInv ==
    /\ \A e, f \in transfers : e.at = f.at => e = f
    /\ \A e, f \in fills : e.at = f.at => e = f
    /\ \A e \in transfers \cup fills : e.at \in 1 .. now
    /\ \A e \in events : e.upto <= now

=============================================================================

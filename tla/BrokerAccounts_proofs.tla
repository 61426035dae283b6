------------------------ MODULE BrokerAccounts_proofs ------------------------
(***************************************************************************)
(* Proofs about BrokerAccounts for any number of syncing threads, any      *)
(* transfers, fills and prices, and any number of days.                    *)
(***************************************************************************)
EXTENDS BrokerAccounts, SumTheorems

-----------------------------------------------------------------------------
(* Sums of transfers and fills *)

\* Transfers or fills up to time n.
Ledger(T, n) == IsFiniteSet(T) /\ \A e \in T : e.at \in 1 .. n /\ e.usd \in Int

SumTo(T, t) == Sum({e \in T : e.at <= t})

\* A sum over a part of a ledger is a number, whichever function gives the amounts.
LEMMA SumOf ==
    ASSUME NEW S, IsFiniteSet(S), \A e \in S : e.usd \in Int, NEW R \in SUBSET S
    PROVE  Sum(R) \in Int /\ Sum(R) = SumFunctionOnSet([e \in S |-> e.usd], R)
<1> DEFINE f == [e \in S |-> e.usd]
           g == [e \in R |-> e.usd]
<1>1. IsFiniteSet(R) /\ \A e \in R : g[e] = f[e]
  BY FS_Subset
<1>2. \A e \in R : g[e] \in Int
  OBVIOUS
<1> HIDE DEF f, g
<1>3. SumFunctionOnSet(g, R) \in Int /\ SumFunctionOnSet(g, R) = SumFunctionOnSet(f, R)
  BY <1>1, <1>2, SumInt, SumAgree
<1> QED BY <1>3 DEF Sum, f, g

\* Two parts add up.
LEMMA SumParts ==
    ASSUME NEW S, NEW T, IsFiniteSet(S), IsFiniteSet(T), S \cap T = {},
           \A e \in S \cup T : e.usd \in Int
    PROVE  Sum(S \cup T) = Sum(S) + Sum(T)
<1> DEFINE U == S \cup T
           f == [e \in U |-> e.usd]
<1>1. IsFiniteSet(U) /\ S \in SUBSET U /\ T \in SUBSET U /\ U \in SUBSET U
  BY FS_Union
<1>2. Sum(S) = SumFunctionOnSet(f, S) /\ Sum(T) = SumFunctionOnSet(f, T)
      /\ Sum(U) = SumFunctionOnSet(f, U)
  BY <1>1, SumOf
<1>3. \A e \in S \cup T : f[e] \in Int
  OBVIOUS
<1> HIDE DEF f
<1>4. SumFunctionOnSet(f, S \cup T) = SumFunctionOnSet(f, S) + SumFunctionOnSet(f, T)
  BY <1>3, SumDisjoint
<1> QED BY <1>2, <1>4

\* One entry.
LEMMA SumSingle == ASSUME NEW e, e.usd \in Int PROVE Sum({e}) = e.usd
<1> DEFINE f == [x \in {e} |-> x.usd]
<1>1. IsFiniteSet({e}) /\ e \in {e} /\ {e} \ {e} = {} /\ f[e] = e.usd
  BY FS_Singleton
<1>2. \A x \in {e} : f[x] \in Int
  OBVIOUS
<1> HIDE DEF f
<1>3. SumFunctionOnSet(f, {e}) = f[e] + SumFunctionOnSet(f, {e} \ {e})
  BY <1>1, <1>2, SumRemove
<1>4. SumFunctionOnSet(f, {e}) = e.usd
  BY <1>1, <1>3, SumEmpty
<1> QED BY <1>4 DEF f, Sum

\* What has moved up to a time is a number.
LEMMA SumToType ==
    ASSUME NEW T, NEW n \in Nat, Ledger(T, n), NEW t
    PROVE  SumTo(T, t) \in Int /\ IsFiniteSet({e \in T : e.at <= t})
<1>1. {e \in T : e.at <= t} \in SUBSET T
  OBVIOUS
<1> QED BY <1>1, SumOf, FS_Subset DEF Ledger, SumTo

\* A new entry counts from its time on.
LEMMA SumToNext ==
    ASSUME NEW T, NEW n \in Nat, Ledger(T, n), NEW x, x.at = n + 1, x.usd \in Int
    PROVE  /\ Ledger(T \cup {x}, n + 1)
           /\ \A t \in Int : t <= n => SumTo(T \cup {x}, t) = SumTo(T, t)
           /\ SumTo(T \cup {x}, n + 1) = SumTo(T, n) + x.usd
<1>1. Ledger(T \cup {x}, n + 1)
  <2>1. IsFiniteSet(T \cup {x})
    BY FS_AddElement DEF Ledger
  <2> QED BY <2>1 DEF Ledger
<1>2. ASSUME NEW t \in Int, t <= n PROVE SumTo(T \cup {x}, t) = SumTo(T, t)
  <2>1. {e \in T \cup {x} : e.at <= t} = {e \in T : e.at <= t}
    BY <1>2
  <2> QED BY <2>1 DEF SumTo
<1>3. SumTo(T \cup {x}, n + 1) = SumTo(T, n) + x.usd
  <2>1. {e \in T \cup {x} : e.at <= n + 1} = T \cup {x} /\ {e \in T : e.at <= n} = T
    BY DEF Ledger
  <2>2. IsFiniteSet(T) /\ IsFiniteSet({x}) /\ T \cap {x} = {} /\ \A e \in T \cup {x} : e.usd \in Int
    <3>1. x \notin T
      BY DEF Ledger
    <3> QED BY <3>1, FS_Singleton DEF Ledger
  <2>3. Sum(T \cup {x}) = Sum(T) + Sum({x})
    BY <2>2, SumParts
  <2> QED BY <2>1, <2>3, SumSingle DEF SumTo
<1> QED BY <1>1, <1>2, <1>3

\* When time passes without an entry nothing changes.
LEMMA SumToLater ==
    ASSUME NEW T, NEW n \in Nat, Ledger(T, n)
    PROVE  Ledger(T, n + 1) /\ SumTo(T, n + 1) = SumTo(T, n)
<1>1. {e \in T : e.at <= n + 1} = {e \in T : e.at <= n}
  BY DEF Ledger
<1> QED BY <1>1 DEF Ledger, SumTo

\* What moves between two times.
LEMMA SumToWindow ==
    ASSUME NEW T, NEW n \in Nat, Ledger(T, n), NEW a \in Int, NEW b \in Int, a <= b
    PROVE  /\ SumTo(T, b) = SumTo(T, a) + Sum(Window(T, a, b))
           /\ IsFiniteSet(Window(T, a, b)) /\ Sum(Window(T, a, b)) \in Int
<1> DEFINE A == {e \in T : e.at <= a}
           W == Window(T, a, b)
<1>1. A \in SUBSET T /\ W \in SUBSET T
  BY DEF Window
<1>2. IsFiniteSet(A) /\ IsFiniteSet(W) /\ Sum(W) \in Int
  BY <1>1, FS_Subset, SumOf DEF Ledger
<1>3. A \cap W = {} /\ A \cup W = {e \in T : e.at <= b}
  BY DEF Ledger, Window
<1>4. \A e \in A \cup W : e.usd \in Int
  BY <1>1 DEF Ledger
<1> HIDE DEF A, W
<1>5. Sum(A \cup W) = Sum(A) + Sum(W)
  BY <1>2, <1>3, <1>4, SumParts
<1> QED BY <1>2, <1>3, <1>5 DEF SumTo, A, W

FillType == [at : Nat, usd : Int, recorded : BOOLEAN]

\* One entry at a time.
OneAtATime(T) == \A e, f \in T : e.at = f.at => e = f

Recorded(T) == {[f EXCEPT !.recorded = TRUE] : f \in T}

\* R are the same fills up to time n as T, in their types, one at a time.
SameFills(R, T, n) ==
    /\ Ledger(R, n) /\ R \in SUBSET FillType /\ OneAtATime(R)
    /\ \A t \in Int : SumTo(R, t) = SumTo(T, t)

\* Recording fills moves no money.
LEMMA SumToRecorded ==
    ASSUME NEW T \in SUBSET FillType, NEW n \in Nat, Ledger(T, n), OneAtATime(T)
    PROVE  SameFills(Recorded(T), T, n)
<1> DEFINE R == Recorded(T)
           h == [f \in T |-> [f EXCEPT !.recorded = TRUE]]
<1>1. \A f \in T : /\ h[f] \in FillType /\ h[f].at = f.at /\ h[f].usd = f.usd
  BY DEF FillType
<1>2. R = {h[f] : f \in T}
  BY DEF Recorded
<1> HIDE DEF h, R
<1>3. \A e, f \in T : h[e] = h[f] => e = f
  BY <1>1 DEF OneAtATime
<1>4. IsFiniteSet(R)
  <2>1. h \in Surjection(T, R)
    <3>1. h \in [T -> R]
      <4>1. h = [f \in T |-> h[f]]
        BY DEF h
      <4> QED BY <1>2, <4>1
    <3>2. \A r \in R : \E f \in T : h[f] = r
      BY <1>2
    <3> QED BY <3>1, <3>2 DEF Surjection
  <2> QED BY <2>1, FS_Surjection DEF Ledger
<1>5. Ledger(R, n) /\ R \in SUBSET FillType /\ OneAtATime(R)
  BY <1>1, <1>2, <1>4 DEF Ledger, OneAtATime
<1>6. ASSUME NEW t \in Int PROVE SumTo(R, t) = SumTo(T, t)
  <2> DEFINE S == {e \in T : e.at <= t}
             f == [e \in S |-> e.usd]
             Q == {e \in R : e.at <= t}
             g == [e \in Q |-> e.usd]
  <2>1. Q = {h[e] : e \in S}
    BY <1>1, <1>2
  <2>2. IsFiniteSet(S)
    BY FS_Subset DEF Ledger
  <2>3. \A e \in S : f[e] \in Int /\ g[h[e]] = f[e]
    BY <1>1, <1>2 DEF Ledger
  <2>4. \A x, y \in S : h[x] = h[y] => x = y
    BY <1>3
  <2> HIDE DEF S, f, Q, g
  <2>5. SumFunctionOnSet(g, {h[e] : e \in S}) = SumFunctionOnSet(f, S)
    BY <2>2, <2>3, <2>4, SumRename
  <2> QED BY <2>1, <2>5 DEF SumTo, Sum, S, f, Q, g
<1> QED BY <1>5, <1>6 DEF SameFills, R

-----------------------------------------------------------------------------
(* Types *)

RowType == [cash : Nat, equity : Nat, sync : Nat, open : BOOLEAN, active : BOOLEAN]

SnapType == [held : BOOLEAN, at : Int]

SyncType ==
    [pc : {"idle", "fetched", "locked", "unlocked"}, cash : Nat, equity : Nat, at : Nat,
     held : BOOLEAN, latest : Nat, active : BOOLEAN, seen : SnapType]

EventType == [day : Int, usd : Int, from : Int, after : Int, upto : Int, unrecorded : Int]

\* What a sync holds is of the past, and its equity contains the cash.
Timely(t, f) == f.at \in 1 .. t /\ f.seen.at <= t /\ f.equity >= f.cash

Types ==
    /\ now \in 1 .. MaxTime /\ midnights \in SUBSET (1 .. now) /\ 1 \in midnights
    /\ cash \in Nat /\ worth \in Price \cup {0}
    /\ transfers \in SUBSET [at : Nat, usd : Int] /\ Ledger(transfers, now)
    /\ fills \in SUBSET FillType /\ Ledger(fills, now)
    /\ rows \in Seq(RowType)
    /\ \A i \in DOMAIN rows : rows[i].sync \in 1 .. now /\ rows[i].equity >= rows[i].cash
    /\ snap \in SnapType /\ snap.at <= now
    /\ adapter \in BOOLEAN /\ deletes \in 0 .. MaxDeletes
    /\ sync \in [Syncer -> SyncType]
    /\ \A s \in Syncer : sync[s].pc # "idle" => Timely(now, sync[s])
    /\ events \in SUBSET EventType
    /\ \A e \in events : /\ e.day \in 1 .. Day /\ e.from \in DOMAIN rows
                         /\ e.usd \notin -Threshold .. Threshold

\* The inductive invariant.
Inv == Types /\ BalanceInv /\ RowsInv /\ TimesInv /\ SeenInv /\ EventExact

\* A position row that is recent, given the midnights.
RecentIn(M, row) ==
    row # NoSnap /\ Cardinality({m \in M : m <= row.at}) >= Cardinality(M) - TombstoneDays

\* What SeenInv says of one syncer.
Seen(M, f) ==
    /\ f.pc = "unlocked" => ~RecentIn(M, f.seen)
    /\ f.held => f.pc = "locked"

\* SeenInv in these terms.
LEMMA SeenIs ==
    /\ SeenInv <=> \A s \in Syncer : Seen(midnights, sync[s])
    /\ SeenInv' <=> \A s \in Syncer : Seen(midnights', sync'[s])
    /\ RecentlySeen <=> RecentIn(midnights, snap)
BY DEF SeenInv, Seen, Recent, RecentIn, RecentlySeen, Day, DayOf

\* The invariant holds at first.
LEMMA InitInv == Init => Inv
<1> SUFFICES ASSUME Init PROVE Inv
  OBVIOUS
<1>1. Ledger({}, 1)
  BY FS_EmptySet DEF Ledger
<1>2. 1 \in 1 .. MaxTime /\ Opening \in Nat /\ MaxDeletes \in Nat /\ 0 \in Price \cup {0}
  BY AccountsAssumption
<1>3. Types
  <2>1. now \in 1 .. MaxTime /\ cash \in Nat /\ deletes \in 0 .. MaxDeletes
    BY <1>2 DEF Init
  <2>7. worth \in Price \cup {0} /\ adapter \in BOOLEAN
    BY AccountsAssumption, Zenon DEF Init
  <2>6. midnights \in SUBSET (1 .. now) /\ 1 \in midnights
    BY DEF Init
  <2>2. /\ transfers \in SUBSET [at : Nat, usd : Int] /\ Ledger(transfers, now)
        /\ fills \in SUBSET FillType /\ Ledger(fills, now)
    BY <1>1 DEF Init
  <2>3. rows \in Seq(RowType) /\ DOMAIN rows = {} /\ events = {}
    BY DEF Init
  <2>4. snap \in SnapType /\ snap.at <= now
    BY DEF Init, NoSnap, SnapType
  <2>5. sync \in [Syncer -> SyncType] /\ \A s \in Syncer : sync[s].pc = "idle"
    BY <1>2 DEF Init, IdleSync, SyncType, SnapType, NoSnap
  <2> QED BY <2>1, <2>2, <2>3, <2>4, <2>5, <2>6, <2>7 DEF Types
<1>4. BalanceAt(now) = Opening
  <2>1. Sum({}) = 0
    BY SumEmpty DEF Sum
  <2>2. {e \in transfers : e.at <= now} = {} /\ {e \in fills : e.at <= now} = {}
    BY DEF Init
  <2>3. BalanceAt(now) = Opening + Sum({}) + Sum({})
    BY <2>2, Zenon DEF BalanceAt
  <2> QED BY <1>2, <2>1, <2>3
<1>5. BalanceInv
  BY <1>4 DEF Init, BalanceInv, IdleSync
<1>6. RowsInv /\ TimesInv /\ EventExact
  BY DEF Init, RowsInv, TimesInv, EventExact, IdleSync, Open
<1>7. SeenInv
  BY DEF Init, SeenInv, IdleSync
<1> QED BY <1>3, <1>5, <1>6, <1>7 DEF Inv

\* The balance in terms of the ledgers.
LEMMA BalanceIs ==
    /\ \A t : BalanceAt(t) = Opening + SumTo(transfers, t) + SumTo(fills, t)
    /\ \A t : BalanceAt(t)' = Opening + SumTo(transfers', t) + SumTo(fills', t)
BY DEF BalanceAt, SumTo

-----------------------------------------------------------------------------
(* The latest row *)

\* Of some rows there is a newest one.
LEMMA NewestIn ==
    ASSUME Types, NEW S \in SUBSET DOMAIN rows, S # {}
    PROVE  Newest(S) \in S /\ Newest(S) # 0
<1>0. Len(rows) \in Nat /\ now \in Nat /\ S \in SUBSET (1 .. Len(rows))
      /\ \A i \in S : rows[i].sync \in 1 .. now
  BY AccountsAssumption DEF Types
<1> DEFINE Ages == {now - rows[i].sync : i \in S}
<1>1. PICK i1 \in S : \A j \in S : rows[j].sync <= rows[i1].sync
  <2>1. Ages \in SUBSET Nat /\ Ages # {}
    BY <1>0
  <2>2. PICK m \in Ages : \A k \in Ages : m <= k
    <3> HIDE DEF Ages
    <3> QED BY <2>1, LeastNat
  <2>3. PICK i \in S : m = now - rows[i].sync
    OBVIOUS
  <2>4. ASSUME NEW j \in S PROVE rows[j].sync <= rows[i].sync
    <3>1. now - rows[j].sync \in Ages
      OBVIOUS
    <3>2. m <= now - rows[j].sync
      BY <2>2, <3>1
    <3> QED BY <1>0, <2>3, <3>2
  <2> QED BY <2>4
<1> DEFINE Last == {Len(rows) - i : i \in {i \in S : rows[i].sync = rows[i1].sync}}
<1>2. PICK i2 \in S : /\ rows[i2].sync = rows[i1].sync
                     /\ \A j \in S : rows[j].sync = rows[i1].sync => j <= i2
  <2>1. Last \in SUBSET Nat /\ Last # {}
    BY <1>0, <1>1
  <2>2. PICK m \in Last : \A k \in Last : m <= k
    <3> HIDE DEF Last
    <3> QED BY <2>1, LeastNat
  <2>3. PICK i \in S : rows[i].sync = rows[i1].sync /\ m = Len(rows) - i
    OBVIOUS
  <2>4. ASSUME NEW j \in S, rows[j].sync = rows[i1].sync PROVE j <= i
    <3>1. Len(rows) - j \in Last
      BY <2>4
    <3>2. m <= Len(rows) - j
      BY <2>2, <3>1
    <3> QED BY <1>0, <2>3, <3>2
  <2> QED BY <2>3, <2>4
<1>3. \A j \in S \ {i2} :
        \/ rows[i2].sync > rows[j].sync
        \/ rows[i2].sync = rows[j].sync /\ i2 > j
  BY <1>0, <1>1, <1>2
<1>4. Newest(S) \in S
  BY <1>3 DEF Newest
<1> QED BY <1>0, <1>4

\* Once the account is onboarded a row is open, and so is the latest one.
LEMMA LatestOpen ==
    ASSUME Types, RowsInv, rows # <<>>
    PROVE  Latest \in Open /\ Latest \in DOMAIN rows /\ Latest # 0
<1>1. Open \in SUBSET DOMAIN rows
  BY DEF Open
<1>2. Len(rows) \in Open
  BY DEF Open, RowsInv, Types
<1> QED BY <1>1, <1>2, NewestIn DEF Latest

\* An active account has rows.
LEMMA ActiveRows == Active => rows # <<>>
BY DEF Active, Open

-----------------------------------------------------------------------------
(* Outside events *)

\* The money of the past does not move.
PastKept ==
    \A t \in Int : t <= now =>
      SumTo(transfers', t) = SumTo(transfers, t) /\ SumTo(fills', t) = SumTo(fills, t)

\* What an outside event, or the record of the fills, does to the broker's side.
Outside ==
    /\ now' \in {now, now + 1} /\ now' \in 1 .. MaxTime
    /\ midnights' \in SUBSET (1 .. now') /\ midnights \subseteq midnights'
    /\ \A m \in midnights' \ midnights : m > now
    /\ cash' \in Nat /\ worth' \in Price \cup {0}
    /\ transfers' \in SUBSET [at : Nat, usd : Int] /\ Ledger(transfers', now')
    /\ fills' \in SUBSET FillType /\ Ledger(fills', now')
    /\ PastKept
    /\ cash' = Opening + SumTo(transfers', now') + SumTo(fills', now')
    /\ \A e, f \in transfers' : e.at = f.at => e = f
    /\ \A e, f \in fills' : e.at = f.at => e = f
    /\ \A a, b \in Int : b <= now => Window(transfers', a, b) = Window(transfers, a, b)
    /\ UNCHANGED <<rows, snap, adapter, sync, events, deletes>>

\* Days do not go back.
LEMMA DaysGrow ==
    ASSUME NEW n \in Nat, midnights' \in SUBSET (1 .. n), midnights \subseteq midnights'
    PROVE  Day \in Nat /\ Day' \in Nat /\ Day <= Day'
<1>1. IsFiniteSet(1 .. n)
  BY FS_Interval
<1>2. IsFiniteSet(midnights')
  BY <1>1, FS_Subset
<1>3. /\ IsFiniteSet(midnights)
      /\ Cardinality(midnights) <= Cardinality(midnights')
  BY <1>2, FS_Subset
<1> QED BY <1>2, <1>3, FS_CardinalityType DEF Day

\* A row that is not recent does not become so when a day begins.
LEMMA OldStaysOld ==
    ASSUME Inv, now' \in Nat, midnights' \in SUBSET (1 .. now'), midnights \subseteq midnights',
           \A m \in midnights' \ midnights : m > now,
           NEW row, row.at \in Int, row.at <= now, ~RecentIn(midnights, row)
    PROVE  ~RecentIn(midnights', row)
<1>1. now \in Nat /\ TombstoneDays \in Nat
  BY AccountsAssumption DEF Inv, Types
<1>2. {m \in midnights' : m <= row.at} = {m \in midnights : m <= row.at}
  <2>1. \A m \in midnights' : m \in Int
    OBVIOUS
  <2>2. ASSUME NEW m \in midnights', m <= row.at PROVE m \in midnights
    BY <1>1, <2>1, <2>2
  <2> QED BY <2>2
<1>3. Cardinality(midnights) \in Nat /\ Cardinality(midnights') \in Nat
      /\ Cardinality(midnights) <= Cardinality(midnights')
  BY DaysGrow DEF Day
<1>4. Cardinality({m \in midnights : m <= row.at}) \in Nat
  <2>1. IsFiniteSet({m \in midnights : m <= row.at})
    <3>1. IsFiniteSet(1 .. now')
      BY FS_Interval
    <3> QED BY <3>1, FS_Subset
  <2> QED BY <2>1, FS_CardinalityType
<1> QED BY <1>1, <1>2, <1>3, <1>4 DEF RecentIn

\* They keep the invariant.
LEMMA OutsideInv == ASSUME Inv, Outside PROVE Inv'
<1>0. now \in Nat /\ now' \in Nat /\ now <= now' /\ MaxTime \in Nat
  BY AccountsAssumption DEF Inv, Types, Outside
<1>1. Types'
  <2>1. /\ now' \in 1 .. MaxTime /\ midnights' \in SUBSET (1 .. now') /\ 1 \in midnights'
        /\ cash' \in Nat /\ worth' \in Price \cup {0}
        /\ transfers' \in SUBSET [at : Nat, usd : Int] /\ Ledger(transfers', now')
        /\ fills' \in SUBSET FillType /\ Ledger(fills', now')
    BY DEF Outside, Inv, Types
  <2>2. /\ rows' \in Seq(RowType) /\ snap' \in SnapType
        /\ deletes' \in 0 .. MaxDeletes /\ sync' \in [Syncer -> SyncType]
        /\ events' \in SUBSET EventType
    BY DEF Inv, Types, Outside
  <2>7. adapter' \in BOOLEAN
    BY Zenon DEF Inv, Types, Outside
  <2>3. \A i \in DOMAIN rows' : rows'[i].sync \in 1 .. now' /\ rows'[i].equity >= rows'[i].cash
    BY <1>0 DEF Inv, Types, Outside
  <2>4. snap'.at <= now'
    <3>1. snap.at \in Int /\ snap.at <= now /\ snap' = snap
      BY DEF Inv, Types, Outside, SnapType
    <3> QED BY <1>0, <3>1
  <2>5. ASSUME NEW s \in Syncer, sync'[s].pc # "idle" PROVE Timely(now', sync'[s])
    <3>1. sync'[s] = sync[s] /\ sync[s] \in SyncType
      BY DEF Inv, Types, Outside
    <3>2. sync[s].seen.at \in Int
      BY <3>1 DEF SyncType, SnapType
    <3>3. Timely(now, sync[s])
      BY <2>5, <3>1 DEF Inv, Types
    <3> QED BY <1>0, <3>1, <3>2, <3>3 DEF Timely
  <2>6. \A e \in events' : /\ e.day \in 1 .. Day' /\ e.from \in DOMAIN rows'
                           /\ e.usd \notin -Threshold .. Threshold
    <3>1. Day \in Nat /\ Day' \in Nat /\ Day <= Day'
      BY <1>0, DaysGrow DEF Outside
    <3> QED BY <3>1 DEF Inv, Types, Outside
  <2> QED BY <2>1, <2>2, <2>3, <2>4, <2>5, <2>6, <2>7 DEF Types
<1>2. \A t \in Int : t <= now => BalanceAt(t)' = BalanceAt(t)
  BY BalanceIs DEF Outside, PastKept
<1>3. BalanceInv'
  <2>1. cash' = BalanceAt(now)'
    BY BalanceIs DEF Outside, BalanceAt, SumTo
  <2>2. \A i \in DOMAIN rows \ {1} : rows[i].cash = BalanceAt(rows[i].sync)'
    <3>1. SUFFICES ASSUME NEW i \in DOMAIN rows \ {1} PROVE rows[i].cash = BalanceAt(rows[i].sync)'
      OBVIOUS
    <3>2. rows[i].sync \in Int /\ rows[i].sync <= now /\ rows[i].sync = rows'[i].sync
      BY <1>0 DEF Inv, Types, Outside
    <3>3. rows[i].cash = BalanceAt(rows[i].sync)
      BY DEF Inv, BalanceInv
    <3> QED BY <1>2, <3>2, <3>3
  <2>3. ASSUME NEW s \in Syncer, sync'[s].pc # "idle"
        PROVE  rows' # <<>> /\ sync'[s].cash = BalanceAt(sync[s].at)'
    <3>1. sync'[s] = sync[s] /\ rows' = rows
      BY DEF Outside
    <3>2. sync[s].at \in Int /\ sync[s].at <= now
      BY <1>0, <2>3, <3>1 DEF Inv, Types, Timely
    <3>3. rows # <<>> /\ sync[s].cash = BalanceAt(sync[s].at)
      BY <2>3, <3>1 DEF Inv, BalanceInv
    <3> QED BY <1>2, <3>1, <3>2, <3>3
  <2>4. rows' = rows /\ DOMAIN rows' = DOMAIN rows
    BY DEF Outside
  <2> QED BY <2>1, <2>2, <2>3, <2>4 DEF BalanceInv
<1>4. RowsInv' /\ SeenInv'
  <2>1. RowsInv'
    BY DEF Inv, RowsInv, Open, Outside
  <2>2. ASSUME NEW s \in Syncer PROVE Seen(midnights', sync'[s])
    <3>1. sync'[s] = sync[s] /\ Seen(midnights, sync[s])
      BY SeenIs DEF Inv, Outside
    <3>2. ASSUME sync[s].pc = "unlocked" PROVE ~RecentIn(midnights', sync[s].seen)
      <4>1. ~RecentIn(midnights, sync[s].seen)
        BY <3>1, <3>2 DEF Seen
      <4>2. sync[s] \in SyncType /\ Timely(now, sync[s])
        BY <3>2 DEF Inv, Types
      <4>3. sync[s].seen.at \in Int /\ sync[s].seen.at <= now
        BY <4>2 DEF SyncType, SnapType, Timely
      <4> QED BY <4>1, <4>3, OldStaysOld DEF Outside
    <3> QED BY <3>1, <3>2 DEF Seen
  <2> QED BY <2>1, <2>2, SeenIs
<1>5. TimesInv'
  <2>1. \A e \in transfers' \cup fills' : e.at \in 1 .. now'
    BY DEF Outside, Ledger
  <2>2. \A e \in events' : e.upto <= now'
    <3>1. \A e \in events : e.upto \in Int
      BY DEF Inv, Types, EventType
    <3> QED BY <1>0, <3>1 DEF Inv, TimesInv, Outside
  <2> QED BY <2>1, <2>2 DEF TimesInv, Outside
<1>6. EventExact'
  <2>1. ASSUME NEW e \in events, e.from # 1, e.after <= e.upto
        PROVE  e.usd = Sum(Window(transfers', e.after, e.upto)) + e.unrecorded
    <3>1. e.after \in Int /\ e.upto \in Int /\ e.upto <= now
      BY DEF Inv, Types, EventType, TimesInv
    <3>2. Window(transfers', e.after, e.upto) = Window(transfers, e.after, e.upto)
      BY <3>1 DEF Outside
    <3>3. e.usd = Sum(Window(transfers, e.after, e.upto)) + e.unrecorded
      BY <2>1 DEF Inv, EventExact
    <3> QED BY <3>2, <3>3
  <2> QED BY <2>1 DEF EventExact, Outside
<1> QED BY <1>1, <1>3, <1>4, <1>5, <1>6 DEF Inv

\* The broker's side before an outside event.
LEMMA Before ==
    ASSUME Inv
    PROVE  /\ now \in Nat /\ now \in 1 .. MaxTime /\ MaxTime \in Nat
           /\ midnights \in SUBSET (1 .. now) /\ cash \in Nat /\ worth \in Price \cup {0}
           /\ transfers \in SUBSET [at : Nat, usd : Int] /\ Ledger(transfers, now)
           /\ fills \in SUBSET FillType /\ Ledger(fills, now)
           /\ cash = Opening + SumTo(transfers, now) + SumTo(fills, now)
           /\ SumTo(transfers, now) \in Int /\ SumTo(fills, now) \in Int /\ Opening \in Int
           /\ \A e, f \in transfers : e.at = f.at => e = f
           /\ \A e, f \in fills : e.at = f.at => e = f
<1>1. now \in Nat /\ MaxTime \in Nat /\ Opening \in Int
  BY AccountsAssumption DEF Inv, Types
<1>2. Ledger(transfers, now) /\ Ledger(fills, now)
  BY DEF Inv, Types
<1>3. SumTo(transfers, now) \in Int /\ SumTo(fills, now) \in Int
  BY <1>1, <1>2, SumToType
<1>4. cash = Opening + SumTo(transfers, now) + SumTo(fills, now)
  BY DEF Inv, BalanceInv, BalanceAt, SumTo
<1> QED BY <1>1, <1>2, <1>3, <1>4 DEF Inv, Types, TimesInv

\* A transfer.
LEMMA TransferInv == ASSUME Inv, Transfer PROVE Inv'
<1>1. PICK u \in Amount : /\ cash + u >= 0 /\ cash' = cash + u
                         /\ transfers' = transfers \cup {[at |-> now + 1, usd |-> u]}
  BY DEF Transfer
<1> DEFINE x == [at |-> now + 1, usd |-> u]
<1>2. u \in Int /\ x.at = now + 1 /\ x.usd = u /\ x \in [at : Nat, usd : Int]
  BY Before, AccountsAssumption
<1>3. now' = now + 1 /\ now < MaxTime
      /\ UNCHANGED <<midnights, worth, fills, rows, snap, adapter, sync, events, deletes>>
  BY DEF Transfer, Happens
<1> HIDE DEF x
<1>4. transfers' = transfers \cup {x}
  BY <1>1 DEF x
<1>5. /\ Ledger(transfers', now + 1)
      /\ \A t \in Int : t <= now => SumTo(transfers', t) = SumTo(transfers, t)
      /\ SumTo(transfers', now + 1) = SumTo(transfers, now) + u
  BY <1>2, <1>4, Before, SumToNext
<1>6. Ledger(fills, now + 1) /\ SumTo(fills, now + 1) = SumTo(fills, now)
  BY Before, SumToLater
<1>7. cash' = Opening + SumTo(transfers', now') + SumTo(fills', now')
  BY <1>1, <1>2, <1>3, <1>5, <1>6, Before
<1>8. cash' \in Nat /\ now' \in 1 .. MaxTime /\ midnights' \in SUBSET (1 .. now')
  BY <1>1, <1>2, <1>3, Before
<1>9. \A e, f \in transfers' : e.at = f.at => e = f
  <2>1. \A e \in transfers : e.at # x.at
    BY <1>2, Before DEF Ledger
  <2> QED BY <1>4, <2>1, Before
<1>10. \A a, b \in Int : b <= now => Window(transfers', a, b) = Window(transfers, a, b)
  BY <1>2, <1>4, Before DEF Window
<1>11. transfers' \in SUBSET [at : Nat, usd : Int] /\ PastKept
  BY <1>2, <1>3, <1>4, <1>5, Before DEF PastKept
<1>12. Outside
  BY <1>3, <1>5, <1>6, <1>7, <1>8, <1>9, <1>10, <1>11, Before DEF Outside
<1> QED BY <1>12, OutsideInv

\* A fill.
LEMMA FillInv == ASSUME Inv, Fill PROVE Inv'
<1>1. PICK p \in Price :
        LET usd == IF worth > 0 THEN worth ELSE -p
        IN  /\ cash + usd >= 0
            /\ cash' = cash + usd
            /\ worth' = IF worth > 0 THEN 0 ELSE p
            /\ fills' = fills \cup {[at |-> now + 1, usd |-> usd, recorded |-> FALSE]}
  BY DEF Fill
<1>2. PICK u : u = IF worth > 0 THEN worth ELSE -p
  OBVIOUS
<1> DEFINE x == [at |-> now + 1, usd |-> u, recorded |-> FALSE]
<1>3. cash + u >= 0 /\ cash' = cash + u /\ fills' = fills \cup {x}
      /\ worth' = IF worth > 0 THEN 0 ELSE p
  BY <1>1, <1>2
<1>4. u \in Int /\ worth' \in Price \cup {0} /\ 0 \in Price \cup {0}
  <2>1. worth \in Price \cup {0} /\ p \in Nat /\ 0 \in Price \cup {0}
    BY Before, AccountsAssumption
  <2>2. worth \in Nat
    BY <2>1, AccountsAssumption
  <2>3. u = worth \/ u = -p
    BY <1>2
  <2>4. u \in Int
    BY <2>1, <2>2, <2>3
  <2>5. worth' = 0 \/ worth' = p
    BY <1>3
  <2> QED BY <2>1, <2>4, <2>5
<1>5. x.at = now + 1 /\ x.usd = u /\ x \in FillType
  BY <1>4, Before DEF FillType
<1>6. now' = now + 1 /\ now < MaxTime
      /\ UNCHANGED <<midnights, transfers, rows, snap, adapter, sync, events, deletes>>
  BY DEF Fill, Happens
<1> HIDE DEF x
<1>7. /\ Ledger(fills', now + 1)
      /\ \A t \in Int : t <= now => SumTo(fills', t) = SumTo(fills, t)
      /\ SumTo(fills', now + 1) = SumTo(fills, now) + u
  BY <1>3, <1>4, <1>5, Before, SumToNext
<1>8. Ledger(transfers, now + 1) /\ SumTo(transfers, now + 1) = SumTo(transfers, now)
  BY Before, SumToLater
<1>9. cash' = Opening + SumTo(transfers', now') + SumTo(fills', now')
  BY <1>3, <1>4, <1>6, <1>7, <1>8, Before
<1>10. cash' \in Nat /\ now' \in 1 .. MaxTime /\ midnights' \in SUBSET (1 .. now')
  BY <1>3, <1>4, <1>6, Before
<1>11. \A e, f \in fills' : e.at = f.at => e = f
  <2>1. \A e \in fills : e.at # x.at
    BY <1>5, Before DEF Ledger
  <2> QED BY <1>3, <2>1, Before
<1>12. fills' \in SUBSET FillType /\ PastKept
  BY <1>3, <1>5, <1>6, <1>7, Before DEF PastKept
<1>13. Outside
  BY <1>4, <1>6, <1>7, <1>8, <1>9, <1>10, <1>11, <1>12, Before DEF Outside
<1> QED BY <1>13, OutsideInv

\* The fills are recorded.
LEMMA RecordInv == ASSUME Inv, RecordFills PROVE Inv'
<1>1. fills' = {[f EXCEPT !.recorded = TRUE] : f \in fills}
      /\ UNCHANGED <<now, midnights, cash, worth, transfers, rows, snap, adapter, sync, events,
                     deletes>>
  BY DEF RecordFills
<1>2. /\ Ledger(fills', now) /\ fills' \in SUBSET FillType
      /\ \A e, f \in fills' : e.at = f.at => e = f
      /\ \A t \in Int : SumTo(fills', t) = SumTo(fills, t)
  <2>1. now \in Nat /\ fills \in SUBSET FillType /\ Ledger(fills, now) /\ OneAtATime(fills)
    BY Before DEF OneAtATime
  <2>2. SameFills(Recorded(fills), fills, now)
    BY <2>1, SumToRecorded
  <2>3. fills' = Recorded(fills)
    BY <1>1 DEF Recorded
  <2> QED BY <2>2, <2>3 DEF SameFills, OneAtATime
<1>3. SumTo(fills', now) = SumTo(fills, now) /\ now' = now /\ cash' = cash /\ transfers' = transfers
      /\ midnights' = midnights /\ worth' = worth
      /\ UNCHANGED <<rows, snap, adapter, sync, events, deletes>>
  BY <1>1, <1>2, Before
<1>4. cash' = Opening + SumTo(transfers', now') + SumTo(fills', now')
  BY <1>3, Before
<1>5. PastKept
  BY <1>2, <1>3 DEF PastKept
<1>6. \A a, b \in Int : b <= now => Window(transfers', a, b) = Window(transfers, a, b)
  BY <1>3
<1>7. Ledger(fills', now') /\ Ledger(transfers', now')
  BY <1>2, <1>3, Before
<1>8. Outside
  BY <1>2, <1>3, <1>4, <1>5, <1>6, <1>7, Before DEF Outside
<1> QED BY <1>8, OutsideInv

\* The price moves, or a day begins.
LEMMA PassInv == ASSUME Inv, PriceMoves \/ Midnight PROVE Inv'
<1>1. now' = now + 1 /\ now < MaxTime
      /\ UNCHANGED <<cash, transfers, fills, rows, snap, adapter, sync, events, deletes>>
  BY DEF PriceMoves, Midnight, Happens, broker
<1>2. worth' \in Price \cup {0}
  BY Before DEF PriceMoves, Midnight, broker
<1>3. midnights' \in SUBSET (1 .. now') /\ midnights \subseteq midnights' /\ now' \in 1 .. MaxTime
      /\ \A m \in midnights' \ midnights : m > now
  <2>1. midnights' = midnights \/ midnights' = midnights \cup {now + 1}
    BY DEF PriceMoves, Midnight
  <2> QED BY <1>1, <2>1, Before
<1>4. /\ Ledger(transfers, now + 1) /\ SumTo(transfers, now + 1) = SumTo(transfers, now)
      /\ Ledger(fills, now + 1) /\ SumTo(fills, now + 1) = SumTo(fills, now)
  BY Before, SumToLater
<1>5. Outside
  BY <1>1, <1>2, <1>3, <1>4, Before DEF Outside, PastKept
<1> QED BY <1>5, OutsideInv

-----------------------------------------------------------------------------
(* The account's rows *)

\* The broker's side and the calendar stay.
Still == UNCHANGED <<now, midnights, cash, worth, transfers, fills>>

\* What the syncers have seen stays as old.
LEMMA SameSeen == ASSUME Inv, Still, UNCHANGED sync PROVE SeenInv'
BY SeenIs DEF Inv, Still

\* The account is onboarded.
LEMMA CreateInv == ASSUME Inv, CreateBrokerAccount PROVE Inv'
<1> DEFINE x == [cash |-> 0, equity |-> 0, sync |-> now, open |-> TRUE, active |-> TRUE]
<1>1. rows = <<>> /\ rows' = <<x>> /\ adapter' = TRUE /\ Still
      /\ UNCHANGED <<snap, sync, events, deletes>>
  BY DEF CreateBrokerAccount, broker, Still
<1>2. x \in RowType /\ x.sync = now /\ x.equity >= x.cash /\ x.open
  BY Before DEF RowType
<1> HIDE DEF x
<1>3. rows' \in Seq(RowType) /\ DOMAIN rows' = {1} /\ Len(rows') = 1 /\ rows'[1] = x /\ rows' # <<>>
  BY <1>1, <1>2
<1>4. Types'
  <2>1. events = {}
    BY <1>1 DEF Inv, Types
  <2>2. Ledger(transfers, now)' /\ Ledger(fills, now)'
    BY <1>1 DEF Inv, Types, Ledger, Still
  <2>3. adapter' \in BOOLEAN
    BY <1>1, Zenon
  <2>4. \A i \in DOMAIN rows' : rows'[i].sync \in 1 .. now' /\ rows'[i].equity >= rows'[i].cash
    BY <1>1, <1>2, <1>3, Before DEF Still
  <2> QED BY <1>1, <1>3, <2>1, <2>2, <2>3, <2>4 DEF Inv, Types, Still
<1>5. BalanceInv'
  BY <1>1, <1>3 DEF Inv, BalanceInv, BalanceAt, Still
<1>6. RowsInv'
  BY <1>1, <1>2, <1>3 DEF Inv, RowsInv, BalanceInv, Open
<1>7. TimesInv' /\ EventExact'
  BY <1>1 DEF Inv, TimesInv, EventExact, Still
<1>8. SeenInv'
  BY <1>1, SameSeen
<1> QED BY <1>4, <1>5, <1>6, <1>7, <1>8 DEF Inv

\* The account is deleted: its rows keep everything but their mark.
LEMMA DeleteInv == ASSUME Inv, DeleteBrokerAccount PROVE Inv'
<1>1. /\ rows # <<>> /\ deletes < MaxDeletes /\ deletes' = deletes + 1 /\ adapter' = FALSE
      /\ rows' = [i \in DOMAIN rows |-> [rows[i] EXCEPT !.active = FALSE]]
      /\ Still /\ UNCHANGED <<snap, sync, events>>
  BY DEF DeleteBrokerAccount, broker, Still
<1>2. rows \in Seq(RowType) /\ Len(rows) \in Nat /\ DOMAIN rows = 1 .. Len(rows)
  BY DEF Inv, Types
<1>3. \A i \in DOMAIN rows :
        /\ rows'[i] \in RowType /\ rows'[i].cash = rows[i].cash /\ rows'[i].open = rows[i].open
        /\ rows'[i].equity = rows[i].equity /\ rows'[i].sync = rows[i].sync
  <2>1. ASSUME NEW x \in RowType
        PROVE  LET y == [x EXCEPT !.active = FALSE]
               IN  /\ y \in RowType /\ y.cash = x.cash /\ y.open = x.open
                   /\ y.equity = x.equity /\ y.sync = x.sync
    BY DEF RowType
  <2>2. \A i \in DOMAIN rows : rows[i] \in RowType /\ rows'[i] = [rows[i] EXCEPT !.active = FALSE]
    BY <1>1, <1>2
  <2> QED BY <2>1, <2>2
<1>4. rows' \in Seq(RowType) /\ Len(rows') = Len(rows) /\ DOMAIN rows' = DOMAIN rows /\ rows' # <<>>
  BY <1>1, <1>2, <1>3
<1>5. Types'
  <2>1. Ledger(transfers, now)' /\ Ledger(fills, now)'
    BY <1>1 DEF Inv, Types, Ledger, Still
  <2>2. adapter' \in BOOLEAN
    BY <1>1, Zenon
  <2>3. \A i \in DOMAIN rows' : rows'[i].sync \in 1 .. now' /\ rows'[i].equity >= rows'[i].cash
    BY <1>1, <1>3, <1>4 DEF Inv, Types, Still
  <2>4. deletes' \in 0 .. MaxDeletes
    BY <1>1, AccountsAssumption DEF Inv, Types
  <2>5. Day' = Day
    BY <1>1 DEF Day, Still
  <2> QED BY <1>1, <1>4, <2>1, <2>2, <2>3, <2>4, <2>5 DEF Inv, Types, Still
<1>6. BalanceInv'
  <2>1. \A t : BalanceAt(t)' = BalanceAt(t)
    BY <1>1 DEF BalanceAt, Still
  <2>2. (cash = BalanceAt(now))'
    BY <1>1, <2>1 DEF Inv, BalanceInv, Still, BalanceAt
  <2>3. \A i \in DOMAIN rows' \ {1} : rows'[i].cash = BalanceAt(rows'[i].sync)
    BY <1>3, <1>4 DEF Inv, BalanceInv
  <2>4. \A i \in DOMAIN rows' \ {1} : (rows[i].cash = BalanceAt(rows[i].sync))'
    BY <1>1, <2>3 DEF BalanceAt, Still
  <2>5. \A s \in Syncer : (sync[s].pc # "idle" =>
                           rows # <<>> /\ sync[s].cash = BalanceAt(sync[s].at))'
    BY <1>1, <1>4 DEF Inv, BalanceInv, BalanceAt, Still
  <2> QED BY <2>2, <2>4, <2>5 DEF BalanceInv
<1>7. RowsInv'
  <2>1. rows'[Len(rows')].open
    BY <1>1, <1>2, <1>3, <1>4 DEF Inv, RowsInv
  <2>2. 1 \in Open' => Len(rows') = 1
    BY <1>3, <1>4 DEF Inv, RowsInv, Open
  <2>3. \A s \in Syncer : sync'[s].pc = "unlocked" => sync'[s].latest \in DOMAIN rows'
    BY <1>1, <1>4 DEF Inv, RowsInv
  <2> QED BY <1>4, <2>1, <2>2, <2>3 DEF RowsInv
<1>8. TimesInv' /\ EventExact'
  BY <1>1 DEF Inv, TimesInv, EventExact, Still
<1>9. SeenInv'
  BY <1>1, SameSeen
<1> QED BY <1>5, <1>6, <1>7, <1>8, <1>9 DEF Inv

\* What a syncer may hold.
Fits(f) ==
    /\ Timely(now, f) /\ f.cash = BalanceAt(f.at) /\ rows # <<>>
    /\ f.pc = "unlocked" => f.latest \in DOMAIN rows
    /\ Seen(midnights, f)

\* A syncer that has fetched nothing.
LEMMA IdleSyncType == IdleSync \in SyncType /\ IdleSync.pc = "idle"
BY DEF IdleSync, SyncType, SnapType, NoSnap

\* Only the syncers, and the adapter, have changed.
LEMMA SyncersInv ==
    ASSUME Inv, Still, UNCHANGED <<rows, snap, events, deletes>>, adapter' \in BOOLEAN,
           sync' \in [Syncer -> SyncType],
           \A s \in Syncer : sync'[s] = sync[s] \/ sync'[s] = IdleSync \/ Fits(sync'[s])
    PROVE  Inv'
<1>1. Types'
  <2>1. Ledger(transfers, now)' /\ Ledger(fills, now)'
    BY DEF Inv, Types, Ledger, Still
  <2>2. \A s \in Syncer : sync'[s].pc # "idle" => Timely(now', sync'[s])
    BY IdleSyncType DEF Inv, Types, Fits, Still, Timely
  <2>3. Day' = Day
    BY DEF Day, Still
  <2>4. /\ now' \in 1 .. MaxTime /\ midnights' \in SUBSET (1 .. now') /\ 1 \in midnights'
        /\ cash' \in Nat /\ worth' \in Price \cup {0}
        /\ transfers' \in SUBSET [at : Nat, usd : Int] /\ fills' \in SUBSET FillType
    BY DEF Inv, Types, Still
  <2>5. /\ rows' \in Seq(RowType) /\ snap' \in SnapType /\ snap'.at <= now'
        /\ \A i \in DOMAIN rows' : rows'[i].sync \in 1 .. now' /\ rows'[i].equity >= rows'[i].cash
        /\ deletes' \in 0 .. MaxDeletes /\ events' \in SUBSET EventType
        /\ \A e \in events' : /\ e.day \in 1 .. Day' /\ e.from \in DOMAIN rows'
                              /\ e.usd \notin -Threshold .. Threshold
    BY <2>3 DEF Inv, Types, Still
  <2> QED BY <2>1, <2>2, <2>4, <2>5 DEF Types
<1>2. BalanceInv'
  BY IdleSyncType DEF Inv, BalanceInv, BalanceAt, Still, Fits
<1>3. RowsInv' /\ SeenInv'
  <2>1. \A s \in Syncer : sync'[s].pc = "unlocked" => sync'[s].latest \in DOMAIN rows'
    BY IdleSyncType DEF Inv, RowsInv, Fits
  <2>2. \A s \in Syncer : Seen(midnights', sync'[s])
    <3>1. \A s \in Syncer : Seen(midnights, sync[s])
      BY SeenIs DEF Inv
    <3>2. Seen(midnights, IdleSync) /\ midnights' = midnights
      BY DEF Seen, IdleSync, Still
    <3> QED BY <3>1, <3>2 DEF Fits
  <2> QED BY <2>1, <2>2, SeenIs DEF Inv, RowsInv, Open
<1>4. TimesInv' /\ EventExact'
  BY DEF Inv, TimesInv, EventExact, Still
<1> QED BY <1>1, <1>2, <1>3, <1>4 DEF Inv

\* The process restarts.
LEMMA RestartInv == ASSUME Inv, Restart PROVE Inv'
<1>1. Still /\ UNCHANGED <<rows, snap, events, deletes>> /\ sync' = [s \in Syncer |-> IdleSync]
  BY DEF Restart, broker, Still
<1>2. adapter' \in BOOLEAN
  BY Zenon DEF Restart, Active
<1>3. sync' \in [Syncer -> SyncType] /\ \A s \in Syncer : sync'[s] = IdleSync
  BY <1>1, IdleSyncType
<1> QED BY <1>1, <1>2, <1>3, SyncersInv

\* A sync fails.
LEMMA SyncFailsInv == ASSUME Inv, NEW s \in Syncer, SyncFails(s) PROVE Inv'
<1>1. Still /\ UNCHANGED <<rows, snap, adapter, events, deletes>>
      /\ sync' = [sync EXCEPT ![s] = IdleSync]
  BY DEF SyncFails, broker, Still
<1>2. adapter' \in BOOLEAN
  BY <1>1, Zenon DEF Inv, Types
<1>3. sync \in [Syncer -> SyncType]
  BY DEF Inv, Types
<1>4. sync' \in [Syncer -> SyncType]
      /\ \A q \in Syncer : sync'[q] = sync[q] \/ sync'[q] = IdleSync
  BY <1>1, <1>3, IdleSyncType
<1> QED BY <1>1, <1>2, <1>4, SyncersInv

\* The position is worth a number.
LEMMA WorthType == \A w \in Price \cup {0} : w \in Nat
BY AccountsAssumption

\* One syncer holds something else.
LEMMA OneSyncerInv ==
    ASSUME Inv, Still, UNCHANGED <<rows, snap, adapter, events, deletes>>,
           NEW s \in Syncer, NEW x \in SyncType, Fits(x), sync' = [sync EXCEPT ![s] = x]
    PROVE  Inv'
<1>1. adapter' \in BOOLEAN
  BY Zenon DEF Inv, Types
<1>2. sync \in [Syncer -> SyncType]
  BY DEF Inv, Types
<1>3. sync' \in [Syncer -> SyncType] /\ \A q \in Syncer : sync'[q] = sync[q] \/ Fits(sync'[q])
  BY <1>2
<1> QED BY <1>1, <1>3, SyncersInv

\* The broker is asked for the account.
LEMMA SyncFetchInv == ASSUME Inv, NEW s \in Syncer, SyncFetch(s) PROVE Inv'
<1> DEFINE x == [IdleSync EXCEPT !.pc = "fetched", !.cash = cash, !.equity = cash + worth,
                                 !.at = now]
<1>1. Still /\ UNCHANGED <<rows, snap, adapter, events, deletes>> /\ Active
      /\ sync' = [sync EXCEPT ![s] = x]
  BY DEF SyncFetch, broker, Still
<1>2. rows # <<>>
  BY <1>1, ActiveRows
<1>3. cash \in Nat /\ worth \in Nat /\ now \in Nat /\ now >= 1 /\ cash = BalanceAt(now)
  BY Before, WorthType DEF Inv, Types, BalanceInv
<1>4. /\ x.pc = "fetched" /\ x.cash = cash /\ x.equity = cash + worth /\ x.at = now
      /\ x.held = FALSE /\ x.seen = NoSnap
  BY DEF IdleSync
<1>5. x \in SyncType
  <2>1. cash + worth \in Nat
    BY <1>3
  <2> QED BY <1>3, <2>1, IdleSyncType, Zenon DEF SyncType
<1> HIDE DEF x
<1>6. Timely(now, x) /\ Seen(midnights, x)
  BY <1>3, <1>4 DEF Timely, Seen, NoSnap
<1>7. Fits(x)
  BY <1>2, <1>3, <1>4, <1>6 DEF Fits
<1> QED BY <1>1, <1>5, <1>7, OneSyncerInv

\* The positions, the recent tickers and, without the lock, the latest row are read.
LEMMA SyncReadInv == ASSUME Inv, NEW s \in Syncer, SyncRead(s) PROVE Inv'
<1> DEFINE f == sync[s]
           x == IF worth > 0 \/ RecentlySeen
                THEN [f EXCEPT !.pc = "locked", !.held = (worth > 0)]
                ELSE [f EXCEPT !.pc = "unlocked", !.latest = Latest,
                               !.active = rows[Latest].active, !.seen = snap]
<1>1. Still /\ UNCHANGED <<rows, snap, adapter, events, deletes>> /\ f.pc = "fetched"
      /\ sync' = [sync EXCEPT ![s] = x]
  BY DEF SyncRead, broker, Still, Inv, Types
<1>2. f \in SyncType /\ Timely(now, f) /\ f.cash = BalanceAt(f.at) /\ rows # <<>>
      /\ snap \in SnapType /\ snap.at <= now /\ rows \in Seq(RowType)
  BY <1>1 DEF Inv, Types, BalanceInv
<1>3. ~f.held
  BY <1>1 DEF Inv, SeenInv
<1>4. Latest \in DOMAIN rows
  BY <1>2, LatestOpen DEF Inv
<1>5. rows[Latest] \in RowType /\ Latest \in Nat
  BY <1>2, <1>4
<1>6. rows[Latest].active \in BOOLEAN
  BY <1>5 DEF RowType
<1> HIDE DEF f
<1>7. CASE worth > 0 \/ RecentlySeen
  <2> DEFINE y == [f EXCEPT !.pc = "locked", !.held = (worth > 0)]
  <2>1. x = y
    BY <1>7
  <2> HIDE DEF x
  <2>2. y \in SyncType
    <3>1. (worth > 0) \in BOOLEAN
      <4>1. ASSUME worth > 0 PROVE (worth > 0) = TRUE
        BY <4>1
      <4>2. ASSUME ~(worth > 0) PROVE (worth > 0) = FALSE
        BY <4>2
      <4> QED BY <4>1, <4>2, Zenon
    <3> QED BY <1>2, <3>1, Zenon DEF SyncType
  <2>3. y.pc = "locked" /\ y.at = f.at /\ y.cash = f.cash /\ y.equity = f.equity /\ y.seen = f.seen
    BY <1>2 DEF SyncType
  <2> HIDE DEF y
  <2>4. Fits(y)
    BY <1>2, <2>3 DEF Fits, Timely, Seen
  <2> QED BY <1>1, <2>1, <2>2, <2>4, OneSyncerInv
<1>8. CASE ~(worth > 0 \/ RecentlySeen)
  <2> DEFINE y == [f EXCEPT !.pc = "unlocked", !.latest = Latest,
                            !.active = rows[Latest].active, !.seen = snap]
  <2>1. x = y
    BY <1>8
  <2> HIDE DEF x
  <2>2. y \in SyncType
    BY <1>2, <1>5, <1>6, Zenon DEF SyncType
  <2>3. y.pc = "unlocked" /\ y.at = f.at /\ y.cash = f.cash /\ y.equity = f.equity
        /\ y.seen = snap /\ y.latest = Latest /\ y.held = f.held
    BY <1>2 DEF SyncType
  <2> HIDE DEF y
  <2>4. ~RecentIn(midnights, snap)
    BY <1>8, SeenIs
  <2>5. Seen(midnights, y)
    BY <1>3, <2>3, <2>4 DEF Seen
  <2>6. Timely(now, y)
    BY <1>2, <2>3 DEF Timely
  <2>7. Fits(y)
    BY <1>2, <1>4, <2>3, <2>5, <2>6 DEF Fits
  <2> QED BY <1>1, <2>1, <2>2, <2>7, OneSyncerInv
<1> QED BY <1>7, <1>8

\* What a sync may make of the rows: either the row i gets the time of the sync,
\* or it is closed and one with the fetched values added.
Synced(i, a, f, new) ==
    \/ /\ rows[i].cash = f.cash /\ new = [rows EXCEPT ![i].sync = f.at]
    \/ new = Append([rows EXCEPT ![i].open = FALSE],
                    [cash |-> f.cash, equity |-> f.equity, sync |-> f.at,
                     open |-> TRUE, active |-> a])

\* Both keep the rows and their identity as they must be.
LEMMA SyncedRows ==
    ASSUME Inv, NEW i \in DOMAIN rows, NEW a \in BOOLEAN, NEW f \in SyncType, f.at \in 1 .. now,
           f.equity >= f.cash,
           f.cash = BalanceAt(f.at), NEW new, Synced(i, a, f, new)
    PROVE  /\ new \in Seq(RowType) /\ new # <<>> /\ DOMAIN rows \subseteq DOMAIN new
           /\ \A j \in DOMAIN new : new[j].sync \in 1 .. now /\ new[j].equity >= new[j].cash
           /\ \A j \in DOMAIN new \ {1} : new[j].cash = BalanceAt(new[j].sync)
           /\ new[Len(new)].open
           /\ new[1].open => Len(new) = 1
<1>1. rows \in Seq(RowType) /\ Len(rows) \in Nat \ {0} /\ DOMAIN rows = 1 .. Len(rows)
      /\ rows[i] \in RowType /\ i \in 1 .. Len(rows)
  BY DEF Inv, Types
<1>2. \A j \in DOMAIN rows : rows[j] \in RowType
      /\ rows[j].sync \in 1 .. now /\ rows[j].equity >= rows[j].cash
      /\ (j # 1 => rows[j].cash = BalanceAt(rows[j].sync))
  BY <1>1 DEF Inv, Types, BalanceInv
<1>3. rows[Len(rows)].open /\ (rows[1].open => Len(rows) = 1)
  BY <1>1 DEF Inv, RowsInv, Open
<1>4. f.at \in Nat /\ f.cash \in Nat /\ f.equity \in Nat
  BY DEF SyncType
<1>5. ASSUME rows[i].cash = f.cash, new = [rows EXCEPT ![i].sync = f.at]
      PROVE  /\ new \in Seq(RowType) /\ new # <<>> /\ DOMAIN rows \subseteq DOMAIN new
             /\ \A j \in DOMAIN new : new[j].sync \in 1 .. now /\ new[j].equity >= new[j].cash
             /\ \A j \in DOMAIN new \ {1} : new[j].cash = BalanceAt(new[j].sync)
             /\ new[Len(new)].open
             /\ new[1].open => Len(new) = 1
  <2> DEFINE q == [rows[i] EXCEPT !.sync = f.at]
  <2>1. q \in RowType /\ q.sync = f.at /\ q.cash = rows[i].cash /\ q.equity = rows[i].equity
        /\ q.open = rows[i].open
    BY <1>1, <1>4 DEF RowType
  <2>2. new = [rows EXCEPT ![i] = q]
    BY <1>5
  <2> HIDE DEF q
  <2>3. new \in Seq(RowType) /\ Len(new) = Len(rows) /\ DOMAIN new = DOMAIN rows
        /\ \A j \in DOMAIN rows : new[j] = IF j = i THEN q ELSE rows[j]
    BY <1>1, <2>1, <2>2
  <2>4. \A j \in DOMAIN new : new[j].sync \in 1 .. now /\ new[j].equity >= new[j].cash
    BY <1>2, <2>1, <2>3
  <2>5. \A j \in DOMAIN new \ {1} : new[j].cash = BalanceAt(new[j].sync)
    BY <1>2, <1>5, <2>1, <2>3
  <2>6. \A j \in DOMAIN rows : new[j].open = rows[j].open
    BY <2>1, <2>3
  <2> QED BY <1>1, <1>3, <2>3, <2>4, <2>5, <2>6
<1>6. ASSUME new = Append([rows EXCEPT ![i].open = FALSE],
                          [cash |-> f.cash, equity |-> f.equity, sync |-> f.at,
                           open |-> TRUE, active |-> a])
      PROVE  /\ new \in Seq(RowType) /\ new # <<>> /\ DOMAIN rows \subseteq DOMAIN new
             /\ \A j \in DOMAIN new : new[j].sync \in 1 .. now /\ new[j].equity >= new[j].cash
             /\ \A j \in DOMAIN new \ {1} : new[j].cash = BalanceAt(new[j].sync)
             /\ new[Len(new)].open
             /\ new[1].open => Len(new) = 1
  <2> DEFINE q == [rows[i] EXCEPT !.open = FALSE]
             x == [cash |-> f.cash, equity |-> f.equity, sync |-> f.at,
                   open |-> TRUE, active |-> a]
             n == Len(rows) + 1
  <2>1. q \in RowType /\ q.sync = rows[i].sync /\ q.cash = rows[i].cash
        /\ q.equity = rows[i].equity /\ ~q.open
    BY <1>1 DEF RowType
  <2>2. x \in RowType /\ x.cash = f.cash /\ x.sync = f.at /\ x.open /\ x.equity >= x.cash
    BY <1>4 DEF RowType
  <2>3. new = Append([rows EXCEPT ![i] = q], x)
    BY <1>6
  <2> HIDE DEF q, x
  <2>4. [rows EXCEPT ![i] = q] \in Seq(RowType)
    BY <1>1, <2>1
  <2>5. new \in Seq(RowType) /\ Len(new) = n /\ DOMAIN new = (DOMAIN rows) \cup {n}
        /\ n \notin DOMAIN rows /\ new[n] = x
        /\ \A j \in DOMAIN rows : new[j] = IF j = i THEN q ELSE rows[j]
    BY <1>1, <2>2, <2>3, <2>4
  <2> HIDE DEF n
  <2>6. \A j \in DOMAIN new : new[j].sync \in 1 .. now /\ new[j].equity >= new[j].cash
    BY <1>2, <2>1, <2>2, <2>5
  <2>7. \A j \in DOMAIN new \ {1} : new[j].cash = BalanceAt(new[j].sync)
    BY <1>2, <2>1, <2>2, <2>5
  <2>8. ~new[1].open
    <3>1. 1 \in DOMAIN rows /\ (i # 1 => ~rows[1].open)
      BY <1>1, <1>3
    <3> QED BY <2>1, <2>5, <3>1
  <2>9. new # <<>>
    BY <1>1, <2>5
  <2> QED BY <2>2, <2>5, <2>6, <2>7, <2>8, <2>9
<1> QED BY <1>5, <1>6 DEF Synced

\* The rows a sync writes.
LEMMA WriteSynced ==
    ASSUME Inv, NEW s \in Syncer, SyncWrite(s)
    PROVE  \E i \in DOMAIN rows, a \in BOOLEAN :
             /\ Synced(i, a, sync[s], rows')
             /\ sync[s].pc = "locked" => i = Latest /\ a = rows[Latest].active
<1> DEFINE f == sync[s]
           i == IF f.pc = "locked" THEN Latest ELSE f.latest
           a == IF f.pc = "locked" THEN rows[Latest].active ELSE f.active
<1>1. f.pc \in {"locked", "unlocked"} /\ rows' = Written(i, a, f)
  BY DEF SyncWrite
<1>2. f \in SyncType /\ rows # <<>> /\ rows \in Seq(RowType) /\ Latest \in DOMAIN rows
  BY <1>1, LatestOpen DEF Inv, Types, BalanceInv
<1>3. i \in DOMAIN rows
  BY <1>1, <1>2 DEF Inv, RowsInv, SyncType
<1>4. a \in BOOLEAN
  <2>1. rows[Latest] \in RowType
    BY <1>2
  <2>2. rows[Latest].active \in BOOLEAN /\ f.active \in BOOLEAN
    BY <1>2, <2>1 DEF RowType, SyncType
  <2> QED BY <2>2
<1>5. Synced(i, a, f, rows')
  BY <1>1 DEF Written, SameValues, Synced
<1>6. f.pc = "locked" => i = Latest /\ a = rows[Latest].active
  OBVIOUS
<1> HIDE DEF i, a
<1> QED BY <1>3, <1>4, <1>5, <1>6

\* The rows and the snapshot are written.
LEMMA SyncWriteInv == ASSUME Inv, NEW s \in Syncer, SyncWrite(s) PROVE Inv'
<1>1. PICK i \in DOMAIN rows, a \in BOOLEAN : Synced(i, a, sync[s], rows')
  BY WriteSynced
<1>2. sync[s].pc # "idle" /\ snap' \in Snapshots(sync[s]) /\ sync' = [sync EXCEPT ![s] = IdleSync]
      /\ Still /\ UNCHANGED <<adapter, events, deletes>>
  BY DEF SyncWrite, broker, Still
<1>3. sync[s] \in SyncType /\ sync[s].at \in 1 .. now /\ sync[s].cash = BalanceAt(sync[s].at)
      /\ rows # <<>> /\ sync \in [Syncer -> SyncType] /\ sync[s].equity >= sync[s].cash
  BY <1>2 DEF Inv, Types, BalanceInv, Timely
<1>4. /\ rows' \in Seq(RowType) /\ rows' # <<>> /\ DOMAIN rows \subseteq DOMAIN rows'
      /\ \A j \in DOMAIN rows' : rows'[j].sync \in 1 .. now /\ rows'[j].equity >= rows'[j].cash
      /\ \A j \in DOMAIN rows' \ {1} : rows'[j].cash = BalanceAt(rows'[j].sync)
      /\ rows'[Len(rows')].open
      /\ rows'[1].open => Len(rows') = 1
  BY <1>1, <1>3, SyncedRows
<1>5. \A q \in Syncer : sync'[q].pc # "idle" => sync'[q] = sync[q]
  BY <1>2, <1>3, IdleSyncType
<1>6. Types'
  <2>1. Ledger(transfers, now)' /\ Ledger(fills, now)'
    BY <1>2 DEF Inv, Types, Ledger, Still
  <2>2. adapter' \in BOOLEAN
    BY <1>2, Zenon DEF Inv, Types
  <2>3. Day' = Day
    BY <1>2 DEF Day, Still
  <2>4. snap' \in SnapType /\ snap'.at <= now'
    <3>1. snap \in SnapType /\ snap.at <= now /\ now' = now
          /\ sync[s].at \in Int /\ sync[s].at <= now /\ sync[s].held \in BOOLEAN
      <4>1. snap \in SnapType /\ snap.at <= now /\ now' = now
        BY <1>2 DEF Inv, Types, Still
      <4>2. sync[s].held \in BOOLEAN
        BY <1>3, Zenon DEF SyncType
      <4> QED BY <1>3, <4>1, <4>2, Before
    <3>2. snap' = snap \/ snap' = [held |-> sync[s].held, at |-> sync[s].at]
      BY <1>2 DEF Snapshots, LatestOf
    <3>3. [held |-> sync[s].held, at |-> sync[s].at] \in SnapType
      BY <3>1 DEF SnapType
    <3>4. snap'.at = sync[s].at \/ snap'.at = snap.at
      BY <3>2
    <3> QED BY <3>1, <3>2, <3>3, <3>4
  <2>5. sync' \in [Syncer -> SyncType] /\ \A q \in Syncer : sync'[q].pc # "idle" => Timely(now', sync'[q])
    <3>1. \A q \in Syncer : sync[q].pc # "idle" => Timely(now, sync[q])
      BY DEF Inv, Types
    <3>2. sync' \in [Syncer -> SyncType]
      BY <1>2, <1>3, IdleSyncType
    <3> QED BY <1>2, <1>5, <3>1, <3>2 DEF Still, Timely
  <2>6. /\ now' \in 1 .. MaxTime /\ midnights' \in SUBSET (1 .. now') /\ 1 \in midnights'
        /\ cash' \in Nat /\ worth' \in Price \cup {0}
        /\ transfers' \in SUBSET [at : Nat, usd : Int] /\ fills' \in SUBSET FillType
        /\ deletes' \in 0 .. MaxDeletes /\ events' \in SUBSET EventType
    BY <1>2 DEF Inv, Types, Still
  <2>7. \A e \in events' : /\ e.day \in 1 .. Day' /\ e.from \in DOMAIN rows'
                           /\ e.usd \notin -Threshold .. Threshold
    BY <1>2, <1>4, <2>3 DEF Inv, Types
  <2>8. \A j \in DOMAIN rows' : rows'[j].sync \in 1 .. now' /\ rows'[j].equity >= rows'[j].cash
    BY <1>2, <1>4 DEF Still
  <2> QED BY <1>4, <2>1, <2>2, <2>4, <2>5, <2>6, <2>7, <2>8 DEF Types
<1>7. BalanceInv'
  <2>1. (cash = BalanceAt(now))'
    BY <1>2 DEF Inv, BalanceInv, BalanceAt, Still
  <2>2. \A j \in DOMAIN rows' \ {1} : (rows[j].cash = BalanceAt(rows[j].sync))'
    BY <1>2, <1>4 DEF BalanceAt, Still
  <2>3. \A q \in Syncer : (sync[q].pc # "idle" =>
                           rows # <<>> /\ sync[q].cash = BalanceAt(sync[q].at))'
    BY <1>2, <1>4, <1>5 DEF Inv, BalanceInv, BalanceAt, Still
  <2> QED BY <2>1, <2>2, <2>3 DEF BalanceInv
<1>8. RowsInv' /\ SeenInv'
  <2>1. \A q \in Syncer : sync'[q].pc = "unlocked" => sync'[q].latest \in DOMAIN rows'
    BY <1>4, <1>5 DEF Inv, RowsInv
  <2>2. 1 \in Open' => Len(rows') = 1
    BY <1>4 DEF Open
  <2>3. \A q \in Syncer : Seen(midnights', sync'[q])
    <3>1. \A q \in Syncer : Seen(midnights, sync[q])
      BY SeenIs DEF Inv
    <3>2. Seen(midnights, IdleSync) /\ midnights' = midnights
      BY <1>2 DEF Seen, IdleSync, Still
    <3>3. \A q \in Syncer : sync'[q] = sync[q] \/ sync'[q] = IdleSync
      BY <1>2, <1>3
    <3> QED BY <3>1, <3>2, <3>3
  <2> QED BY <1>4, <2>1, <2>2, <2>3, SeenIs DEF RowsInv
<1>9. TimesInv' /\ EventExact'
  BY <1>2 DEF Inv, TimesInv, EventExact, Still
<1> QED BY <1>6, <1>7, <1>8, <1>9 DEF Inv

\* Of the fills in a window some are recorded and some are not.
LEMMA WindowSplits ==
    ASSUME Inv, NEW a \in Int, NEW b \in Int
    PROVE  /\ Sum(Window({f \in fills : f.recorded}, a, b)) \in Int
           /\ Sum(Window({f \in fills : ~f.recorded}, a, b)) \in Int
           /\ Sum(Window(fills, a, b)) = Sum(Window({f \in fills : f.recorded}, a, b))
                                          + Sum(Window({f \in fills : ~f.recorded}, a, b))
<1> DEFINE R == Window({f \in fills : f.recorded}, a, b)
           U == Window({f \in fills : ~f.recorded}, a, b)
<1>1. IsFiniteSet(fills) /\ \A f \in fills : f.usd \in Int
  BY Before DEF Ledger
<1>2. R \in SUBSET fills /\ U \in SUBSET fills /\ R \cap U = {}
      /\ R \cup U = Window(fills, a, b)
  BY DEF Window
<1>3. \A f \in R \cup U : f.usd \in Int
  BY <1>1, <1>2
<1> HIDE DEF R, U
<1>4. IsFiniteSet(R) /\ IsFiniteSet(U) /\ Sum(R) \in Int /\ Sum(U) \in Int
  BY <1>1, <1>2, FS_Subset, SumOf
<1>5. Sum(R \cup U) = Sum(R) + Sum(U)
  BY <1>2, <1>3, <1>4, SumParts
<1> QED BY <1>2, <1>4, <1>5 DEF R, U

\* A flow is found.
LEMMA DetectInv == ASSUME Inv, DetectFunds PROVE Inv'
<1> DEFINE cur  == Latest
           prev == PriorRow
           a    == rows[prev].sync
           b    == rows[cur].sync
           flow == rows[cur].cash - rows[prev].cash - TradeFlow(a, b)
           left == Sum(Window({f \in fills : ~f.recorded}, a, b))
           e    == [day |-> Day, usd |-> flow, from |-> prev, after |-> a, upto |-> b,
                    unrecorded |-> left]
<1>1. Active /\ prev # 0 /\ Exceeds(flow) /\ events' = events \cup {e}
      /\ Still /\ UNCHANGED <<rows, snap, adapter, sync, deletes>>
  BY DEF DetectFunds, broker, Still
<1>2. rows # <<>> /\ rows \in Seq(RowType) /\ cur \in DOMAIN rows /\ cur \in Open
  BY <1>1, ActiveRows, LatestOpen DEF Inv, Types
<1>3. prev \in DOMAIN rows /\ prev \in Int
  <2> DEFINE S == {i \in DOMAIN rows : rows[i].sync < TodayStart}
  <2>1. S # {}
    BY <1>1 DEF PriorRow, Newest
  <2>2. S \in SUBSET DOMAIN rows
    OBVIOUS
  <2> HIDE DEF S
  <2>3. Newest(S) \in S
    BY <2>1, <2>2, NewestIn DEF Inv
  <2>4. prev \in DOMAIN rows
    BY <2>2, <2>3 DEF PriorRow, S
  <2> QED BY <1>2, <2>4
<1>4. a \in 1 .. now /\ b \in 1 .. now /\ rows[cur].cash \in Int /\ rows[prev].cash \in Int
  <2>1. rows[cur] \in RowType /\ rows[prev] \in RowType
    BY <1>2, <1>3
  <2>2. rows[cur].sync \in 1 .. now /\ rows[prev].sync \in 1 .. now
    BY <1>2, <1>3 DEF Inv, Types
  <2> HIDE DEF cur, prev
  <2> QED BY <2>1, <2>2 DEF RowType
<1> HIDE DEF cur, prev, a, b
<1>5. a \in Int /\ b \in Int /\ b <= now
  BY <1>4, Before
<1>6. TradeFlow(a, b) \in Int /\ left \in Int
      /\ Sum(Window(fills, a, b)) = TradeFlow(a, b) + left
  BY <1>5, WindowSplits DEF TradeFlow
<1>7. flow \in Int
  BY <1>4, <1>6
<1>8. Day \in 1 .. Day /\ Day \in Int
  <2>1. IsFiniteSet(1 .. now) /\ midnights \in SUBSET (1 .. now) /\ {1} \in SUBSET midnights
    BY Before, FS_Interval DEF Inv, Types
  <2>2. IsFiniteSet(midnights)
    BY <2>1, FS_Subset
  <2>3. Cardinality({1}) = 1 /\ Cardinality({1}) <= Cardinality(midnights)
        /\ Cardinality(midnights) \in Nat
    BY <2>1, <2>2, FS_Singleton, FS_Subset, FS_CardinalityType
  <2> QED BY <2>3 DEF Day
<1>9. flow \notin -Threshold .. Threshold
  BY <1>1, <1>7, AccountsAssumption DEF Exceeds
<1>10. ASSUME prev # 1, a <= b PROVE flow = Sum(Window(transfers, a, b)) + left
  <2>1. cur # 1
    <3>1. 1 \in Open => Len(rows) = 1
      BY DEF Inv, RowsInv
    <3> QED BY <1>2, <1>3, <1>10, <3>1
  <2>2. rows[cur].cash = BalanceAt(b) /\ rows[prev].cash = BalanceAt(a)
    BY <1>2, <1>3, <1>10, <2>1 DEF Inv, BalanceInv, a, b
  <2>3. /\ SumTo(transfers, b) = SumTo(transfers, a) + Sum(Window(transfers, a, b))
        /\ SumTo(fills, b) = SumTo(fills, a) + Sum(Window(fills, a, b))
        /\ Sum(Window(transfers, a, b)) \in Int /\ Sum(Window(fills, a, b)) \in Int
    BY <1>5, <1>10, Before, SumToWindow
  <2>4. SumTo(transfers, a) \in Int /\ SumTo(fills, a) \in Int
    BY Before, SumToType
  <2>5. BalanceAt(b) = Opening + SumTo(transfers, b) + SumTo(fills, b)
        /\ BalanceAt(a) = Opening + SumTo(transfers, a) + SumTo(fills, a)
    BY DEF BalanceAt, SumTo
  <2>6. rows[cur].cash - rows[prev].cash = Sum(Window(transfers, a, b)) + Sum(Window(fills, a, b))
    BY <2>2, <2>3, <2>4, <2>5, Before
  <2> HIDE DEF left
  <2> QED BY <1>6, <2>3, <2>6
<1> HIDE DEF flow, left
<1>11. e \in EventType /\ e.day = Day /\ e.usd = flow /\ e.from = prev /\ e.after = a /\ e.upto = b
       /\ e.unrecorded = left
  BY <1>3, <1>5, <1>6, <1>7, <1>8 DEF EventType
<1> HIDE DEF e
<1>12. Types'
  <2>1. Ledger(transfers, now)' /\ Ledger(fills, now)'
    BY <1>1 DEF Inv, Types, Ledger, Still
  <2>2. adapter' \in BOOLEAN
    BY <1>1, Zenon DEF Inv, Types
  <2>3. Day' = Day
    BY <1>1 DEF Day, Still
  <2>4. /\ now' \in 1 .. MaxTime /\ midnights' \in SUBSET (1 .. now') /\ 1 \in midnights'
        /\ cash' \in Nat /\ worth' \in Price \cup {0}
        /\ transfers' \in SUBSET [at : Nat, usd : Int] /\ fills' \in SUBSET FillType
    BY <1>1 DEF Inv, Types, Still
  <2>5. /\ rows' \in Seq(RowType) /\ snap' \in SnapType /\ snap'.at <= now'
        /\ \A i \in DOMAIN rows' : rows'[i].sync \in 1 .. now' /\ rows'[i].equity >= rows'[i].cash
        /\ deletes' \in 0 .. MaxDeletes
    BY <1>1 DEF Inv, Types, Still
  <2>6. sync' \in [Syncer -> SyncType] /\ \A s \in Syncer : sync'[s].pc # "idle" => Timely(now', sync'[s])
    BY <1>1 DEF Inv, Types, Still, Timely
  <2>7. events' \in SUBSET EventType
    BY <1>1, <1>11 DEF Inv, Types
  <2>8. \A x \in events' : /\ x.day \in 1 .. Day' /\ x.from \in DOMAIN rows'
                           /\ x.usd \notin -Threshold .. Threshold
    BY <1>1, <1>3, <1>8, <1>9, <1>11, <2>3 DEF Inv, Types
  <2> QED BY <2>1, <2>2, <2>4, <2>5, <2>6, <2>7, <2>8 DEF Types
<1>13. BalanceInv'
  BY <1>1 DEF Inv, BalanceInv, BalanceAt, Still
<1>14. RowsInv' /\ SeenInv'
  BY <1>1, SameSeen DEF Inv, RowsInv, Open
<1>15. TimesInv'
  BY <1>1, <1>5, <1>11 DEF Inv, TimesInv, Still
<1>16. EventExact'
  <2>1. ASSUME NEW x \in events', x.from # 1, x.after <= x.upto
        PROVE  x.usd = Sum(Window(transfers', x.after, x.upto)) + x.unrecorded
    <3>1. transfers' = transfers
      BY <1>1 DEF Still
    <3>2. CASE x \in events
      BY <2>1, <3>1, <3>2 DEF Inv, EventExact
    <3>3. CASE x = e
      BY <1>10, <1>11, <2>1, <3>1, <3>3
    <3> QED BY <1>1, <3>2, <3>3
  <2> QED BY <2>1 DEF EventExact
<1> QED BY <1>12, <1>13, <1>14, <1>15, <1>16 DEF Inv

-----------------------------------------------------------------------------
(* The theorems *)

\* Every step keeps the invariant.
LEMMA NextInv == Inv /\ [Next]_vars => Inv'
<1> SUFFICES ASSUME Inv, [Next]_vars PROVE Inv'
  OBVIOUS
<1>1. CASE UNCHANGED vars
  <2>1. Still /\ UNCHANGED <<rows, snap, events, deletes, adapter, sync>>
    BY <1>1 DEF vars, broker, Still
  <2>2. adapter' \in BOOLEAN
    BY <2>1, Zenon DEF Inv, Types
  <2>3. sync' \in [Syncer -> SyncType]
    BY <2>1 DEF Inv, Types
  <2> QED BY <2>1, <2>2, <2>3, SyncersInv
<1>2. CASE CreateBrokerAccount \/ DeleteBrokerAccount \/ Restart
  BY <1>2, CreateInv, DeleteInv, RestartInv
<1>3. ASSUME NEW s \in Syncer, SyncFetch(s) \/ SyncRead(s) \/ SyncWrite(s) \/ SyncFails(s)
      PROVE  Inv'
  BY <1>3, SyncFetchInv, SyncReadInv, SyncWriteInv, SyncFailsInv
<1>4. CASE DetectFunds \/ RecordFills
  BY <1>4, DetectInv, RecordInv
<1>5. CASE Transfer \/ Fill \/ PriceMoves \/ Midnight
  BY <1>5, TransferInv, FillInv, PassInv
<1> QED BY <1>1, <1>2, <1>3, <1>4, <1>5 DEF Next

\* The invariant holds always.
LEMMA Always == Spec => []Inv
BY InitInv, NextInv, PTL DEF Spec

\* Balances, rows, snapshots and events have their types in every run.
THEOREM TypesHold == Spec => []TypeOK
<1>1. Inv => TypeOK
  <2> SUFFICES ASSUME Inv PROVE TypeOK
    OBVIOUS
  <2>1. \A i \in DOMAIN rows : rows[i].cash \in Nat
    <3>1. rows \in Seq(RowType)
      BY DEF Inv, Types
    <3>2. \A i \in DOMAIN rows : rows[i] \in RowType
      BY <3>1
    <3> QED BY <3>2 DEF RowType
  <2>2. \A e \in events : e.usd \in Int
    BY DEF Inv, Types, EventType
  <2>3. adapter \in BOOLEAN
    BY Zenon DEF Inv, Types
  <2> QED BY <2>1, <2>2, <2>3 DEF Inv, Types, TypeOK
<1> QED BY <1>1, Always, PTL

\* An event of detect_funds_flow reports what was transferred in its window and the
\* fills the reconciliation has not recorded: trades, prices and any number of
\* syncs cancel out.
THEOREM EventsAreExact == Spec => []EventExact
<1>1. Inv => EventExact
  BY DEF Inv
<1> QED BY <1>1, Always, PTL

\* The latest position rows, by their ts, show what the broker returned to the sync
\* that asked last, a closed position too, whatever the order of the writes.
THEOREM SnapshotsFollow == Spec => PositionsFollow
<1> DEFINE Follows(s) ==
      /\ sync[s].at < snap.at => snap' = snap
      /\ sync[s].at > snap.at /\ (sync[s].pc = "unlocked" => sync[s].seen = snap) =>
           /\ sync[s].held => snap'.held
           /\ snap'.held => sync[s].held \/ ~RecentlySeen
<1>1. ASSUME Inv, NEW s \in Syncer, SyncWrite(s) PROVE Follows(s)
  <2> DEFINE f == sync[s]
             new == [held |-> f.held, at |-> f.at]
  <2>1. f.pc \in {"locked", "unlocked"} /\ snap' \in Snapshots(f)
    BY <1>1 DEF SyncWrite
  <2>2. f.at \in Int /\ snap.at \in Int
    BY <1>1 DEF Inv, Types, SyncType, SnapType
  <2>3. ASSUME f.at < snap.at PROVE snap' = snap
    BY <2>1, <2>2, <2>3 DEF Snapshots, LatestOf
  <2>4. ASSUME f.at > snap.at, f.pc = "locked" PROVE snap' = new
    BY <2>1, <2>2, <2>4 DEF Snapshots, LatestOf
  <2>5. ASSUME f.pc = "unlocked" PROVE snap' = snap /\ ~f.held /\ ~Recent(f.seen)
    BY <1>1, <2>1, <2>5 DEF Snapshots, Inv, SeenInv
  <2>6. ASSUME f.at > snap.at, f.pc = "unlocked" => f.seen = snap
        PROVE  /\ f.held => snap'.held
               /\ snap'.held => f.held \/ ~RecentlySeen
    <3>1. CASE f.pc = "locked"
      <4>1. snap'.held = f.held
        BY <2>4, <2>6, <3>1
      <4> QED BY <4>1, Zenon
    <3>2. CASE f.pc = "unlocked"
      BY <2>5, <2>6, <3>2, Zenon DEF RecentlySeen
    <3> QED BY <2>1, <3>1, <3>2
  <2> QED BY <2>3, <2>6, Zenon
<1>2. Inv /\ [Next]_vars => [\A s \in Syncer : SyncWrite(s) => Follows(s)]_vars
  BY <1>1
<1> QED BY <1>2, Always, PTL DEF Spec, PositionsFollow

\* At most one element.
LEMMA AtMostOne ==
    ASSUME NEW S, IsFiniteSet(S)
    PROVE  Cardinality(S) <= 1 <=> \A x, y \in S : x = y
<1>1. ASSUME Cardinality(S) <= 1, NEW x \in S, NEW y \in S PROVE x = y
  <2>1. IsFiniteSet(S \ {x}) /\ Cardinality(S \ {x}) = Cardinality(S) - 1
        /\ Cardinality(S) \in Nat /\ Cardinality(S \ {x}) \in Nat
    BY FS_RemoveElement, FS_CardinalityType
  <2>2. Cardinality(S \ {x}) = 0
    BY <1>1, <2>1
  <2>3. S \ {x} = {}
    BY <2>1, <2>2, FS_EmptySet
  <2> QED BY <2>3
<1>2. ASSUME \A x, y \in S : x = y PROVE Cardinality(S) <= 1
  <2>1. CASE S = {}
    BY <2>1, FS_EmptySet
  <2>2. CASE S # {}
    <3>1. PICK x \in S : S = {x}
      BY <1>2, <2>2
    <3> QED BY <3>1, FS_Singleton
  <2> QED BY <2>1, <2>2
<1> QED BY <1>1, <1>2

\* What one step leaves of the open rows and of their mark.
Identity ==
    /\ (\A i, j \in Open : i = j) => (\A i, j \in Open' : i = j)
    /\ deletes > 0 /\ ~Active => ~Active'

\* A sync that holds the write lock keeps the account's identity.
LEMMA LockedKeeps ==
    ASSUME Inv, NEW s \in Syncer, SyncWrite(s), sync[s].pc # "unlocked"
    PROVE  Identity
<1>1. sync[s].pc = "locked" /\ rows # <<>>
  BY DEF SyncWrite, Inv, Types, SyncType, BalanceInv
<1>2. PICK i \in DOMAIN rows, a \in BOOLEAN :
        Synced(i, a, sync[s], rows') /\ i = Latest /\ a = rows[Latest].active
  BY <1>1, WriteSynced
<1>3. i \in Open /\ rows \in Seq(RowType) /\ Len(rows) \in Nat
  BY <1>1, <1>2, LatestOpen DEF Inv, Types
<1>4. CASE rows' = [rows EXCEPT ![i].sync = sync[s].at]
  <2>1. DOMAIN rows' = DOMAIN rows
        /\ \A j \in DOMAIN rows : rows'[j].open = rows[j].open /\ rows'[j].active = rows[j].active
    BY <1>3, <1>4
  <2> QED BY <2>1 DEF Identity, Open, Active
<1>5. CASE rows' = Append([rows EXCEPT ![i].open = FALSE],
                          [cash |-> sync[s].cash, equity |-> sync[s].equity,
                           sync |-> sync[s].at, open |-> TRUE, active |-> a])
  <2> DEFINE n == Len(rows) + 1
             x == [cash |-> sync[s].cash, equity |-> sync[s].equity,
                   sync |-> sync[s].at, open |-> TRUE, active |-> a]
             q == [rows[i] EXCEPT !.open = FALSE]
  <2>1. rows[i] \in RowType
    BY <1>3
  <2>2. q \in RowType /\ ~q.open /\ q.active = rows[i].active /\ x.active = a
    BY <2>1 DEF RowType
  <2>3. rows' = Append([rows EXCEPT ![i] = q], x)
    BY <1>5
  <2> HIDE DEF q, x
  <2>4. [rows EXCEPT ![i] = q] \in Seq(RowType) /\ Len([rows EXCEPT ![i] = q]) = Len(rows)
    BY <1>3, <2>2
  <2>5. /\ DOMAIN rows' = (DOMAIN rows) \cup {n} /\ rows'[n] = x
        /\ \A j \in DOMAIN rows : rows'[j] = IF j = i THEN q ELSE rows[j]
    BY <1>3, <2>3, <2>4
  <2> HIDE DEF n
  <2>6. \A j \in Open' : j = n \/ (j \in Open /\ j # i /\ rows'[j] = rows[j])
    BY <2>2, <2>5 DEF Open
  <2>7. (\A j, k \in Open : j = k) => (\A j, k \in Open' : j = k)
    BY <1>3, <2>6
  <2>8. ~Active => ~Active'
    <3>1. ~Active => ~a
      BY <1>2, <1>3 DEF Active
    <3>2. ~a => ~rows'[n].active
      BY <2>2, <2>5
    <3>3. ASSUME NEW j \in Open', rows'[j].active, ~Active PROVE FALSE
      BY <2>6, <3>1, <3>2, <3>3 DEF Active
    <3> QED BY <3>3 DEF Active
  <2> QED BY <2>7, <2>8 DEF Identity
<1> QED BY <1>2, <1>4, <1>5 DEF Synced

\* Overlapping syncs leave one open row and a deleted account stays deleted, as long
\* as no sync reads the latest row without the write lock.
THEOREM IdentityIsKept == Spec => IdentityKept
<1> DEFINE Locked == \A s \in Syncer : sync[s].pc # "unlocked"
           Kept == Locked =>
                     /\ Cardinality(Open) <= 1 => Cardinality(Open') <= 1
                     /\ deletes > 0 /\ ~Active => ~Active'
<1>1. ASSUME Inv, [Next]_vars, Locked PROVE Identity
  <2>1. CASE UNCHANGED rows
    BY <2>1 DEF Identity, Open, Active
  <2>2. CASE CreateBrokerAccount
    <3>1. rows' = <<[cash |-> 0, equity |-> 0, sync |-> now, open |-> TRUE, active |-> TRUE]>>
          /\ deletes = 0
      BY <1>1, <2>2 DEF CreateBrokerAccount, Inv, RowsInv
    <3>2. DOMAIN rows' = {1}
      BY <3>1
    <3> QED BY <3>1, <3>2 DEF Identity, Open
  <2>3. CASE DeleteBrokerAccount
    <3>1. DOMAIN rows' = DOMAIN rows
          /\ \A i \in DOMAIN rows : rows'[i] = [rows[i] EXCEPT !.active = FALSE]
      BY <2>3 DEF DeleteBrokerAccount
    <3>2. \A i \in DOMAIN rows : rows[i] \in RowType
      BY <1>1 DEF Inv, Types
    <3>3. \A i \in DOMAIN rows : rows'[i].open = rows[i].open /\ ~rows'[i].active
      BY <3>1, <3>2 DEF RowType
    <3> QED BY <3>1, <3>3 DEF Identity, Open, Active
  <2>4. ASSUME NEW s \in Syncer, SyncWrite(s) PROVE Identity
    BY <1>1, <2>4, LockedKeeps
  <2>5. ASSUME NEW s \in Syncer, SyncFetch(s) \/ SyncRead(s) \/ SyncFails(s) PROVE UNCHANGED rows
    BY <2>5 DEF SyncFetch, SyncRead, SyncFails
  <2>6. CASE Restart \/ DetectFunds \/ RecordFills \/ Transfer \/ Fill \/ PriceMoves \/ Midnight
             \/ UNCHANGED vars
    BY <2>1, <2>6 DEF Restart, DetectFunds, RecordFills, Transfer, Fill, PriceMoves, Midnight, vars
  <2> QED BY <1>1, <2>1, <2>2, <2>3, <2>4, <2>5, <2>6 DEF Next
<1>2. ASSUME Inv, Inv', [Next]_vars PROVE Kept
  <2>1. IsFiniteSet(Open) /\ IsFiniteSet(Open')
    <3>1. IsFiniteSet(1 .. Len(rows)) /\ IsFiniteSet(1 .. Len(rows'))
      BY <1>2, FS_Interval DEF Inv, Types
    <3>2. Open \in SUBSET (1 .. Len(rows)) /\ Open' \in SUBSET (1 .. Len(rows'))
      BY <1>2 DEF Open, Inv, Types
    <3> QED BY <3>1, <3>2, FS_Subset
  <2>2. /\ Cardinality(Open) <= 1 <=> \A x, y \in Open : x = y
        /\ Cardinality(Open') <= 1 <=> \A x, y \in Open' : x = y
    BY <2>1, AtMostOne
  <2> QED BY <1>1, <1>2, <2>2 DEF Identity
<1>3. Inv /\ Inv' /\ [Next]_vars => [Kept]_vars
  BY <1>2
<1> QED BY <1>3, Always, PTL DEF Spec, IdentityKept

=============================================================================

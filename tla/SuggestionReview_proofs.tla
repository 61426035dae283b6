----------------------- MODULE SuggestionReview_proofs -----------------------
(***************************************************************************)
(* Proofs about SuggestionReview for every list of tickers, every set of   *)
(* levels, gaps, cash balances and answers of the LLM, and any number of   *)
(* runs on any number of threads.                                          *)
(***************************************************************************)
EXTENDS SuggestionReview, SumTheorems

-----------------------------------------------------------------------------
(* Arithmetic *)

\* Whole shares cost no more than the money there is.
LEMMA SharesCost ==
    ASSUME NEW usd \in Int, NEW price \in Nat \ {0}
    PROVE  /\ Shares(usd, price) \in Int
           /\ \A q \in Int : q <= Shares(usd, price) => q * price <= usd
<1> DEFINE s == usd \div price
<1>1. s \in Int /\ s * price <= usd
  OBVIOUS
<1> HIDE DEF s
<1>2. ASSUME NEW q \in Int, q <= s PROVE q * price <= s * price
  BY <1>1, <1>2
<1>3. \A q \in Int : q * price \in Int
  OBVIOUS
<1> QED BY <1>1, <1>2, <1>3 DEF Shares, s

\* Rounding moves a price by half a cent at most; floor and ceiling keep its side.
LEMMA RoundingBounds ==
    ASSUME NEW p \in Nat
    PROVE  /\ Rounded(p) \in Nat /\ Rounded(p) - HalfCent <= p /\ p <= Rounded(p) + HalfCent
           /\ FloorCent(p) \in Nat /\ FloorCent(p) <= p
           /\ CeilCent(p) \in Nat /\ p <= CeilCent(p)
<1>1. HalfCent \in Nat \ {0}
  BY ReviewAssumption
<1>2. PICK c \in Nat \ {0} : c = Cent /\ c = HalfCent + HalfCent
  BY <1>1 DEF Cent
<1>3. ASSUME NEW a \in Nat
      PROVE  (a \div c) * c \in Nat /\ (a \div c) * c <= a /\ a < (a \div c) * c + c
  <2>1. PICK q \in Nat : q = a \div c
    BY <1>2
  <2>2. q * c <= a /\ a < q * c + c
    BY <1>2, <2>1
  <2>3. q * c \in Nat
    BY <1>2, <2>1
  <2> QED BY <2>1, <2>2, <2>3
<1>4. PICK x \in Nat : x = Rounded(p) /\ x <= p + HalfCent /\ p + HalfCent < x + c
  <2>1. p + HalfCent \in Nat
    BY <1>1
  <2> QED BY <1>2, <1>3, <2>1 DEF Rounded
<1>5. FloorCent(p) \in Nat /\ FloorCent(p) <= p
  BY <1>2, <1>3 DEF FloorCent
<1>6. PICK y \in Nat : y = CeilCent(p) /\ p + c - 1 < y + c
  <2>1. p + c - 1 \in Nat
    BY <1>2
  <2> QED BY <1>2, <1>3, <2>1 DEF CeilCent
<1>7. x - HalfCent <= p /\ p <= x + HalfCent
  BY <1>1, <1>2, <1>4
<1>8. p <= y
  BY <1>2, <1>6
<1> QED BY <1>4, <1>5, <1>6, <1>7, <1>8

\* A price on its side gives a limit that is on its side up to half a cent, and
\* one that a level of the graph replaces is on its side outright.
LEMMA LimitsOnSide ==
    ASSUME NEW side \in {"buy", "sell"}, NEW p \in Nat, OnItsSide(side, p)
    PROVE  NearItsSide(side, Rounded(p)) /\ NearItsSide(side, Reanchored(side, p))
<1>1. /\ HalfCent \in Nat /\ Close \in Nat
      /\ Rounded(p) \in Nat /\ Rounded(p) - HalfCent <= p /\ p <= Rounded(p) + HalfCent
      /\ FloorCent(p) \in Nat /\ FloorCent(p) <= p
      /\ CeilCent(p) \in Nat /\ p <= CeilCent(p)
  BY RoundingBounds, ReviewAssumption
<1>2. PICK x \in Nat, y \in Nat, z \in Nat :
        x = Rounded(p) /\ y = FloorCent(p) /\ z = CeilCent(p)
  BY <1>1
<1> QED BY <1>1, <1>2 DEF OnItsSide, NearItsSide, Reanchored

\* The larger of two integers.
LEMMA MaxPair == ASSUME NEW a \in Int, NEW b \in Int
                 PROVE  Max({a, b}) \in {a, b} /\ Max({a, b}) >= a /\ Max({a, b}) >= b
<1>1. \E x \in {a, b} : \A y \in {a, b} : x >= y
  <2>1. CASE a >= b
    BY <2>1
  <2>2. CASE b >= a
    BY <2>2
  <2> QED BY <2>1, <2>2
<1> QED BY <1>1 DEF Max

\* No less than one share.
LEMMA MaxOne == \A x \in Int : Max({1, x}) \in Int
<1>1. 1 \in Int
  OBVIOUS
<1>2. \A a, b \in Int : Max({a, b}) \in {a, b}
  BY MaxPair
<1> QED BY <1>1, <1>2

\* The smaller of two integers.
LEMMA MinPair == ASSUME NEW a \in Int, NEW b \in Int
                 PROVE  Min({a, b}) \in {a, b} /\ Min({a, b}) <= a /\ Min({a, b}) <= b
<1>1. \E x \in {a, b} : \A y \in {a, b} : x <= y
  <2>1. CASE a <= b
    BY <2>1
  <2>2. CASE b <= a
    BY <2>2
  <2> QED BY <2>1, <2>2
<1> QED BY <1>1 DEF Min

\* The smallest of three.
LEMMA MinTriple ==
    ASSUME NEW a \in Int, NEW b \in Int, NEW c \in Int
    PROVE  Min({a, b, c}) \in Int /\ Min({a, b, c}) <= c
<1>1. \E x \in {a, b, c} : \A y \in {a, b, c} : x <= y
  <2>1. CASE a <= b /\ a <= c
    BY <2>1
  <2>2. CASE b <= a /\ b <= c
    BY <2>2
  <2>3. CASE c <= a /\ c <= b
    BY <2>3
  <2> QED BY <2>1, <2>2, <2>3
<1> QED BY <1>1 DEF Min

-----------------------------------------------------------------------------
(* Recursion over the tickers *)

\* f starts at b and does the steps h.
Steps(f, N, D, b, h) ==
    /\ f \in [0 .. N -> D]
    /\ f[0] = b
    /\ \A n \in 1 .. N : f[n] = h[n][f[n - 1]]

\* A function that is defined step by step exists.
LEMMA Recursion ==
    ASSUME NEW N \in Nat, NEW D, NEW b \in D, NEW h \in [1 .. N -> [D -> D]]
    PROVE  \E f : Steps(f, N, D, b, h)
<1> DEFINE Up(f, m) == f[0] = b /\ \A n \in 1 .. m : f[n] = h[n][f[n - 1]]
           T == {m \in 0 .. N : ~ \E f \in [0 .. m -> D] : Up(f, m)}
<1>0. T = {} => \E f \in [0 .. N -> D] : Up(f, N)
  <2>1. N \in 0 .. N
    OBVIOUS
  <2> QED BY <2>1
<1>1. SUFFICES ASSUME T # {} PROVE FALSE
  BY <1>0 DEF Steps
<1>2. PICK m \in T : \A k \in T : m <= k
  <2>1. T \in SUBSET Nat
    OBVIOUS
  <2> HIDE DEF T
  <2> QED BY <1>1, <2>1, LeastNat
<1>3. m # 0
  <2>1. [i \in 0 .. 0 |-> b] \in [0 .. 0 -> D] /\ Up([i \in 0 .. 0 |-> b], 0)
    OBVIOUS
  <2> QED BY <1>2, <2>1
<1>4. PICK f \in [0 .. m - 1 -> D] : Up(f, m - 1)
  <2>1. m - 1 \in 0 .. N /\ ~(m <= m - 1)
    BY <1>2, <1>3
  <2>2. m - 1 \notin T
    BY <1>2, <2>1
  <2> QED BY <2>1, <2>2
<1> DEFINE g == [i \in 0 .. m |-> IF i = m THEN h[m][f[m - 1]] ELSE f[i]]
<1>5. g \in [0 .. m -> D]
  BY <1>2, <1>3, <1>4
<1>6. Up(g, m)
  <2>0. m \in Nat \ {0} /\ \A i \in 0 .. m - 1 : g[i] = f[i]
    BY <1>2, <1>3
  <2>1. g[0] = b
    BY <1>4, <2>0
  <2>2. ASSUME NEW n \in 1 .. m, n # m PROVE g[n] = h[n][g[n - 1]]
    <3>1. n \in 1 .. m - 1 /\ g[n] = f[n] /\ g[n - 1] = f[n - 1]
      BY <2>0, <2>2
    <3>2. f[n] = h[n][f[n - 1]]
      BY <1>4, <3>1
    <3> QED BY <3>1, <3>2, Zenon
  <2>3. g[m] = h[m][g[m - 1]]
    <3>1. g[m] = h[m][f[m - 1]] /\ g[m - 1] = f[m - 1]
      BY <2>0
    <3> QED BY <3>1, Zenon
  <2> HIDE DEF g
  <2> QED BY <2>1, <2>2, <2>3
<1> QED BY <1>2, <1>5, <1>6

-----------------------------------------------------------------------------
(* What the drafts of a run cost *)

\* A draft more costs its shares at its limit if it is a buy.
LEMMA SpentAppend ==
    ASSUME NEW ds \in Seq(DraftType), NEW d \in DraftType, NEW less \in Int
    PROVE  /\ Spent(ds, less) \in Int
           /\ Spent(Append(ds, d), less) =
                Spent(ds, less) + IF d.side = "buy" THEN d.qty * (d.limit - less) ELSE 0
<1> DEFINE F(s) == [i \in DOMAIN s |-> s[i].qty * (s[i].limit - less)]
           V(f, S) == SumFunctionOnSet(f, S)
           a == Append(ds, d)
           n == Len(ds) + 1
           cost == d.qty * (d.limit - less)
<1>1. a \in Seq(DraftType) /\ DOMAIN a = (DOMAIN ds) \cup {n} /\ n \notin DOMAIN ds
      /\ a[n] = d /\ \A i \in DOMAIN ds : a[i] = ds[i]
  OBVIOUS
<1>2. ASSUME NEW s \in Seq(DraftType)
      PROVE  IsFiniteSet(Buys(s)) /\ (\A i \in DOMAIN s : F(s)[i] \in Int) /\ Buys(s) \subseteq DOMAIN s
  <2>1. Buys(s) \subseteq DOMAIN s
    BY DEF Buys
  <2>2. IsFiniteSet(Buys(s))
    <3>1. IsFiniteSet(1 .. Len(s)) /\ Buys(s) \subseteq 1 .. Len(s)
      BY <2>1, FS_Interval
    <3> QED BY <3>1, FS_Subset
  <2>3. ASSUME NEW i \in DOMAIN s PROVE s[i].qty * (s[i].limit - less) \in Int
    <3>1. s[i] \in DraftType
      OBVIOUS
    <3>2. s[i].qty \in Int /\ s[i].limit - less \in Int
      BY <3>1 DEF DraftType
    <3> QED BY <3>2
  <2> QED BY <2>1, <2>2, <2>3
<1>3. V(F(ds), Buys(ds)) \in Int /\ V(F(a), Buys(a)) \in Int
  BY <1>1, <1>2, SumInt
<1>4. V(F(a), Buys(ds)) = V(F(ds), Buys(ds))
  <2>1. \A i \in Buys(ds) : F(a)[i] = F(ds)[i]
    BY <1>1, <1>2
  <2>2. IsFiniteSet(Buys(ds))
    BY <1>2
  <2> HIDE DEF F
  <2> QED BY <2>1, <2>2, SumAgree
<1>5. CASE d.side = "buy"
  <2>1. n \in Buys(a) /\ Buys(a) \ {n} = Buys(ds) /\ F(a)[n] = cost
    BY <1>1, <1>5 DEF Buys
  <2>2. IsFiniteSet(Buys(a)) /\ \A i \in Buys(a) : F(a)[i] \in Int
    BY <1>1, <1>2
  <2> HIDE DEF F, a, n, cost
  <2>3. V(F(a), Buys(a)) = F(a)[n] + V(F(a), Buys(a) \ {n})
    BY <2>1, <2>2, SumRemove
  <2>4. V(F(a), Buys(a)) = cost + V(F(ds), Buys(ds))
    BY <1>4, <2>1, <2>3
  <2>5. cost \in Int
    BY <2>1, <2>2
  <2> HIDE DEF V
  <2>6. V(F(a), Buys(a)) = V(F(ds), Buys(ds)) + cost
    BY <1>3, <2>4, <2>5
  <2> QED BY <1>3, <1>5, <2>6 DEF Spent, F, V, a, cost
<1>6. CASE d.side # "buy"
  <2>1. Buys(a) = Buys(ds)
    BY <1>1, <1>6 DEF Buys
  <2> HIDE DEF F, V, a
  <2>2. V(F(a), Buys(a)) = V(F(ds), Buys(ds)) + 0
    BY <1>3, <1>4, <2>1
  <2> QED BY <1>3, <1>6, <2>2 DEF Spent, F, V, a
<1> QED BY <1>5, <1>6

\* Nothing is spent by no drafts.
LEMMA SpentNothing == Buys(<<>>) = {} /\ \A less : Spent(<<>>, less) = 0
<1>1. Buys(<<>>) = {}
  BY DEF Buys
<1> QED BY <1>1, SumEmpty DEF Spent

\* What drafts cost is a number.
LEMMA SpentInt == ASSUME NEW ds \in Seq(DraftType), NEW less \in Int PROVE Spent(ds, less) \in Int
<1>1. CASE ds = <<>>
  BY <1>1, SpentNothing
<1>2. CASE ds # <<>>
  <2>1. ds[1] \in DraftType
    BY <1>2
  <2> QED BY <2>1, SpentAppend
<1> QED BY <1>1, <1>2

\* A buy more whose limit is rounded from a price costs no more than its shares at
\* the price, half a cent a share aside, and more without that half cent.
LEMMA SpentRounded ==
    ASSUME NEW ds \in Seq(DraftType), NEW d \in DraftType, d.side = "buy",
           NEW price \in Nat, d.limit = Rounded(price)
    PROVE  /\ Spent(ds, HalfCent) \in Int /\ Spent(ds, 0) \in Int /\ d.qty * price \in Int
           /\ Spent(Append(ds, d), HalfCent) \in Int
           /\ Spent(Append(ds, d), HalfCent) <= Spent(ds, HalfCent) + d.qty * price
           /\ Spent(ds, HalfCent) <= Spent(ds, 0) =>
                Spent(Append(ds, d), HalfCent) <= Spent(Append(ds, d), 0)
<1> DEFINE a == Append(ds, d)
<1>1. PICK q \in Nat, l \in Nat : q = d.qty /\ l = d.limit
  BY DEF DraftType
<1>2. HalfCent \in Nat /\ l - HalfCent <= price
  BY <1>1, RoundingBounds, ReviewAssumption
<1>3. /\ Spent(ds, HalfCent) \in Int /\ Spent(ds, 0) \in Int
      /\ Spent(a, HalfCent) = Spent(ds, HalfCent) + q * (l - HalfCent)
      /\ Spent(a, 0) = Spent(ds, 0) + q * (l - 0)
  <2>1. HalfCent \in Int /\ 0 \in Int
    BY <1>2
  <2>2. /\ Spent(ds, HalfCent) \in Int
        /\ Spent(a, HalfCent) = Spent(ds, HalfCent) +
             IF d.side = "buy" THEN d.qty * (d.limit - HalfCent) ELSE 0
    BY <2>1, SpentAppend
  <2>3. /\ Spent(ds, 0) \in Int
        /\ Spent(a, 0) = Spent(ds, 0) + IF d.side = "buy" THEN d.qty * (d.limit - 0) ELSE 0
    BY <2>1, SpentAppend
  <2> HIDE DEF a
  <2> QED BY <1>1, <2>2, <2>3
<1>4. PICK u \in Int, v \in Int, w \in Int : u = q * (l - HalfCent) /\ v = q * l /\ w = q * price
  BY <1>1, <1>2
<1>5. \A x, y \in Int : x <= y => q * x <= q * y
  BY <1>1
<1>6. u <= v /\ u <= w
  <2>1. PICK k \in Int : k = l - HalfCent /\ k <= l /\ k <= price
    BY <1>1, <1>2
  <2>2. q * k <= q * l /\ q * k <= q * price
    BY <1>5, <2>1
  <2>3. u = q * k
    BY <1>4, <2>1
  <2> QED BY <1>4, <2>2, <2>3
<1>7. l - 0 = l
  BY <1>1
<1>8. PICK x \in Int, y \in Int : x = Spent(ds, HalfCent) /\ y = Spent(ds, 0)
  BY <1>3
<1>9. Spent(a, HalfCent) = x + u /\ Spent(a, 0) = y + v
  BY <1>3, <1>4, <1>7, <1>8
<1>10. x + u <= x + w /\ (x <= y => x + u <= y + v) /\ x + u \in Int
  BY <1>4, <1>6, <1>8
<1> HIDE DEF a
<1>11. d.qty * price = w
  BY <1>1, <1>4
<1> QED BY <1>3, <1>4, <1>8, <1>9, <1>10, <1>11 DEF a

-----------------------------------------------------------------------------
(* The drafts of a run *)

\* Drafts and the cash left.
Acc == [drafts : Seq(DraftType), cash : Int]

\* Drafts for some of the first n tickers of GapOrder, one for each, on the
\* right side of the market and within the floor.
Prefix(acc, n, cash) ==
    /\ acc \in Acc
    /\ \A i \in DOMAIN acc.drafts :
         /\ \E m \in 1 .. n : acc.drafts[i].ticker = GapOrder[m]
         /\ NearItsSide(acc.drafts[i].side, acc.drafts[i].limit)
    /\ \A i, j \in DOMAIN acc.drafts : acc.drafts[i].ticker = acc.drafts[j].ticker => i = j
    /\ Spent(acc.drafts, HalfCent) <= cash - acc.cash
    /\ Spent(acc.drafts, HalfCent) <= Spent(acc.drafts, 0)
    /\ Buys(acc.drafts) # {} => acc.cash >= CashFloor

\* What the anchors are.
Anchored(gap, anchor) ==
    /\ gap \in [Ticker -> Gap]
    /\ anchor \in [Ticker -> Level \cup {None}]
    /\ \A t \in Ticker : anchor[t] # None => OnItsSide(SideOf(gap[t]), LevelPrice[anchor[t]])

\* The tickers of GapOrder.
LEMMA TickerAt ==
    /\ Len(GapOrder) \in Nat
    /\ \A n \in 1 .. Len(GapOrder) : GapOrder[n] \in Ticker
    /\ \A m, n \in 1 .. Len(GapOrder) : GapOrder[m] = GapOrder[n] => m = n
BY ReviewAssumption DEF Ticker, Range, IsInjective

\* A regular draft has its type.
LEMMA RegularType ==
    ASSUME NEW gap, NEW anchor, Anchored(gap, anchor), NEW t \in Ticker, anchor[t] # None
    PROVE  LET d == Regular(t, gap[t], anchor[t])
           IN  /\ d.qty \in Int /\ LevelPrice[anchor[t]] \in Nat
               /\ d.qty >= 1 => d \in DraftType
               /\ d.ticker = t /\ d.side = SideOf(gap[t])
               /\ d.limit = Rounded(LevelPrice[anchor[t]])
               /\ NearItsSide(d.side, d.limit)
<1> DEFINE d == Regular(t, gap[t], anchor[t])
<1>1. anchor[t] \in Level /\ gap[t].usd \in Int
  BY ReviewAssumption DEF Anchored
<1>2. LevelPrice[anchor[t]] \in Nat \ {0}
  BY <1>1, ReviewAssumption
<1>3. Size(gap[t].usd) \div 2 \in Int
  BY <1>1 DEF Size
<1>4. Shares(Size(gap[t].usd) \div 2, LevelPrice[anchor[t]]) \in Int
  BY <1>2, <1>3, SharesCost
<1>5. SideOf(gap[t]) \in {"buy", "sell"} /\ OnItsSide(SideOf(gap[t]), LevelPrice[anchor[t]])
  BY DEF SideOf, Anchored
<1>6. Rounded(LevelPrice[anchor[t]]) \in Nat
      /\ NearItsSide(SideOf(gap[t]), Rounded(LevelPrice[anchor[t]]))
  BY <1>2, <1>5, RoundingBounds, LimitsOnSide
<1>7. d.qty \in Int /\ (d.qty >= 1 => d \in DraftType)
  BY <1>4, <1>5, <1>6 DEF Regular, DraftType
<1> QED BY <1>2, <1>6, <1>7 DEF Regular

\* What a step of the loop over the tickers does with a regular draft.
RegularStep(a, acc, t) ==
    \/ a = acc
    \/ \E d \in DraftType, cost \in Int, price \in Nat :
         /\ a = [drafts |-> Append(acc.drafts, d), cash |-> acc.cash - cost]
         /\ d.ticker = t /\ NearItsSide(d.side, d.limit) /\ d.limit = Rounded(price)
         /\ cost = IF d.side = "buy" THEN d.qty * price ELSE 0
         /\ d.side = "buy" => cost <= acc.cash - CashFloor

\* A step of the loop.
LEMMA RegularSteps ==
    ASSUME NEW gap, NEW anchor, Anchored(gap, anchor), NEW t \in Ticker, NEW acc
    PROVE  RegularStep(AddRegular(acc, t, gap, anchor), acc, t)
<1> DEFINE d == Regular(t, gap[t], anchor[t])
           price == LevelPrice[anchor[t]]
           cost == IF d.side = "buy" THEN d.qty * price ELSE 0
           a == AddRegular(acc, t, gap, anchor)
<1>1. CASE a = acc
  BY <1>1 DEF RegularStep
<1>2. CASE a # acc
  <2>1. /\ anchor[t] # None /\ d.qty >= 1
        /\ d.side = "buy" => cost <= acc.cash - CashFloor
        /\ a = [drafts |-> Append(acc.drafts, d), cash |-> acc.cash - cost]
    BY <1>2 DEF AddRegular
  <2>2. /\ d \in DraftType /\ d.ticker = t /\ NearItsSide(d.side, d.limit)
        /\ d.limit = Rounded(price) /\ d.qty \in Int /\ price \in Nat
    BY <2>1, RegularType
  <2> HIDE DEF d, price, a
  <2>3. cost \in Int
    BY <2>2
  <2> QED BY <2>1, <2>2, <2>3 DEF RegularStep, a
<1> QED BY <1>1, <1>2

\* One more ticker.
LEMMA AddRegularPrefix ==
    ASSUME NEW cash \in Int, NEW n \in 1 .. Len(GapOrder), NEW acc, Prefix(acc, n - 1, cash),
           NEW a, RegularStep(a, acc, GapOrder[n])
    PROVE  Prefix(a, n, cash)
<1> DEFINE t == GapOrder[n]
<1>1. t \in Ticker /\ \A m \in 1 .. n - 1 : GapOrder[m] # t
  BY TickerAt
<1>2. CASE a = acc
  <2>1. \A m \in 1 .. n - 1 : m \in 1 .. n
    OBVIOUS
  <2> QED BY <1>2, <2>1 DEF Prefix
<1>3. CASE a # acc
  <2>1. PICK d \in DraftType, cost \in Int, price \in Nat :
         /\ a = [drafts |-> Append(acc.drafts, d), cash |-> acc.cash - cost]
         /\ d.ticker = t /\ NearItsSide(d.side, d.limit) /\ d.limit = Rounded(price)
         /\ cost = IF d.side = "buy" THEN d.qty * price ELSE 0
         /\ d.side = "buy" => cost <= acc.cash - CashFloor
    BY <1>3 DEF RegularStep
  <2>2. PICK ds \in Seq(DraftType), left \in Int : ds = acc.drafts /\ left = acc.cash
    BY DEF Prefix, Acc
  <2>3. PICK as : as = Append(ds, d)
    OBVIOUS
  <2>4. a.drafts = as /\ a.cash = left - cost /\ a \in Acc
    BY <2>1, <2>2, <2>3 DEF Acc
  <2>f. /\ \A i \in DOMAIN ds : /\ \E m \in 1 .. n - 1 : ds[i].ticker = GapOrder[m]
                               /\ NearItsSide(ds[i].side, ds[i].limit)
        /\ \A i, j \in DOMAIN ds : ds[i].ticker = ds[j].ticker => i = j
    BY <2>2 DEF Prefix
  <2>5. as \in Seq(DraftType) /\ DOMAIN as = (DOMAIN ds) \cup {Len(ds) + 1}
        /\ as[Len(ds) + 1] = d /\ \A i \in DOMAIN ds : as[i] = ds[i]
    BY <2>3
  <2>6. ASSUME NEW i \in DOMAIN as
        PROVE  (\E m \in 1 .. n : as[i].ticker = GapOrder[m]) /\ NearItsSide(as[i].side, as[i].limit)
    <3>1. \A m \in 1 .. n - 1 : m \in 1 .. n
      OBVIOUS
    <3>2. n \in 1 .. n
      OBVIOUS
    <3>3. CASE i \in DOMAIN ds
      <4>1. as[i] = ds[i]
        BY <2>5, <3>3
      <4> QED BY <2>f, <3>1, <3>3, <4>1
    <3>4. CASE as[i] = d
      BY <2>1, <3>2, <3>4
    <3> QED BY <2>5, <3>3, <3>4
  <2>7. \A i \in DOMAIN ds : as[i].ticker # t
    <3> HIDE DEF t
    <3> QED BY <1>1, <2>f, <2>5
  <2>8. \A i, j \in DOMAIN as : as[i].ticker = as[j].ticker => i = j
    <3>1. \A i, j \in DOMAIN ds : as[i].ticker = as[j].ticker => i = j
      BY <2>f, <2>5
    <3> QED BY <2>1, <2>5, <2>7, <3>1
  <2>9. /\ Spent(ds, HalfCent) <= cash - left /\ Spent(ds, HalfCent) <= Spent(ds, 0)
        /\ Buys(ds) # {} => left >= CashFloor
    BY <2>2 DEF Prefix
  <2>10. /\ Spent(as, HalfCent) <= cash - (left - cost) /\ Spent(as, HalfCent) <= Spent(as, 0)
         /\ Buys(as) # {} => left - cost >= CashFloor
    <3>1. CASE d.side = "buy"
      <4>1. /\ Spent(ds, HalfCent) \in Int /\ Spent(as, HalfCent) \in Int
            /\ Spent(as, HalfCent) <= Spent(ds, HalfCent) + cost
            /\ Spent(as, HalfCent) <= Spent(as, 0)
        BY <2>1, <2>3, <2>9, <3>1, SpentRounded
      <4>2. PICK x \in Int, y \in Int : x = Spent(ds, HalfCent) /\ y = Spent(as, HalfCent)
        BY <4>1
      <4>3. y <= cash - (left - cost)
        <5>1. x <= cash - left
          BY <2>9, <4>2
        <5>2. y <= x + cost
          BY <4>1, <4>2
        <5> QED BY <5>1, <5>2
      <4>4. left - cost >= CashFloor
        BY <2>1, <2>2, <3>1, ReviewAssumption
      <4> QED BY <4>1, <4>2, <4>3, <4>4
    <3>2. CASE d.side # "buy"
      <4>0. HalfCent \in Int
        BY ReviewAssumption
      <4>1. /\ Spent(ds, HalfCent) \in Int /\ Spent(ds, 0) \in Int
            /\ Spent(as, HalfCent) = Spent(ds, HalfCent) + 0 /\ Spent(as, 0) = Spent(ds, 0) + 0
        <5>1. 0 \in Int
          OBVIOUS
        <5>2. Spent(ds, HalfCent) \in Int /\ Spent(as, HalfCent) = Spent(ds, HalfCent) + 0
          BY <2>3, <3>2, <4>0, SpentAppend
        <5>3. Spent(ds, 0) \in Int /\ Spent(as, 0) = Spent(ds, 0) + 0
          BY <2>3, <3>2, <5>1, SpentAppend
        <5> QED BY <5>2, <5>3
      <4>2. Buys(as) = Buys(ds) /\ cost = 0
        BY <2>1, <2>5, <3>2 DEF Buys
      <4>3. Spent(as, HalfCent) = Spent(ds, HalfCent) /\ Spent(as, 0) = Spent(ds, 0)
            /\ left - cost = left
        <5>1. left - cost = left
          BY <4>2
        <5>2. \A v \in Int : v + 0 = v
          OBVIOUS
        <5> QED BY <4>1, <5>1, <5>2
      <4> QED BY <2>9, <4>2, <4>3
    <3> QED BY <3>1, <3>2
  <2> QED BY <2>4, <2>6, <2>8, <2>10 DEF Prefix
<1> QED BY <1>2, <1>3

\* The drafts of generate_suggestions: one at most for each ticker, on its side
\* of the market, the buys together within the floor.
LEMMA RegularDrafts ==
    ASSUME NEW gap, NEW anchor, Anchored(gap, anchor), NEW cash \in Int
    PROVE  \E acc : /\ Prefix(acc, Len(GapOrder), cash)
                    /\ GenerateSuggestions(gap, anchor, cash) = acc.drafts
<1> DEFINE N == Len(GapOrder)
           b == [drafts |-> <<>>, cash |-> cash]
           Add(acc, n) == AddRegular(acc, GapOrder[n], gap, anchor)
           After(g) == g = [n \in 0 .. N |-> IF n = 0 THEN b ELSE Add(g[n - 1], n)]
           h == [n \in 1 .. N |-> [acc \in Acc |-> Add(acc, n)]]
<1>0. N \in Nat
  BY TickerAt
<1>b. b \in Acc
  <2>1. <<>> \in Seq(DraftType)
    OBVIOUS
  <2> QED BY <2>1 DEF Acc
<1>s. ASSUME NEW n \in 1 .. N, NEW acc PROVE RegularStep(Add(acc, n), acc, GapOrder[n])
  <2>1. GapOrder[n] \in Ticker
    BY TickerAt
  <2> QED BY <2>1, RegularSteps
<1> HIDE DEF Add, b
<1>1. h \in [1 .. N -> [Acc -> Acc]]
  <2>1. SUFFICES ASSUME NEW n \in 1 .. N, NEW acc \in Acc PROVE Add(acc, n) \in Acc
    OBVIOUS
  <2>2. RegularStep(Add(acc, n), acc, GapOrder[n])
    BY <1>s
  <2>3. ASSUME NEW d \in DraftType, NEW cost \in Int
        PROVE  [drafts |-> Append(acc.drafts, d), cash |-> acc.cash - cost] \in Acc
    <3>1. acc.drafts \in Seq(DraftType) /\ acc.cash \in Int
      BY DEF Acc
    <3>2. Append(acc.drafts, d) \in Seq(DraftType) /\ acc.cash - cost \in Int
      BY <3>1
    <3> QED BY <3>2 DEF Acc
  <2> QED BY <2>2, <2>3 DEF RegularStep
<1>2. \E g : After(g)
  <2>1. PICK g \in [0 .. N -> Acc] : g[0] = b /\ \A n \in 1 .. N : g[n] = h[n][g[n - 1]]
    <3> HIDE DEF h, N
    <3>2. \E g : Steps(g, N, Acc, b, h)
      BY <1>0, <1>1, <1>b, Recursion, Zenon
    <3> QED BY <3>2 DEF Steps
  <2>2. ASSUME NEW n \in 1 .. N PROVE g[n] = Add(g[n - 1], n)
    <3>1. n - 1 \in 0 .. N
      BY <1>0
    <3> QED BY <2>1, <3>1
  <2>3. g = [n \in 0 .. N |-> IF n = 0 THEN b ELSE Add(g[n - 1], n)]
    <3>1. \A n \in 0 .. N : n = 0 \/ n \in 1 .. N
      BY <1>0
    <3> QED BY <2>1, <2>2, <3>1
  <2> QED BY <2>3
<1>3. PICK g : After(g) /\ GenerateSuggestions(gap, anchor, cash) = g[N].drafts
  BY <1>2 DEF GenerateSuggestions, Add, b
<1> DEFINE T == {n \in 0 .. N : ~Prefix(g[n], n, cash)}
<1>4. ASSUME T # {} PROVE FALSE
  <2>1. PICK n \in T : \A m \in T : n <= m
    <3>1. T \in SUBSET Nat
      BY <1>0
    <3> HIDE DEF T
    <3> QED BY <1>4, <3>1, LeastNat
  <2>2. Prefix(b, 0, cash)
    <3>1. b.drafts = <<>> /\ b.cash = cash /\ cash - cash = 0 /\ DOMAIN <<>> = {}
      BY DEF b
    <3> QED BY <1>b, <3>1, SpentNothing DEF Prefix
  <2>3. g[0] = b
    BY <1>0, <1>3
  <2>4. n \in 1 .. N /\ n - 1 \in 0 .. N
    BY <1>0, <2>1, <2>2, <2>3
  <2>5. Prefix(g[n - 1], n - 1, cash)
    BY <2>1, <2>4
  <2>6. g[n] = Add(g[n - 1], n)
    BY <1>3, <2>4
  <2>7. RegularStep(g[n], g[n - 1], GapOrder[n])
    BY <1>s, <2>4, <2>6
  <2>8. Prefix(g[n], n, cash)
    BY <2>4, <2>5, <2>7, AddRegularPrefix
  <2> QED BY <2>1, <2>8
<1>5. N \in 0 .. N
  BY <1>0
<1> QED BY <1>3, <1>4, <1>5

\* Top-ups for some of the first n tickers, none of which has a regular buy,
\* within what the regular buys leave of the cash.
Topups(acc, n, drafts, cash) ==
    /\ acc \in Acc
    /\ \A i \in DOMAIN acc.drafts :
         /\ \E m \in 1 .. n : acc.drafts[i].ticker = GapOrder[m]
         /\ NearItsSide(acc.drafts[i].side, acc.drafts[i].limit)
         /\ KeyOf(acc.drafts[i]) \notin {KeyOf(drafts[j]) : j \in DOMAIN drafts}
    /\ \A i, j \in DOMAIN acc.drafts : acc.drafts[i].ticker = acc.drafts[j].ticker => i = j
    /\ Spent(drafts \o acc.drafts, HalfCent) = Spent(drafts, HalfCent) + Spent(acc.drafts, HalfCent)
    /\ Spent(acc.drafts, HalfCent) <= (cash - Spent(drafts, 0)) - acc.cash
    /\ acc.drafts # <<>> => acc.cash >= CashFloor

\* What a step of the loop over the tickers does with a top-up.
TopupStep(a, acc, drafts, t) ==
    \/ a = acc
    \/ \E d \in DraftType, cost \in Int, price \in Nat :
         /\ a = [drafts |-> Append(acc.drafts, d), cash |-> acc.cash - cost]
         /\ d.ticker = t /\ d.side = "buy" /\ NearItsSide(d.side, d.limit)
         /\ d.limit = Rounded(price) /\ cost = d.qty * price
         /\ KeyOf(d) \notin {KeyOf(drafts[j]) : j \in DOMAIN drafts}
         /\ cost <= acc.cash - CashFloor

\* A step of the loop: a top-up has its type and is paid for.
LEMMA TopupSteps ==
    ASSUME NEW gap, NEW anchor, Anchored(gap, anchor), NEW fraction \in 0 .. 4, NEW drafts,
           NEW t \in Ticker, NEW acc \in Acc
    PROVE  TopupStep(AddTopup(acc, t, gap, anchor, drafts, fraction), acc, drafts, t)
<1> DEFINE a     == AddTopup(acc, t, gap, anchor, drafts, fraction)
           price == LevelPrice[anchor[t]]
           left  == acc.cash - CashFloor
           base  == Max({1, Shares(gap[t].usd, price)})
           qty   == Min({Max({1, (base * fraction) \div 4}), Shares(gap[t].room, price),
                         Shares(left, price)})
           d     == [ticker |-> t, side |-> "buy", kind |-> "topup", qty |-> qty,
                     limit |-> Rounded(price)]
<1>0. SUFFICES ASSUME a # acc PROVE TopupStep(a, acc, drafts, t)
  BY DEF TopupStep
<1>1. Eligible(t, gap, anchor, drafts) /\ qty >= 1
      /\ a = [drafts |-> Append(acc.drafts, d), cash |-> acc.cash - qty * price]
  BY <1>0 DEF AddTopup
<1>2. anchor[t] \in Level /\ gap[t].usd \in Int /\ gap[t].room \in Int /\ gap[t].usd > 0
  BY <1>1, ReviewAssumption DEF Anchored, Eligible
<1>3. price \in Nat \ {0}
  BY <1>2, ReviewAssumption
<1>5. left \in Int
  BY ReviewAssumption DEF Acc
<1>13. OnItsSide("buy", price)
  BY <1>2, ReviewAssumption DEF Anchored, SideOf, price
<1> HIDE DEF left, price
<1>6. Shares(gap[t].usd, price) \in Int /\ Shares(gap[t].room, price) \in Int
      /\ Shares(left, price) \in Int
  BY <1>2, <1>3, <1>5, SharesCost
<1>7. base \in Int
  BY <1>6, MaxOne
<1> HIDE DEF base
<1>8. PICK m \in Int : m = Max({1, (base * fraction) \div 4})
  <2>1. PICK x \in Int : x = (base * fraction) \div 4
    BY <1>7
  <2> QED BY <2>1, MaxOne
<1>9. qty = Min({m, Shares(gap[t].room, price), Shares(left, price)})
  BY <1>8
<1>10. qty \in Int /\ qty <= Shares(left, price)
  BY <1>6, <1>9, MinTriple
<1> HIDE DEF qty
<1>11. qty * price <= left /\ qty * price \in Int
  BY <1>3, <1>5, <1>10, SharesCost
<1>12. Rounded(price) \in Nat /\ NearItsSide("buy", Rounded(price))
  BY <1>3, <1>13, RoundingBounds, LimitsOnSide
<1>14. d \in DraftType
  BY <1>1, <1>10, <1>12 DEF DraftType
<1>15. KeyOf(d) \notin {KeyOf(drafts[j]) : j \in DOMAIN drafts}
  BY <1>1 DEF Eligible, KeyOf
<1>16. d.ticker = t /\ d.side = "buy" /\ d.limit = Rounded(price) /\ d.qty = qty
  OBVIOUS
<1> HIDE DEF d, a
<1> QED BY <1>1, <1>3, <1>11, <1>12, <1>14, <1>15, <1>16 DEF TopupStep, left

\* One more ticker.
LEMMA AddTopupPrefix ==
    ASSUME NEW cash \in Int, NEW drafts \in Seq(DraftType), NEW n \in 1 .. Len(GapOrder),
           NEW acc, Topups(acc, n - 1, drafts, cash), NEW a, TopupStep(a, acc, drafts, GapOrder[n])
    PROVE  Topups(a, n, drafts, cash)
<1> DEFINE t == GapOrder[n]
<1>1. t \in Ticker /\ \A m \in 1 .. n - 1 : GapOrder[m] # t
  BY TickerAt
<1>2. \A m \in 1 .. n - 1 : m \in 1 .. n
  OBVIOUS
<1>3. CASE a = acc
  BY <1>2, <1>3 DEF Topups
<1>4. CASE a # acc
  <2>1. PICK d \in DraftType, cost \in Int, price \in Nat :
         /\ a = [drafts |-> Append(acc.drafts, d), cash |-> acc.cash - cost]
         /\ d.ticker = t /\ d.side = "buy" /\ NearItsSide(d.side, d.limit)
         /\ d.limit = Rounded(price) /\ cost = d.qty * price
         /\ KeyOf(d) \notin {KeyOf(drafts[j]) : j \in DOMAIN drafts}
         /\ cost <= acc.cash - CashFloor
    BY <1>4 DEF TopupStep
  <2>d. PICK ds \in Seq(DraftType), left \in Int : ds = acc.drafts /\ left = acc.cash
    BY DEF Topups, Acc
  <2>a. PICK as : as = Append(ds, d)
    OBVIOUS
  <2>e. a.drafts = as /\ a.cash = left - cost /\ a \in Acc
    BY <2>1, <2>d, <2>a DEF Acc
  <2>f. /\ \A i \in DOMAIN ds : /\ \E m \in 1 .. n - 1 : ds[i].ticker = GapOrder[m]
                               /\ NearItsSide(ds[i].side, ds[i].limit)
                               /\ KeyOf(ds[i]) \notin {KeyOf(drafts[j]) : j \in DOMAIN drafts}
        /\ \A i, j \in DOMAIN ds : ds[i].ticker = ds[j].ticker => i = j
    BY <2>d DEF Topups
  <2>2. as \in Seq(DraftType) /\ DOMAIN as = (DOMAIN ds) \cup {Len(ds) + 1}
        /\ as[Len(ds) + 1] = d /\ \A i \in DOMAIN ds : as[i] = ds[i]
    BY <2>a
  <2>3. ASSUME NEW i \in DOMAIN as
        PROVE  /\ \E m \in 1 .. n : as[i].ticker = GapOrder[m]
               /\ NearItsSide(as[i].side, as[i].limit)
               /\ KeyOf(as[i]) \notin {KeyOf(drafts[j]) : j \in DOMAIN drafts}
    <3>1. n \in 1 .. n
      OBVIOUS
    <3>2. CASE i \in DOMAIN ds
      <4>1. /\ \E m \in 1 .. n - 1 : ds[i].ticker = GapOrder[m]
            /\ NearItsSide(ds[i].side, ds[i].limit)
            /\ KeyOf(ds[i]) \notin {KeyOf(drafts[j]) : j \in DOMAIN drafts}
        BY <2>f, <3>2
      <4>2. as[i] = ds[i]
        BY <2>2, <3>2
      <4> QED BY <1>2, <4>1, <4>2
    <3>3. CASE as[i] = d
      BY <2>1, <3>1, <3>3
    <3> QED BY <2>2, <3>2, <3>3
  <2>4. \A i \in DOMAIN ds : as[i].ticker # t
    <3> HIDE DEF t
    <3>1. ASSUME NEW i \in DOMAIN ds PROVE as[i].ticker # t
      <4>1. PICK m \in 1 .. n - 1 : ds[i].ticker = GapOrder[m]
        BY <2>f
      <4>2. as[i] = ds[i]
        BY <2>2
      <4> QED BY <1>1, <4>1, <4>2
    <3> QED BY <3>1
  <2>5. \A i, j \in DOMAIN as : as[i].ticker = as[j].ticker => i = j
    <3>1. \A i, j \in DOMAIN ds : as[i].ticker = as[j].ticker => i = j
      BY <2>f, <2>2
    <3> QED BY <2>1, <2>2, <2>4, <3>1
  <2>6. PICK c \in Int, x \in Int, p \in Int, z \in Int, y \in Int :
          /\ c = d.qty * (d.limit - HalfCent) /\ x = Spent(ds, HalfCent)
          /\ p = Spent(drafts, HalfCent) /\ z = Spent(drafts, 0) /\ y = Spent(as, HalfCent)
          /\ y = x + c /\ y <= x + cost
    <3>1. HalfCent \in Int
      BY ReviewAssumption
    <3>2. d.qty * (d.limit - HalfCent) \in Int
      <4>1. d.qty \in Int /\ d.limit - HalfCent \in Int
        BY <3>1 DEF DraftType
      <4> QED BY <4>1
    <3>3. Spent(drafts, HalfCent) \in Int /\ Spent(drafts, 0) \in Int
      <4>1. Spent(drafts, HalfCent) \in Int
        BY <3>1, SpentInt
      <4>2. 0 \in Int
        OBVIOUS
      <4>3. Spent(drafts, 0) \in Int
        BY <4>2, SpentInt
      <4> QED BY <4>1, <4>3
    <3>4. /\ Spent(ds, HalfCent) \in Int
          /\ Spent(as, HalfCent) = Spent(ds, HalfCent) + d.qty * (d.limit - HalfCent)
      BY <2>1, <2>a, <3>1, SpentAppend
    <3>5. Spent(as, HalfCent) \in Int /\ Spent(as, HalfCent) <= Spent(ds, HalfCent) + cost
      BY <2>1, <2>a, SpentRounded
    <3> QED BY <3>2, <3>3, <3>4, <3>5
  <2>7. Spent(drafts \o as, HalfCent) = Spent(drafts \o ds, HalfCent) + c
    <3>1. drafts \o as = Append(drafts \o ds, d) /\ drafts \o ds \in Seq(DraftType)
      BY <2>a
    <3>2. HalfCent \in Int
      BY ReviewAssumption
    <3>3. Spent(Append(drafts \o ds, d), HalfCent) = Spent(drafts \o ds, HalfCent) +
            IF d.side = "buy" THEN d.qty * (d.limit - HalfCent) ELSE 0
      BY <3>1, <3>2, SpentAppend
    <3> QED BY <2>1, <2>6, <3>1, <3>3, Zenon
  <2>8. Spent(drafts \o ds, HalfCent) = p + x /\ x <= (cash - z) - left
    BY <2>d, <2>6 DEF Topups
  <2>9. /\ Spent(drafts \o as, HalfCent) = p + y
        /\ y <= (cash - z) - (left - cost) /\ left - cost >= CashFloor
    <3>1. CashFloor \in Int
      BY ReviewAssumption
    <3>2. cost <= left - CashFloor
      BY <2>1, <2>d
    <3>3. y = x + c /\ y <= x + cost /\ x <= (cash - z) - left
      BY <2>6, <2>8
    <3>4. Spent(drafts \o as, HalfCent) = (p + x) + c
      BY <2>7, <2>8
    <3>5. (p + x) + c = p + y
      BY <3>3
    <3>6. y <= (cash - z) - (left - cost)
      BY <3>3
    <3>7. left - cost >= CashFloor
      BY <3>1, <3>2
    <3> QED BY <3>4, <3>5, <3>6, <3>7
  <2> QED BY <2>e, <2>2, <2>3, <2>5, <2>6, <2>9 DEF Topups
<1> QED BY <1>3, <1>4

\* The top-ups of generate_topups: one at most for each ticker, none for a ticker
\* with a regular buy, all paid for by the cash the regular buys leave.
LEMMA TopupDrafts ==
    ASSUME NEW gap, NEW anchor, Anchored(gap, anchor), NEW cash \in Int,
           NEW fraction \in 0 .. 4, NEW drafts \in Seq(DraftType)
    PROVE  \E acc : /\ Topups(acc, Len(GapOrder), drafts, cash)
                    /\ GenerateTopups(gap, anchor, cash, drafts, fraction) = acc.drafts
<1> DEFINE N == Len(GapOrder)
           b == [drafts |-> <<>>, cash |-> TopupBudget(cash, drafts)]
           Add(acc, n) == AddTopup(acc, GapOrder[n], gap, anchor, drafts, fraction)
           After(g) == g = [n \in 0 .. N |-> IF n = 0 THEN b ELSE Add(g[n - 1], n)]
           h == [n \in 1 .. N |-> [acc \in Acc |-> Add(acc, n)]]
<1>0. N \in Nat
  BY TickerAt
<1>z. PICK z \in Int : z = Spent(drafts, 0) /\ TopupBudget(cash, drafts) = cash - z
  BY SpentInt DEF TopupBudget
<1>b. b \in Acc
  <2>1. <<>> \in Seq(DraftType) /\ TopupBudget(cash, drafts) \in Int
    BY <1>z
  <2> QED BY <2>1 DEF Acc
<1>s. ASSUME NEW n \in 1 .. N, NEW acc \in Acc
      PROVE  TopupStep(Add(acc, n), acc, drafts, GapOrder[n])
  <2>1. GapOrder[n] \in Ticker
    BY TickerAt
  <2> QED BY <2>1, TopupSteps
<1>i. b.drafts = <<>> /\ b.cash = TopupBudget(cash, drafts)
  OBVIOUS
<1> HIDE DEF Add, b
<1>1. h \in [1 .. N -> [Acc -> Acc]]
  <2>1. SUFFICES ASSUME NEW n \in 1 .. N, NEW acc \in Acc PROVE Add(acc, n) \in Acc
    OBVIOUS
  <2>2. TopupStep(Add(acc, n), acc, drafts, GapOrder[n])
    BY <1>s
  <2>3. ASSUME NEW d \in DraftType, NEW cost \in Int
        PROVE  [drafts |-> Append(acc.drafts, d), cash |-> acc.cash - cost] \in Acc
    <3>1. acc.drafts \in Seq(DraftType) /\ acc.cash \in Int
      BY DEF Acc
    <3>2. Append(acc.drafts, d) \in Seq(DraftType) /\ acc.cash - cost \in Int
      BY <3>1
    <3> QED BY <3>2 DEF Acc
  <2> QED BY <2>2, <2>3 DEF TopupStep
<1>2. \E g \in [0 .. N -> Acc] : After(g)
  <2>1. PICK g \in [0 .. N -> Acc] : g[0] = b /\ \A n \in 1 .. N : g[n] = h[n][g[n - 1]]
    <3> HIDE DEF h, N
    <3>2. \E g : Steps(g, N, Acc, b, h)
      BY <1>0, <1>1, <1>b, Recursion, Zenon
    <3> QED BY <3>2 DEF Steps
  <2>2. ASSUME NEW n \in 1 .. N PROVE g[n] = Add(g[n - 1], n)
    <3>1. n - 1 \in 0 .. N
      BY <1>0
    <3> QED BY <2>1, <3>1
  <2>3. g = [n \in 0 .. N |-> IF n = 0 THEN b ELSE Add(g[n - 1], n)]
    <3>1. \A n \in 0 .. N : n = 0 \/ n \in 1 .. N
      BY <1>0
    <3> QED BY <2>1, <2>2, <3>1
  <2> QED BY <2>1, <2>3
<1>3. PICK g : After(g) /\ GenerateTopups(gap, anchor, cash, drafts, fraction) = g[N].drafts
  BY <1>2 DEF GenerateTopups, Add, b
<1> DEFINE T == {n \in 0 .. N : ~Topups(g[n], n, drafts, cash)}
<1>4. ASSUME T # {} PROVE FALSE
  <2>1. PICK n \in T : \A m \in T : n <= m
    <3>1. T \in SUBSET Nat
      BY <1>0
    <3> HIDE DEF T
    <3> QED BY <1>4, <3>1, LeastNat
  <2>2. Topups(b, 0, drafts, cash)
    <3>1. HalfCent \in Int
      BY ReviewAssumption
    <3>2. PICK p \in Int : p = Spent(drafts, HalfCent)
      BY <3>1, SpentInt
    <3>3. drafts \o <<>> = drafts /\ DOMAIN <<>> = {} /\ p = p + 0 /\ 0 <= (cash - z) - (cash - z)
      BY <1>z, <3>2
    <3> QED BY <1>b, <1>i, <1>z, <3>2, <3>3, SpentNothing DEF Topups
  <2>3. g[0] = b
    BY <1>0, <1>3
  <2>4. n \in 1 .. N /\ n - 1 \in 0 .. N
    BY <1>0, <2>1, <2>2, <2>3
  <2>5. Topups(g[n - 1], n - 1, drafts, cash)
    BY <2>1, <2>4
  <2>6. g[n] = Add(g[n - 1], n)
    <3>1. g = [k \in 0 .. N |-> IF k = 0 THEN b ELSE Add(g[k - 1], k)] /\ n \in 0 .. N /\ n # 0
      BY <1>0, <1>3, <2>4
    <3> HIDE DEF Add, b
    <3> QED BY <3>1
  <2>7. TopupStep(g[n], g[n - 1], drafts, GapOrder[n])
    <3>1. g[n - 1] \in Acc
      BY <2>5 DEF Topups
    <3> QED BY <1>s, <2>4, <2>6, <3>1
  <2>8. Topups(g[n], n, drafts, cash)
    BY <2>4, <2>5, <2>7, AddTopupPrefix
  <2> QED BY <2>1, <2>8
<1>5. N \in 0 .. N
  BY <1>0
<1> QED BY <1>3, <1>4, <1>5

\* The anchors of a draft lie on its side of the market.
LEMMA AnchorOnItsSide ==
    ASSUME NEW side, NEW scored, NEW broken, NEW l \in Anchors(side, scored, broken)
    PROVE  OnItsSide(side, LevelPrice[l])
BY DEF Anchors, SelectAnchor, Nearest, Nearby

\* All drafts of a run: of their type, on their side, one for each ticker and
\* side, the buys within the floor.
LEMMA AllDrafts ==
    ASSUME NEW gap, NEW anchor, Anchored(gap, anchor), NEW cash \in Int, NEW fraction \in 0 .. 4
    PROVE  LET drafts == GenerateSuggestions(gap, anchor, cash)
               all    == drafts \o GenerateTopups(gap, anchor, cash, drafts, fraction)
           IN  /\ all \in Seq(DraftType)
               /\ \A i, j \in DOMAIN all : KeyOf(all[i]) = KeyOf(all[j]) => i = j
               /\ \A i \in DOMAIN all : NearItsSide(all[i].side, all[i].limit)
               /\ Buys(all) # {} => Spent(all, HalfCent) <= cash - CashFloor
<1> DEFINE drafts == GenerateSuggestions(gap, anchor, cash)
           tops   == GenerateTopups(gap, anchor, cash, drafts, fraction)
           all    == drafts \o tops
<1>1. PICK reg : Prefix(reg, Len(GapOrder), cash) /\ drafts = reg.drafts
  BY RegularDrafts
<1>2. drafts \in Seq(DraftType)
  BY <1>1 DEF Prefix, Acc
<1>3. PICK top : Topups(top, Len(GapOrder), drafts, cash) /\ tops = top.drafts
  BY <1>2, TopupDrafts
<1>4. tops \in Seq(DraftType)
  BY <1>3 DEF Topups, Acc
<1> HIDE DEF drafts, tops
<1>5. all \in Seq(DraftType) /\ Len(all) = Len(drafts) + Len(tops)
  BY <1>2, <1>4
<1>6. ASSUME NEW i \in DOMAIN all
      PROVE  \/ i \in DOMAIN drafts /\ all[i] = drafts[i]
             \/ i - Len(drafts) \in DOMAIN tops /\ all[i] = tops[i - Len(drafts)]
                /\ i \notin DOMAIN drafts
  BY <1>2, <1>4, <1>5
<1>7. ASSUME NEW i \in DOMAIN all PROVE NearItsSide(all[i].side, all[i].limit)
  BY <1>1, <1>3, <1>6 DEF Prefix, Topups
<1>8. ASSUME NEW i \in DOMAIN all, NEW j \in DOMAIN all, KeyOf(all[i]) = KeyOf(all[j])
      PROVE  i = j
  <2>1. all[i].ticker = all[j].ticker
    BY <1>8 DEF KeyOf
  <2>2. CASE i \in DOMAIN drafts /\ j \in DOMAIN drafts
    BY <1>1, <1>6, <2>1, <2>2 DEF Prefix
  <2>3. CASE i \notin DOMAIN drafts /\ j \notin DOMAIN drafts
    <3>1. i - Len(drafts) \in DOMAIN tops /\ j - Len(drafts) \in DOMAIN tops
          /\ tops[i - Len(drafts)].ticker = tops[j - Len(drafts)].ticker
      BY <1>6, <2>1, <2>3
    <3>2. i - Len(drafts) = j - Len(drafts)
      BY <1>3, <3>1 DEF Topups
    <3>3. i \in Int /\ j \in Int /\ Len(drafts) \in Int
      BY <1>2, <1>5
    <3> QED BY <3>2, <3>3
  <2>4. ASSUME NEW k \in DOMAIN drafts, NEW m \in DOMAIN tops
        PROVE  KeyOf(drafts[k]) # KeyOf(tops[m])
    BY <1>3 DEF Topups
  <2> QED BY <1>6, <1>8, <2>2, <2>3, <2>4
<1>9. Buys(all) # {} => Spent(all, HalfCent) <= cash - CashFloor
  <2>1. PICK p \in Int, z \in Int, x \in Int, u \in Int, v \in Int :
          /\ p = Spent(drafts, HalfCent) /\ z = Spent(drafts, 0) /\ x = Spent(tops, HalfCent)
          /\ u = reg.cash /\ v = top.cash
    <3>1. HalfCent \in Int /\ reg.cash \in Int /\ top.cash \in Int
      BY <1>1, <1>3, ReviewAssumption DEF Prefix, Topups, Acc
    <3>2. Spent(drafts, HalfCent) \in Int /\ Spent(tops, HalfCent) \in Int
      BY <1>2, <1>4, <3>1, SpentInt
    <3>3. 0 \in Int
      OBVIOUS
    <3>4. Spent(drafts, 0) \in Int
      BY <1>2, <3>3, SpentInt
    <3> QED BY <3>1, <3>2, <3>4
  <2>2. CashFloor \in Int
    BY ReviewAssumption
  <2>3. p <= cash - u /\ p <= z /\ (Buys(drafts) # {} => u >= CashFloor)
    BY <1>1, <2>1 DEF Prefix
  <2>4. /\ Spent(all, HalfCent) = p + x /\ x <= (cash - z) - v
        /\ tops # <<>> => v >= CashFloor
    BY <1>3, <2>1 DEF Topups
  <2>5. CASE tops = <<>>
    <3>1. all = drafts
      BY <1>2, <2>5
    <3> QED BY <2>1, <2>2, <2>3, <2>5, <3>1
  <2>6. CASE tops # <<>>
    BY <2>1, <2>2, <2>3, <2>4, <2>6
  <2> QED BY <2>5, <2>6
<1> QED BY <1>5, <1>7, <1>8, <1>9 DEF drafts, tops

-----------------------------------------------------------------------------
(* The nodes of the graph *)

ContextType == [scored : [Ticker -> SUBSET Level], known : SUBSET Ticker,
                earnings : SUBSET Ticker, narrative : BOOLEAN]

Texts == UNION {[S -> Key \cup {Stray}] : S \in SUBSET Nat}

Nodes == {"idle", "gather", "adjust", "reason", "critic", "finalize", "write", "mail"}

RunType ==
    [pc : Nodes, id : Nat, cash : Cash \cup {0}, drafts : Seq(DraftType),
     texts : Texts, ctx : ContextType,
     first : Nat, seen : Status]

RowType == [status : Status, by : 0 .. MaxRuns, text : Key \cup {None}]

\* The inductive invariant.
Inv ==
    /\ rows \in [Key -> RowType]
    /\ runs \in 0 .. MaxRuns
    /\ run \in [Runner -> RunType]
    /\ \A r \in Runner : run[r].id \in 0 .. runs
    /\ ReviewInv

\* A draft's ticker and side are the key of a row.
LEMMA KeyType == \A d \in DraftType : KeyOf(d) \in Key
BY DEF DraftType, KeyOf, Key

\* The context of a run that has none.
LEMMA NoContextType == NoContext \in ContextType /\ NoContext.known = Ticker
BY DEF NoContext, ContextType

\* A runner that is idle.
LEMMA IdleType == Idle \in RunType /\ Sound(Idle)
<1>1. <<>> \in Seq(DraftType) /\ DOMAIN <<>> = {}
  OBVIOUS
<1>2. <<>> \in Texts
  <2>1. <<>> \in [{} -> Key \cup {Stray}] /\ {} \in SUBSET Nat
    OBVIOUS
  <2> QED BY <2>1 DEF Texts
<1>3. Idle \in RunType
  BY <1>1, <1>2, NoContextType DEF Idle, RunType, Nodes, Status
<1>4. Buys(<<>>) = {}
  BY SpentNothing
<1> QED BY <1>1, <1>3, <1>4 DEF Idle, Sound

\* A step of one runner leaves the others as they are.
LEMMA OneRun ==
    ASSUME Inv, NEW r \in Runner, NEW x \in RunType, Sound(x), x.id \in 0 .. runs,
           run' = [run EXCEPT ![r] = x], UNCHANGED <<rows, runs>>
    PROVE  Inv'
<1>1. run' \in [Runner -> RunType]
  BY DEF Inv
<1>2. ASSUME NEW q \in Runner PROVE Sound(run[q])' /\ (run[q].id \in 0 .. runs)'
  <2>1. CASE q = r
    <3>1. run'[q] = x
      BY <2>1 DEF Inv
    <3> QED BY <3>1 DEF Sound
  <2>2. CASE q # r
    <3>1. run'[q] = run[q]
      BY <2>2 DEF Inv
    <3> QED BY <3>1 DEF Inv, ReviewInv, Sound
  <2> QED BY <2>1, <2>2
<1>3. TextOfItsRow'
  BY DEF Inv, ReviewInv, TextOfItsRow
<1> QED BY <1>1, <1>2, <1>3 DEF Inv, ReviewInv

\* The gathered context.
LEMMA GatherInv == ASSUME Inv, NEW r \in Runner, GatherContext(r) PROVE Inv'
<1>1. PICK c \in ContextType :
        run' = [run EXCEPT ![r].pc = "adjust", ![r].cash = 0, ![r].ctx = c]
  <2>1. PICK scored \in LatestScored, known \in KnownSet,
             earnings \in SUBSET Ticker, narrative \in BOOLEAN :
          run' = [run EXCEPT ![r].pc = "adjust", ![r].cash = 0,
                   ![r].ctx = [scored |-> scored, known |-> known, earnings |-> earnings,
                               narrative |-> narrative]]
    BY DEF GatherContext
  <2>2. scored \in [Ticker -> SUBSET Level] /\ known \in SUBSET Ticker
    BY ReviewAssumption DEF LatestScored
  <2> QED BY <2>1, <2>2 DEF ContextType
<1>2. run[r] \in RunType /\ Sound(run[r]) /\ run[r].pc = "gather" /\ run[r].id \in 0 .. runs
      /\ UNCHANGED <<rows, runs>>
  BY DEF Inv, ReviewInv, GatherContext
<1> DEFINE x == [run[r] EXCEPT !.pc = "adjust", !.cash = 0, !.ctx = c]
<1>3. run' = [run EXCEPT ![r] = x]
  BY <1>1 DEF Inv
<1>4. x \in RunType /\ x.id = run[r].id
  BY <1>2 DEF RunType, Nodes
<1>5. Sound(x)
  <2>1. /\ x.first = run[r].first /\ x.drafts = run[r].drafts /\ x.texts = run[r].texts
        /\ x.pc = "adjust" /\ x.ctx = c
    BY <1>2 DEF RunType
  <2>2. \A i \in DOMAIN run[r].drafts : run[r].drafts[i].ticker \in Ticker
    <3>1. run[r].drafts \in Seq(DraftType)
      BY <1>2 DEF RunType
    <3>2. \A i \in DOMAIN run[r].drafts : run[r].drafts[i] \in DraftType
      BY <3>1
    <3> QED BY <3>2 DEF DraftType
  <2>3. run[r].ctx.known = Ticker /\ run[r].first = 0
    BY <1>2 DEF Sound, NoContext
  <2> HIDE DEF x
  <2> QED BY <1>2, <2>1, <2>2, <2>3 DEF Sound
<1> HIDE DEF x
<1> QED BY <1>2, <1>3, <1>4, <1>5, OneRun

\* Factors between the bounds.
LEMMA ClampType == \A m \in Nat : Clamp(m) \in Int
<1>1. ASSUME NEW m \in Nat PROVE Clamp(m) \in Int
  <2>1. SizeMax \in Int /\ SizeMin \in Int /\ m \in Int
    BY ReviewAssumption
  <2>2. Min({SizeMax, m}) \in Int
    BY <2>1, MinPair
  <2>3. \A a, b \in Int : Max({a, b}) \in {a, b}
    BY MaxPair
  <2> QED BY <2>1, <2>2, <2>3 DEF Clamp
<1> QED BY <1>1

\* A limit that is lowered, or raised by a sell, stays on its side.
LEMMA DeeperOnSide ==
    ASSUME NEW d \in DraftType, NearItsSide(d.side, d.limit), NEW scored \in SUBSET Level,
           NEW l \in DeeperAnchor(d, scored)
    PROVE  NearItsSide(d.side, Reanchored(d.side, LevelPrice[l]))
<1>1. d.side \in {"buy", "sell"} /\ d.limit \in Nat
  BY DEF DraftType
<1>2. PICK p \in Nat : p = LevelPrice[l]
  BY ReviewAssumption DEF DeeperAnchor, Nearest
<1>3. IF d.side = "buy" THEN p < d.limit ELSE p > d.limit
  BY <1>2 DEF DeeperAnchor, Nearest
<1>4. FloorCent(p) \in Nat /\ FloorCent(p) <= p /\ CeilCent(p) \in Nat /\ p <= CeilCent(p)
  BY RoundingBounds
<1>5. PICK y \in Nat, z \in Nat : y = FloorCent(p) /\ z = CeilCent(p)
  BY <1>4
<1>6. HalfCent \in Nat /\ Close \in Nat
  BY ReviewAssumption
<1>7. CASE d.side = "buy"
  BY <1>1, <1>2, <1>3, <1>4, <1>5, <1>6, <1>7 DEF NearItsSide, Reanchored
<1>8. CASE d.side = "sell"
  BY <1>1, <1>2, <1>3, <1>4, <1>5, <1>6, <1>8 DEF NearItsSide, Reanchored
<1> QED BY <1>1, <1>7, <1>8

\* A draft whose limit is on its side wherever the graph knows the close.
Placed(d, ctx) == d.ticker \in ctx.known => NearItsSide(d.side, d.limit)

\* An adjusted draft keeps its ticker and side and, where the close is known, stays
\* on its side of the market, whatever the earnings and the advice.
LEMMA AdjustedDraft ==
    ASSUME NEW d \in DraftType, NEW ctx \in ContextType, Placed(d, ctx), NEW advice \in Advice(ctx)
    PROVE  LET a == Adjusted(d, ctx, advice)
           IN  /\ KeyOf(a) = KeyOf(d)
               /\ Tradable(a) => a \in DraftType
               /\ Placed(a, ctx)
<1> DEFINE reports == d.ticker \in ctx.earnings
           deeper  == IF reports THEN DeeperAnchor(d, ctx.scored[d.ticker]) ELSE {}
           wanted  == FindLevel(d.side, advice.prefer, ctx.scored[d.ticker], d.ticker \in ctx.known)
           anchor  == IF deeper # {} THEN deeper ELSE wanted
           nf      == IF advice = NoAdvice THEN 4 ELSE Clamp(advice.mult)
           qty     == (d.qty * nf * (IF reports THEN 1 ELSE 2)) \div 8
           at(l)   == Reanchored(d.side, LevelPrice[l])
           a       == Adjusted(d, ctx, advice)
<1>0. d.qty \in Nat \ {0} /\ d.limit \in Nat /\ d.side \in {"buy", "sell"}
      /\ ctx.scored[d.ticker] \in SUBSET Level
  BY DEF DraftType, ContextType
<1>1. nf \in Int
  <2>1. advice # NoAdvice => advice.mult \in Nat
    BY ReviewAssumption DEF Advice
  <2> QED BY <2>1, ClampType
<1> HIDE DEF nf
<1>2. qty \in Int
  <2>1. PICK p \in Int : p = d.qty * nf
    BY <1>0, <1>1
  <2>2. qty = (p * (IF reports THEN 1 ELSE 2)) \div 8
    BY <2>1
  <2> QED BY <2>2
<1>3. \A l \in anchor : at(l) \in Nat /\ (d.ticker \in ctx.known => NearItsSide(d.side, at(l)))
  <2>0. \A l \in Level : at(l) \in Nat
    <3>1. SUFFICES ASSUME NEW l \in Level PROVE at(l) \in Nat
      OBVIOUS
    <3>2. LevelPrice[l] \in Nat
      BY ReviewAssumption
    <3> QED BY <3>2, RoundingBounds DEF Reanchored
  <2>1. \A l \in wanted :
          l \in Level /\ (d.ticker \in ctx.known => OnItsSide(d.side, LevelPrice[l]))
    BY <1>0 DEF FindLevel
  <2>2. \A l \in wanted : d.ticker \in ctx.known => NearItsSide(d.side, at(l))
    <3>1. SUFFICES ASSUME NEW l \in wanted, d.ticker \in ctx.known PROVE NearItsSide(d.side, at(l))
      OBVIOUS
    <3>2. LevelPrice[l] \in Nat /\ OnItsSide(d.side, LevelPrice[l])
      BY <2>1, <3>1, ReviewAssumption
    <3> HIDE DEF wanted
    <3> QED BY <1>0, <3>2, LimitsOnSide
  <2>3. \A l \in deeper : l \in Level
    BY <1>0 DEF DeeperAnchor, Nearest
  <2>4. \A l \in deeper : d.ticker \in ctx.known => NearItsSide(d.side, at(l))
    <3>1. SUFFICES ASSUME NEW l \in deeper, d.ticker \in ctx.known PROVE NearItsSide(d.side, at(l))
      OBVIOUS
    <3>2. l \in DeeperAnchor(d, ctx.scored[d.ticker])
      OBVIOUS
    <3>3. NearItsSide(d.side, d.limit)
      BY <3>1 DEF Placed
    <3> HIDE DEF deeper
    <3> QED BY <1>0, <3>2, <3>3, DeeperOnSide
  <2> HIDE DEF wanted, deeper, at
  <2> QED BY <2>0, <2>1, <2>2, <2>3, <2>4
<1>4. a = IF d.kind = "topup" THEN d
          ELSE IF anchor = {} THEN [d EXCEPT !.qty = qty]
          ELSE [d EXCEPT !.qty = qty, !.limit = at(CHOOSE l \in anchor : TRUE)]
  BY DEF Adjusted, nf
<1> HIDE DEF anchor, qty, a, at
<1>5. ASSUME a = d
      PROVE  KeyOf(a) = KeyOf(d) /\ (Tradable(a) => a \in DraftType) /\ Placed(a, ctx)
  BY <1>5
<1>6. ASSUME a = [d EXCEPT !.qty = qty]
      PROVE  KeyOf(a) = KeyOf(d) /\ (Tradable(a) => a \in DraftType) /\ Placed(a, ctx)
  BY <1>2, <1>6 DEF DraftType, KeyOf, Tradable, Placed
<1>7. ASSUME anchor # {} PROVE (CHOOSE k \in anchor : TRUE) \in anchor
  BY <1>7
<1>8. ASSUME NEW l \in anchor, a = [d EXCEPT !.qty = qty, !.limit = at(l)]
      PROVE  KeyOf(a) = KeyOf(d) /\ (Tradable(a) => a \in DraftType) /\ Placed(a, ctx)
  <2>1. at(l) \in Nat /\ (d.ticker \in ctx.known => NearItsSide(d.side, at(l)))
    BY <1>3
  <2>2. a.side = d.side /\ a.limit = at(l) /\ a.ticker = d.ticker /\ a.qty = qty
        /\ a.kind = d.kind /\ a \in [ticker : {d.ticker}, side : {d.side}, kind : {d.kind},
                                   qty : {qty}, limit : {at(l)}]
    BY <1>8 DEF DraftType
  <2> QED BY <1>2, <2>1, <2>2 DEF DraftType, KeyOf, Tradable, Placed
<1> QED BY <1>4, <1>5, <1>6, <1>7, <1>8 DEF a

\* The positions that are kept, in their order.
LEMMA PositionsKept ==
    ASSUME NEW n \in Nat, NEW S \in SUBSET (1 .. n), NEW kept \in Positions(S)
    PROVE  /\ Cardinality(S) \in Nat /\ kept \in [1 .. Cardinality(S) -> S]
           /\ \A i, j \in DOMAIN kept : kept[i] = kept[j] => i = j
<1>1. IsFiniteSet(S)
  <2>1. IsFiniteSet(1 .. n)
    BY FS_Interval
  <2> QED BY <2>1, FS_Subset
<1>2. Cardinality(S) \in Nat /\ kept \in [1 .. Cardinality(S) -> S]
      /\ \A i, j \in DOMAIN kept : i < j => kept[i] < kept[j]
  BY <1>1, FS_CardinalityType DEF Positions
<1>3. \A i \in DOMAIN kept : kept[i] \in 1 .. n
  BY <1>2
<1>4. ASSUME NEW i \in DOMAIN kept, NEW j \in DOMAIN kept, kept[i] = kept[j] PROVE i = j
  <2>1. i \in Int /\ j \in Int /\ kept[i] \in Int /\ kept[j] \in Int
    BY <1>2, <1>3
  <2>2. CASE i < j
    BY <1>2, <1>4, <2>1, <2>2
  <2>3. CASE j < i
    BY <1>2, <1>4, <2>1, <2>3
  <2> QED BY <2>1, <2>2, <2>3
<1> QED BY <1>2, <1>4

\* Rationales lie beside the drafts they were filed for.
Paired(ts, ds) == \A i \in DOMAIN ts \cap DOMAIN ds : ts[i] = KeyOf(ds[i])

\* No two drafts of one ticker and side.
OnePerKey(ds) == \A i, j \in DOMAIN ds : KeyOf(ds[i]) = KeyOf(ds[j]) => i = j

\* When drafts are dropped, the rest keeps its rationales: they are re-keyed.
LEMMA DraftsKept ==
    ASSUME NEW ds \in Seq(DraftType), OnePerKey(ds), NEW ts, Paired(ts, ds),
           NEW S \in SUBSET DOMAIN ds, NEW kept \in Positions(S),
           NEW fs \in [DOMAIN kept -> DraftType],
           \A j \in DOMAIN kept : KeyOf(fs[j]) = KeyOf(ds[kept[j]])
    PROVE  /\ fs \in Seq(DraftType) /\ OnePerKey(fs) /\ Paired(Rekeyed(ts, kept), fs)
           /\ \A j \in DOMAIN kept : kept[j] \in S
<1>1. Len(ds) \in Nat /\ DOMAIN ds = 1 .. Len(ds)
  OBVIOUS
<1>2. /\ Cardinality(S) \in Nat /\ kept \in [1 .. Cardinality(S) -> S]
      /\ \A i, j \in DOMAIN kept : kept[i] = kept[j] => i = j
  BY <1>1, PositionsKept
<1>3. fs \in Seq(DraftType)
  BY <1>2
<1>4. DOMAIN fs = DOMAIN kept /\ \A j \in DOMAIN kept : kept[j] \in DOMAIN ds
  BY <1>2
<1>5. OnePerKey(fs)
  BY <1>2, <1>4 DEF OnePerKey
<1>6. Paired(Rekeyed(ts, kept), fs)
  BY <1>4 DEF Paired, Rekeyed
<1> QED BY <1>2, <1>3, <1>5, <1>6

\* The rationales of the drafts that are kept have their type.
LEMMA RekeyedType ==
    ASSUME NEW ts \in Texts, NEW m \in Nat, NEW kept, DOMAIN kept = 1 .. m
    PROVE  Rekeyed(ts, kept) \in Texts
<1> DEFINE D == {j \in DOMAIN kept : kept[j] \in DOMAIN ts}
<1>1. PICK S \in SUBSET Nat : ts \in [S -> Key \cup {Stray}]
  BY DEF Texts
<1>2. D \in SUBSET Nat /\ \A j \in D : ts[kept[j]] \in Key \cup {Stray}
  <2>1. D \in SUBSET (1 .. m)
    OBVIOUS
  <2>2. 1 .. m \in SUBSET Nat
    OBVIOUS
  <2>3. \A j \in D : kept[j] \in S
    BY <1>1
  <2> HIDE DEF D
  <2> QED BY <1>1, <2>1, <2>2, <2>3
<1>3. Rekeyed(ts, kept) \in [D -> Key \cup {Stray}]
  BY <1>2 DEF Rekeyed
<1> HIDE DEF D
<1> QED BY <1>2, <1>3 DEF Texts

\* What holds of a run that is under way.
LEMMA RunFacts ==
    ASSUME Inv, NEW r \in Runner
    PROVE  /\ run[r] \in RunType /\ Sound(run[r]) /\ run[r].id \in 0 .. runs
           /\ run[r].drafts \in Seq(DraftType) /\ run[r].ctx \in ContextType
           /\ Paired(run[r].texts, run[r].drafts) /\ OnePerKey(run[r].drafts)
           /\ run[r].texts \in Texts
<1>1. run[r] \in RunType /\ Sound(run[r]) /\ run[r].id \in 0 .. runs
  BY DEF Inv, ReviewInv
<1> QED BY <1>1 DEF RunType, Sound, Paired, OnePerKey

\* context_adjust_node.
LEMMA AdjustInv == ASSUME Inv, NEW r \in Runner, ContextAdjust(r) PROVE Inv'
<1> DEFINE ds == run[r].drafts
           ts == run[r].texts
           ctx == run[r].ctx
<1>1. PICK advice \in [DOMAIN ds -> Advice(ctx)] :
        LET new == [i \in DOMAIN ds |-> Adjusted(ds[i], ctx, advice[i])]
        IN  \E kept \in Positions({i \in DOMAIN ds : Tradable(new[i])}) :
              run' = [run EXCEPT ![r].pc = "reason",
                        ![r].drafts = [j \in DOMAIN kept |-> new[kept[j]]],
                        ![r].texts = Rekeyed(ts, kept),
                        ![r].ctx = [@ EXCEPT !.earnings = {}, !.narrative = FALSE]]
  BY DEF ContextAdjust
<1> DEFINE new == [i \in DOMAIN ds |-> Adjusted(ds[i], ctx, advice[i])]
           S == {i \in DOMAIN ds : Tradable(new[i])}
<1>2. PICK kept \in Positions(S) :
        run' = [run EXCEPT ![r].pc = "reason",
                  ![r].drafts = [j \in DOMAIN kept |-> new[kept[j]]],
                  ![r].texts = Rekeyed(ts, kept),
                  ![r].ctx = [@ EXCEPT !.earnings = {}, !.narrative = FALSE]]
  BY <1>1
<1>3. run[r].pc = "adjust" /\ UNCHANGED <<rows, runs>>
  BY DEF ContextAdjust
<1>4. /\ run[r] \in RunType /\ Sound(run[r]) /\ run[r].id \in 0 .. runs
      /\ ds \in Seq(DraftType) /\ ctx \in ContextType /\ Paired(ts, ds) /\ OnePerKey(ds)
      /\ ts \in Texts
      /\ \A i \in DOMAIN ds : Placed(ds[i], ctx)
  BY <1>3, RunFacts DEF Sound, Placed
<1>5. \A i \in DOMAIN ds : /\ KeyOf(new[i]) = KeyOf(ds[i])
                           /\ Tradable(new[i]) => new[i] \in DraftType
                           /\ Placed(new[i], ctx)
  <2>1. SUFFICES ASSUME NEW i \in DOMAIN ds
                 PROVE  LET a == Adjusted(ds[i], ctx, advice[i])
                        IN  /\ KeyOf(a) = KeyOf(ds[i])
                            /\ Tradable(a) => a \in DraftType
                            /\ Placed(a, ctx)
    OBVIOUS
  <2> HIDE DEF ds, ctx
  <2>2. ds[i] \in DraftType /\ Placed(ds[i], ctx)
    BY <1>4
  <2>3. advice[i] \in Advice(ctx)
    OBVIOUS
  <2> QED BY <1>4, <2>2, <2>3, AdjustedDraft
<1> DEFINE fs == [j \in DOMAIN kept |-> new[kept[j]]]
           c  == [ctx EXCEPT !.earnings = {}, !.narrative = FALSE]
           x  == [run[r] EXCEPT !.pc = "reason", !.drafts = fs, !.texts = Rekeyed(ts, kept),
                                !.ctx = c]
<1>6. run' = [run EXCEPT ![r] = x]
  BY <1>2 DEF Inv
<1> HIDE DEF ds, ts, ctx, new
<1>7. S \in SUBSET DOMAIN ds
  OBVIOUS
<1>8. (\A j \in DOMAIN kept : kept[j] \in S) /\ \E m \in Nat : DOMAIN kept = 1 .. m
  <2>1. Len(ds) \in Nat /\ DOMAIN ds = 1 .. Len(ds)
    BY <1>4
  <2> HIDE DEF S
  <2>2. kept \in [1 .. Cardinality(S) -> S] /\ Cardinality(S) \in Nat
    BY <1>7, <2>1, PositionsKept
  <2> QED BY <2>2
<1>9. fs \in [DOMAIN kept -> DraftType] /\ (\A j \in DOMAIN kept : KeyOf(fs[j]) = KeyOf(ds[kept[j]]))
      /\ \A j \in DOMAIN fs : Placed(fs[j], ctx)
  BY <1>5, <1>8
<1> HIDE DEF S, fs
<1>10. fs \in Seq(DraftType) /\ OnePerKey(fs) /\ Paired(Rekeyed(ts, kept), fs)
  BY <1>4, <1>7, <1>9, DraftsKept
<1>11. Rekeyed(ts, kept) \in Texts
  BY <1>4, <1>8, RekeyedType
<1>12. c \in ContextType /\ c.known = ctx.known
  BY <1>4 DEF ContextType
<1> HIDE DEF c
<1>13. x \in RunType /\ x.id = run[r].id /\ x.drafts = fs /\ x.texts = Rekeyed(ts, kept)
       /\ x.pc = "reason" /\ x.first \in {0} /\ x.ctx = c
  <2>1. run[r].first = 0
    BY <1>3, <1>4 DEF Sound
  <2> QED BY <1>4, <1>10, <1>11, <1>12, <2>1 DEF RunType, Nodes
<1> HIDE DEF x
<1>14. Sound(x)
  BY <1>9, <1>10, <1>12, <1>13 DEF Sound, Paired, OnePerKey, Placed
<1> QED BY <1>3, <1>4, <1>6, <1>13, <1>14, OneRun

\* reason_node.
LEMMA ReasonInv == ASSUME Inv, NEW r \in Runner, Reason(r) PROVE Inv'
<1> DEFINE ds == run[r].drafts
           ts == run[r].texts
<1>1. PICK written \in SUBSET (1 .. Len(ds) + 1) :
        run' = [run EXCEPT ![r].pc = "critic",
                  ![r].texts = [i \in DOMAIN ts \cup written |->
                                  IF i \notin written THEN ts[i]
                                  ELSE IF i \in DOMAIN ds THEN KeyOf(ds[i]) ELSE Stray]]
  BY DEF Reason
<1>2. run[r].pc = "reason" /\ UNCHANGED <<rows, runs>>
  BY DEF Reason
<1>3. /\ run[r] \in RunType /\ Sound(run[r]) /\ run[r].id \in 0 .. runs
      /\ ds \in Seq(DraftType) /\ Paired(ts, ds) /\ OnePerKey(ds) /\ ts \in Texts
  BY RunFacts
<1> DEFINE D == DOMAIN ts \cup written
           new == [i \in D |-> IF i \notin written THEN ts[i]
                               ELSE IF i \in DOMAIN ds THEN KeyOf(ds[i]) ELSE Stray]
           x == [run[r] EXCEPT !.pc = "critic", !.texts = new]
<1>4. run' = [run EXCEPT ![r] = x]
  BY <1>1 DEF Inv
<1>5. Paired(new, ds)
  BY <1>3 DEF Paired
<1>6. new \in Texts
  <2>1. PICK S \in SUBSET Nat : ts \in [S -> Key \cup {Stray}]
    BY <1>3 DEF Texts
  <2>2. D \in SUBSET Nat
    <3>1. Len(ds) \in Nat
      BY <1>3
    <3>2. 1 .. Len(ds) + 1 \subseteq Nat
      BY <3>1
    <3>3. DOMAIN ts \subseteq Nat
      BY <2>1
    <3> QED BY <3>2, <3>3
  <2>3. \A i \in DOMAIN ds : KeyOf(ds[i]) \in Key
    BY <1>3, KeyType
  <2>4. \A i \in D : new[i] \in Key \cup {Stray}
    BY <2>1, <2>3
  <2>5. new \in [D -> Key \cup {Stray}]
    BY <2>4
  <2> HIDE DEF D, new
  <2> QED BY <2>2, <2>5 DEF Texts
<1> HIDE DEF new
<1>8. x \in RunType /\ x.id = run[r].id /\ x.drafts = ds /\ x.texts = new
      /\ x.pc = "critic" /\ x.first = run[r].first /\ x.ctx = run[r].ctx
  BY <1>3, <1>6 DEF RunType, Nodes
<1>9. run[r].first = 0 /\ \A i \in DOMAIN ds : Placed(ds[i], run[r].ctx)
  BY <1>2, <1>3 DEF Sound, Placed
<1> HIDE DEF x, ds
<1>10. Sound(x)
  BY <1>3, <1>5, <1>8, <1>9 DEF Sound, Paired, OnePerKey, Placed
<1> QED BY <1>2, <1>3, <1>4, <1>8, <1>10, OneRun

\* A change of the critic leaves ticker and side.
LEMMA ChangedDraft ==
    ASSUME NEW d \in DraftType, NEW scored \in SUBSET Level, NEW p \in ApplyChanges(d, scored)
    PROVE  p \in DraftType /\ KeyOf(p) = KeyOf(d)
<1> DEFINE beside == {c \in CriticPrice : \E l \in scored : LevelPrice[l] \in c - Cent .. c + Cent}
           limits == beside \cup {LevelPrice[l] : l \in scored}
           placed == {d} \cup {[d EXCEPT !.limit = c] : c \in limits}
<1>0. limits \subseteq Nat
  <2>1. beside \subseteq Nat
    BY ReviewAssumption
  <2>2. \A l \in scored : LevelPrice[l] \in Nat
    BY ReviewAssumption
  <2> HIDE DEF beside
  <2> QED BY <2>1, <2>2
<1>1. ASSUME NEW q \in placed PROVE q \in DraftType /\ KeyOf(q) = KeyOf(d)
  <2> HIDE DEF limits
  <2> QED BY <1>0 DEF DraftType, KeyOf
<1>2. ASSUME NEW q \in placed, NEW n \in CriticQty, n >= 1, p = [q EXCEPT !.qty = n]
      PROVE  p \in DraftType /\ KeyOf(p) = KeyOf(d)
  <2>0. n \in Nat \ {0}
    BY <1>2, ReviewAssumption
  <2>1. n \in Nat \ {0} /\ q \in DraftType /\ KeyOf(q) = KeyOf(d)
    BY <1>1, <2>0
  <2> HIDE DEF placed
  <2> QED BY <1>2, <2>1 DEF DraftType, KeyOf
<1>3. p \in placed \/ \E q \in placed, n \in CriticQty : n >= 1 /\ p = [q EXCEPT !.qty = n]
  BY DEF ApplyChanges
<1> QED BY <1>1, <1>2, <1>3

\* critic_node and revise_node.
LEMMA CriticInv == ASSUME Inv, NEW r \in Runner, Critic(r) PROVE Inv'
<1> DEFINE ds == run[r].drafts
           ts == run[r].texts
           scored == run[r].ctx.scored
<1>1. PICK reject \in SUBSET DOMAIN ds :
        \E kept \in Positions(DOMAIN ds \ reject) :
          \E finals \in Revisions(ds, kept, scored) :
            run' = [run EXCEPT ![r].pc = "finalize", ![r].drafts = finals,
                               ![r].texts = Rekeyed(ts, kept), ![r].ctx = NoContext]
  BY DEF Critic
<1> DEFINE S == DOMAIN ds \ reject
<1>k. PICK kept \in Positions(S) :
        \E finals \in Revisions(ds, kept, scored) :
          run' = [run EXCEPT ![r].pc = "finalize", ![r].drafts = finals,
                             ![r].texts = Rekeyed(ts, kept), ![r].ctx = NoContext]
  BY <1>1
<1>2. PICK fs \in Revisions(ds, kept, scored) :
        run' = [run EXCEPT ![r].pc = "finalize", ![r].drafts = fs,
                           ![r].texts = Rekeyed(ts, kept), ![r].ctx = NoContext]
  BY <1>k
<1>3. run[r].pc = "critic" /\ UNCHANGED <<rows, runs>>
  BY DEF Critic
<1>4. /\ run[r] \in RunType /\ Sound(run[r]) /\ run[r].id \in 0 .. runs
      /\ ds \in Seq(DraftType) /\ Paired(ts, ds) /\ OnePerKey(ds) /\ run[r].first = 0
      /\ ts \in Texts
      /\ scored \in [Ticker -> SUBSET Level]
  BY <1>3, RunFacts DEF Sound, ContextType
<1> DEFINE x == [run[r] EXCEPT !.pc = "finalize", !.drafts = fs, !.texts = Rekeyed(ts, kept),
                               !.ctx = NoContext]
<1>5. run' = [run EXCEPT ![r] = x]
  BY <1>2 DEF Inv
<1>6. S \in SUBSET DOMAIN ds
  OBVIOUS
<1> HIDE DEF ds, ts, scored, S
<1>7. (\A j \in DOMAIN kept : kept[j] \in DOMAIN ds) /\ \E m \in Nat : DOMAIN kept = 1 .. m
  <2>1. Len(ds) \in Nat /\ DOMAIN ds = 1 .. Len(ds)
    BY <1>4
  <2>2. kept \in [1 .. Cardinality(S) -> S] /\ Cardinality(S) \in Nat
    BY <1>6, <2>1, PositionsKept
  <2> QED BY <1>6, <2>2
<1>8. /\ fs \in [DOMAIN kept -> DraftType]
      /\ \A j \in DOMAIN kept : KeyOf(fs[j]) = KeyOf(ds[kept[j]])
  <2>1. DOMAIN fs = DOMAIN kept /\ fs = [j \in DOMAIN fs |-> fs[j]]
        /\ \A j \in DOMAIN kept : fs[j] \in ApplyChanges(ds[kept[j]], scored[ds[kept[j]].ticker])
    BY DEF Revisions
  <2>2. ASSUME NEW j \in DOMAIN kept PROVE fs[j] \in DraftType /\ KeyOf(fs[j]) = KeyOf(ds[kept[j]])
    <3>1. PICK d \in DraftType : d = ds[kept[j]]
      BY <1>4, <1>7
    <3>2. scored[d.ticker] \in SUBSET Level
      BY <1>4 DEF DraftType
    <3>3. fs[j] \in ApplyChanges(d, scored[d.ticker])
      BY <2>1, <3>1
    <3> QED BY <3>1, <3>2, <3>3, ChangedDraft
  <2> QED BY <2>1, <2>2
<1>9. fs \in Seq(DraftType) /\ OnePerKey(fs) /\ Paired(Rekeyed(ts, kept), fs)
  BY <1>4, <1>6, <1>8, DraftsKept
<1>10. Rekeyed(ts, kept) \in Texts
  BY <1>4, <1>7, RekeyedType
<1>11. x \in RunType /\ x.id = run[r].id /\ x.drafts = fs /\ x.texts = Rekeyed(ts, kept)
       /\ x.pc = "finalize" /\ x.first = 0
  BY <1>4, <1>9, <1>10, NoContextType DEF RunType, Nodes
<1> HIDE DEF x
<1>12. Sound(x)
  BY <1>9, <1>11 DEF Sound, Paired, OnePerKey
<1> QED BY <1>3, <1>4, <1>5, <1>11, <1>12, OneRun

\* skip_revise_node.
LEMMA SkipReviseInv == ASSUME Inv, NEW r \in Runner, SkipRevise(r) PROVE Inv'
<1> DEFINE x == [run[r] EXCEPT !.pc = "finalize", !.ctx = NoContext]
<1>1. run' = [run EXCEPT ![r] = x] /\ UNCHANGED <<rows, runs>> /\ run[r].pc = "critic"
  BY DEF SkipRevise, Inv
<1>2. /\ run[r] \in RunType /\ Sound(run[r]) /\ run[r].id \in 0 .. runs /\ run[r].first = 0
      /\ Paired(run[r].texts, run[r].drafts) /\ OnePerKey(run[r].drafts)
  BY <1>1, RunFacts DEF Sound
<1>3. x \in RunType /\ x.id = run[r].id /\ x.drafts = run[r].drafts /\ x.texts = run[r].texts
      /\ x.pc = "finalize" /\ x.first = 0
  BY <1>2, NoContextType DEF RunType, Nodes
<1> HIDE DEF x
<1>4. Sound(x)
  BY <1>2, <1>3 DEF Sound, Paired, OnePerKey
<1> QED BY <1>1, <1>2, <1>3, <1>4, OneRun

\* A runner that stops, with or without rows written.
LEMMA StopInv ==
    ASSUME Inv, NEW r \in Runner, run' = [run EXCEPT ![r] = Idle], UNCHANGED <<rows, runs>>
    PROVE  Inv'
<1>1. Idle.id \in 0 .. runs
  BY DEF Idle, Inv
<1> QED BY <1>1, IdleType, OneRun

\* The first row that will be written.
LEMMA FinalizeReadInv == ASSUME Inv, NEW r \in Runner, FinalizeRead(r) PROVE Inv'
<1> DEFINE ds   == run[r].drafts
           open == {i \in DOMAIN ds : Open(rows[KeyOf(ds[i])].status)}
           i    == IF open = {} THEN 0 ELSE Min(open)
           seen == IF i = 0 THEN "absent" ELSE rows[KeyOf(ds[i])].status
           x    == [run[r] EXCEPT !.pc = "write", !.first = i, !.seen = seen]
<1>1. run' = [run EXCEPT ![r] = x] /\ UNCHANGED <<rows, runs>>
  BY DEF FinalizeRead, Inv
<1>2. /\ run[r] \in RunType /\ Sound(run[r]) /\ run[r].id \in 0 .. runs
      /\ ds \in Seq(DraftType) /\ Paired(run[r].texts, ds) /\ OnePerKey(ds)
  BY RunFacts
<1>3. i \in {0} \cup DOMAIN ds
  <2>1. open \in SUBSET Nat /\ open \in SUBSET DOMAIN ds
    BY <1>2
  <2> HIDE DEF open
  <2>2. ASSUME open # {} PROVE Min(open) \in open
    <3>1. \E m \in open : \A k \in open : m <= k
      BY <2>1, <2>2, LeastNat
    <3> QED BY <3>1 DEF Min
  <2> QED BY <2>1, <2>2
<1>4. seen \in Status
  <2>1. i # 0 => KeyOf(ds[i]) \in Key
    <3> HIDE DEF ds, i
    <3> QED BY <1>2, <1>3, KeyType
  <2> HIDE DEF i, ds
  <2> QED BY <2>1 DEF Inv, RowType, Status
<1> HIDE DEF i, seen
<1>5. x \in RunType /\ x.id = run[r].id /\ x.drafts = ds /\ x.texts = run[r].texts
      /\ x.pc = "write" /\ x.first = i
  <2>1. i \in Nat
    BY <1>2, <1>3
  <2> QED BY <1>2, <1>4, <2>1 DEF RunType, Nodes
<1> HIDE DEF x, ds
<1>6. Sound(x)
  BY <1>2, <1>3, <1>5 DEF Sound, Paired, OnePerKey
<1> QED BY <1>1, <1>2, <1>5, <1>6, OneRun

\* The draft that is written to a row is the only one of the row's ticker and side.
LEMMA TheDraftOf ==
    ASSUME Inv, NEW r \in Runner, NEW k,
           NEW W, W = {i \in Written(r) : KeyOf(run[r].drafts[i]) = k}, W # {}
    PROVE  Max(W) \in W /\ Max(W) \in DOMAIN run[r].drafts
<1>1. PICK i \in W : TRUE
  OBVIOUS
<1>2. \A j \in W : j \in DOMAIN run[r].drafts /\ KeyOf(run[r].drafts[j]) = k
  BY DEF Written
<1>3. W = {i}
  BY <1>1, <1>2, RunFacts DEF OnePerKey
<1>4. i \in Int
  <2>1. run[r].drafts \in Seq(DraftType)
    BY RunFacts
  <2>2. DOMAIN run[r].drafts \subseteq Int
    BY <2>1
  <2> QED BY <1>1, <1>2, <2>2
<1>5. \E m \in W : \A j \in W : m >= j
  BY <1>3, <1>4
<1> QED BY <1>2, <1>5 DEF Max

\* The rows are written.
LEMMA FinalizeWriteInv == ASSUME Inv, NEW r \in Runner, FinalizeWrite(r) PROVE Inv'
<1> DEFINE ds == run[r].drafts
           ts == run[r].texts
           W(k) == {i \in Written(r) : KeyOf(ds[i]) = k}
           new(k) == [status |-> IF rows[k].status = "absent" THEN "pending" ELSE rows[k].status,
                      by     |-> run[r].id,
                      text   |-> IF Max(W(k)) \in DOMAIN ts THEN ts[Max(W(k))] ELSE rows[k].text]
           x == [Idle EXCEPT !.pc = "mail"]
<1>1. /\ rows' = [k \in Key |-> IF W(k) = {} THEN rows[k] ELSE new(k)]
      /\ run' = [run EXCEPT ![r] = x] /\ UNCHANGED runs
  BY DEF FinalizeWrite
<1>2. /\ run[r] \in RunType /\ run[r].id \in 0 .. runs /\ runs \in 0 .. MaxRuns
      /\ ds \in Seq(DraftType) /\ Paired(ts, ds) /\ OnePerKey(ds) /\ MaxRuns \in Nat
  BY RunFacts, ReviewAssumption DEF Inv
<1>3. ASSUME NEW k \in Key, W(k) # {}
      PROVE  new(k) \in RowType /\ new(k).text \in {None, k}
  <2>1. Max(W(k)) \in W(k) /\ Max(W(k)) \in DOMAIN ds
    BY <1>3, TheDraftOf
  <2>2. rows[k] \in RowType /\ rows[k].text \in {None, k}
    BY DEF Inv, ReviewInv, TextOfItsRow
  <2>3. PICK m : m = Max(W(k))
    OBVIOUS
  <2>4. m \in DOMAIN ts => ts[m] = k
    BY <1>2, <2>1, <2>3 DEF Paired
  <2>5. run[r].id \in 0 .. MaxRuns
    BY <1>2
  <2>6. PICK text : text = IF m \in DOMAIN ts THEN ts[m] ELSE rows[k].text
    OBVIOUS
  <2>7. text \in {None, k}
    BY <2>2, <2>4, <2>6
  <2>8. new(k) = [status |-> IF rows[k].status = "absent" THEN "pending" ELSE rows[k].status,
                  by |-> run[r].id, text |-> text]
    BY <2>3, <2>6
  <2> HIDE DEF new
  <2> QED BY <2>2, <2>5, <2>7, <2>8 DEF RowType, Status
<1> HIDE DEF new, W
<1>4. rows' \in [Key -> RowType] /\ TextOfItsRow'
  <2>1. ASSUME NEW k \in Key PROVE rows'[k] \in RowType /\ rows'[k].text \in {None, k}
    <3>1. rows[k] \in RowType /\ rows[k].text \in {None, k}
      BY DEF Inv, ReviewInv, TextOfItsRow
    <3>2. rows'[k] = IF W(k) = {} THEN rows[k] ELSE new(k)
      BY <1>1
    <3> QED BY <1>3, <3>1, <3>2
  <2> QED BY <1>1, <2>1 DEF TextOfItsRow
<1>5. x \in RunType /\ Sound(x) /\ x.id \in 0 .. runs
  <2>1. Idle \in RunType /\ Sound(Idle) /\ Idle.id = 0 /\ Idle.first = 0 /\ runs \in Nat
    BY <1>2, IdleType DEF Idle
  <2>2. x \in RunType /\ x.id = 0 /\ x.first = 0 /\ x.drafts = Idle.drafts /\ x.texts = Idle.texts
        /\ x.pc = "mail"
    BY <2>1 DEF RunType, Nodes
  <2> HIDE DEF x
  <2>3. Sound(x)
    BY <2>1, <2>2 DEF Sound
  <2> QED BY <2>1, <2>2, <2>3
<1> HIDE DEF x
<1>6. run' \in [Runner -> RunType]
  BY <1>1, <1>5 DEF Inv
<1>7. ASSUME NEW q \in Runner PROVE Sound(run'[q]) /\ run'[q].id \in 0 .. runs'
  <2>1. run'[q] = IF q = r THEN x ELSE run[q]
    BY <1>1 DEF Inv
  <2> QED BY <1>1, <1>5, <2>1 DEF Inv, ReviewInv
<1> QED BY <1>1, <1>4, <1>6, <1>7 DEF Inv, ReviewInv, Sound

\* An answer of the owner.
LEMMA AnswerInv == ASSUME Inv, NEW k \in Key, Answer(k) PROVE Inv'
<1>1. PICK answer \in {"accepted", "rejected"} : rows' = [rows EXCEPT ![k].status = answer]
  BY DEF Answer
<1>2. UNCHANGED <<run, runs>>
  BY DEF Answer
<1>3. ASSUME NEW j \in Key PROVE rows'[j] \in RowType /\ rows'[j].text = rows[j].text
  BY <1>1 DEF Inv, RowType, Status
<1>4. rows' \in [Key -> RowType] /\ TextOfItsRow'
  BY <1>1, <1>3 DEF Inv, ReviewInv, TextOfItsRow
<1> QED BY <1>2, <1>4 DEF Inv, ReviewInv, Sound

\* The anchors a run draws.
LEMMA AnchorsDrawn ==
    ASSUME NEW gap \in [Ticker -> Gap], NEW scored, NEW broken,
           NEW anchor \in [Ticker -> Level \cup {None}],
           \A t \in Ticker :
             LET A == Anchors(SideOf(gap[t]), scored[t], broken)
             IN  IF A = {} THEN anchor[t] = None ELSE anchor[t] \in A
    PROVE  Anchored(gap, anchor)
<1>1. ASSUME NEW t \in Ticker, anchor[t] # None
      PROVE  OnItsSide(SideOf(gap[t]), LevelPrice[anchor[t]])
  <2>1. anchor[t] \in Anchors(SideOf(gap[t]), scored[t], broken)
    BY <1>1
  <2> QED BY <2>1, AnchorOnItsSide
<1> QED BY <1>1 DEF Anchored

\* The rationales of earlier runs.
LEMMA CachedPaired ==
    ASSUME Inv, NEW ds \in Seq(DraftType)
    PROVE  Paired(CachedTexts(ds), ds) /\ CachedTexts(ds) \in Texts
<1>1. \A i \in DOMAIN ds : KeyOf(ds[i]) \in Key
  BY KeyType
<1>2. \A k \in Key : rows[k].text # None => rows[k].text = k
  BY DEF Inv, ReviewInv, TextOfItsRow
<1>3. Paired(CachedTexts(ds), ds)
  BY <1>1, <1>2 DEF Paired, CachedTexts
<1> DEFINE D == {i \in DOMAIN ds : rows[KeyOf(ds[i])].text # None}
<1>4. D \in SUBSET Nat
  OBVIOUS
<1>5. CachedTexts(ds) \in [D -> Key \cup {Stray}]
  BY <1>1, <1>2 DEF CachedTexts
<1> HIDE DEF D
<1> QED BY <1>3, <1>4, <1>5 DEF Texts

\* A new run.
LEMMA DraftInv == ASSUME Inv, NEW r \in Runner, Draft(r) PROVE Inv'
<1>1. PICK gap \in [Ticker -> Gap], cash \in Cash, fraction \in Fraction,
           scored \in [Ticker -> ScoredSet], broken \in BrokenSets :
         \E anchor \in [Ticker -> Level \cup {None}] :
           /\ \A t \in Ticker :
                LET A == Anchors(SideOf(gap[t]), scored[t], broken)
                IN  IF A = {} THEN anchor[t] = None ELSE anchor[t] \in A
           /\ LET drafts == GenerateSuggestions(gap, anchor, cash)
                  all    == drafts \o GenerateTopups(gap, anchor, cash, drafts, fraction)
              IN  run' = [run EXCEPT ![r] =
                    [Idle EXCEPT !.pc = "gather", !.id = runs + 1, !.cash = cash,
                       !.drafts = all, !.texts = CachedTexts(all)]]
  BY DEF Draft
<1>2. PICK anchor \in [Ticker -> Level \cup {None}] :
           /\ \A t \in Ticker :
                LET A == Anchors(SideOf(gap[t]), scored[t], broken)
                IN  IF A = {} THEN anchor[t] = None ELSE anchor[t] \in A
           /\ LET drafts == GenerateSuggestions(gap, anchor, cash)
                  all    == drafts \o GenerateTopups(gap, anchor, cash, drafts, fraction)
              IN  run' = [run EXCEPT ![r] =
                    [Idle EXCEPT !.pc = "gather", !.id = runs + 1, !.cash = cash,
                       !.drafts = all, !.texts = CachedTexts(all)]]
  BY <1>1
<1>3. Anchored(gap, anchor)
  BY <1>2, AnchorsDrawn, Zenon
<1> DEFINE drafts == GenerateSuggestions(gap, anchor, cash)
           ds     == drafts \o GenerateTopups(gap, anchor, cash, drafts, fraction)
           x      == [Idle EXCEPT !.pc = "gather", !.id = runs + 1, !.cash = cash,
                                  !.drafts = ds, !.texts = CachedTexts(ds)]
<1>4. run' = [run EXCEPT ![r] = x]
  BY <1>2
<1>5. /\ ds \in Seq(DraftType)
      /\ \A i, j \in DOMAIN ds : KeyOf(ds[i]) = KeyOf(ds[j]) => i = j
      /\ \A i \in DOMAIN ds : NearItsSide(ds[i].side, ds[i].limit)
      /\ Buys(ds) # {} => Spent(ds, HalfCent) <= cash - CashFloor
  <2>1. cash \in Int /\ fraction \in 0 .. 4
    BY ReviewAssumption
  <2> QED BY <1>3, <2>1, AllDrafts
<1>6. UNCHANGED rows /\ runs < MaxRuns /\ runs' = runs + 1 /\ runs \in 0 .. MaxRuns /\ MaxRuns \in Nat
  BY ReviewAssumption DEF Draft, Inv
<1> HIDE DEF ds
<1>7. Paired(CachedTexts(ds), ds) /\ CachedTexts(ds) \in Texts
  BY <1>5, CachedPaired
<1>9. x \in RunType /\ x.id = runs + 1 /\ x.drafts = ds /\ x.texts = CachedTexts(ds)
      /\ x.pc = "gather" /\ x.first = 0 /\ x.cash = cash /\ x.ctx = NoContext
  <2>1. Idle \in RunType /\ Idle.first = 0 /\ Idle.ctx = NoContext
    BY IdleType DEF Idle
  <2>2. runs + 1 \in Nat
    BY <1>6
  <2> QED BY <1>5, <1>7, <2>1, <2>2 DEF RunType, Nodes
<1> HIDE DEF x
<1>10. Sound(x)
  BY <1>5, <1>7, <1>9 DEF Sound, Paired
<1>11. run' \in [Runner -> RunType]
  BY <1>4, <1>9 DEF Inv
<1>12. ASSUME NEW q \in Runner PROVE Sound(run'[q]) /\ run'[q].id \in 0 .. runs'
  <2>1. run'[q] = IF q = r THEN x ELSE run[q]
    BY <1>4 DEF Inv
  <2>2. run[q].id \in 0 .. runs
    BY DEF Inv
  <2>3. x.id \in 0 .. runs'
    BY <1>6, <1>9
  <2>4. run[q].id \in 0 .. runs'
    BY <1>6, <2>2
  <2> QED BY <1>10, <2>1, <2>3, <2>4 DEF Inv, ReviewInv
<1>13. TextOfItsRow'
  BY <1>6 DEF Inv, ReviewInv, TextOfItsRow
<1>14. rows' \in [Key -> RowType] /\ runs' \in 0 .. MaxRuns
  BY <1>6 DEF Inv
<1> QED BY <1>11, <1>12, <1>13, <1>14 DEF Inv, ReviewInv, Sound

-----------------------------------------------------------------------------
(* The theorems *)

\* The invariant holds at first and through every step.
LEMMA InitInv == Init => Inv
<1>1. MaxRuns \in Nat
  BY ReviewAssumption
<1>2. Idle.id = 0
  BY DEF Idle
<1> QED BY <1>1, <1>2, IdleType
        DEF Init, Inv, ReviewInv, TextOfItsRow, RowType, NoRow, Status

\* Every step keeps the invariant.
LEMMA NextInv == Inv /\ [Next]_vars => Inv'
<1> SUFFICES ASSUME Inv, [Next]_vars PROVE Inv'
  OBVIOUS
<1>1. CASE UNCHANGED vars
  BY <1>1 DEF Inv, ReviewInv, TextOfItsRow, Sound, vars
<1>2. ASSUME NEW r \in Runner, Mail(r) \/ RunFails(r) PROVE Inv'
  BY <1>2, StopInv DEF Mail, RunFails
<1>3. CASE Next
  <2>1. CASE \E k \in Key : Answer(k)
    BY <2>1, AnswerInv
  <2>2. ASSUME NEW r \in Runner,
               \/ Draft(r) \/ GatherContext(r) \/ ContextAdjust(r) \/ Reason(r) \/ Critic(r)
               \/ SkipRevise(r)
        PROVE  Inv'
    BY <2>2, DraftInv, GatherInv, AdjustInv, ReasonInv, CriticInv, SkipReviseInv
  <2>3. ASSUME NEW r \in Runner, FinalizeRead(r) \/ FinalizeWrite(r) PROVE Inv'
    BY <2>3, FinalizeReadInv, FinalizeWriteInv
  <2> QED BY <1>2, <1>3, <2>1, <2>2, <2>3 DEF Next
<1> QED BY <1>1, <1>3

\* The invariant holds always.
LEMMA Always == Spec => []Inv
BY InitInv, NextInv, PTL DEF Spec

\* Rows, runs and drafts have their types in every run of the week's jobs.
THEOREM TypesHold == Spec => []TypeOK
<1>1. Inv => TypeOK
  <2>1. ASSUME Inv, NEW r \in Runner
        PROVE  /\ run[r].id \in 0 .. runs /\ run[r].cash \in Cash \cup {0}
               /\ run[r].drafts \in Seq(DraftType) /\ run[r].first \in {0} \cup DOMAIN run[r].drafts
               /\ DOMAIN run[r].texts \subseteq Nat
    <3>1. run[r] \in RunType /\ Sound(run[r]) /\ run[r].id \in 0 .. runs /\ run[r].texts \in Texts
      BY <2>1, RunFacts
    <3>2. DOMAIN run[r].texts \subseteq Nat
      BY <3>1 DEF Texts
    <3> QED BY <3>1, <3>2 DEF RunType, Sound
  <2> QED BY <2>1 DEF Inv, TypeOK, RowType
<1> QED BY <1>1, Always, PTL

\* The rationale of a row was filed for its own ticker and side, through every
\* draft that context_adjust drops, the critic rejects or an earlier run explained,
\* whatever numbers the LLM files its texts under.
THEOREM RationalesMatchRows == Spec => []TextOfItsRow
<1>1. Inv => TextOfItsRow
  BY DEF Inv, ReviewInv
<1> QED BY <1>1, Always, PTL

\* The drafts of generate_suggestions and generate_topups together leave the cash
\* floor but for half a cent a share, for every list of tickers, levels, gaps and
\* cash balance.
THEOREM FloorIsKept == Spec => []DraftsWithinFloor
<1>1. Inv => DraftsWithinFloor
  BY DEF Inv, ReviewInv, Sound, DraftsWithinFloor
<1> QED BY <1>1, Always, PTL

\* A run never has two drafts of one ticker and side.
THEOREM DraftsAreDistinct == Spec => []OneDraftPerOrder
<1>1. Inv => OneDraftPerOrder
  BY DEF Inv, ReviewInv, Sound, OneDraftPerOrder
<1> QED BY <1>1, Always, PTL

\* Limits stay on their side of the market, up to the half cent of rounding and
\* where the graph knows the close, until the critic has seen them.
THEOREM LimitsStayOnSide == Spec => []LimitOnItsSide
<1>1. Inv => LimitOnItsSide
  <2>1. ASSUME Inv, NEW r \in Runner, run[r].pc \in {"gather", "adjust", "reason", "critic"},
               NEW d \in Range(run[r].drafts), d.ticker \in run[r].ctx.known
        PROVE  NearItsSide(d.side, d.limit)
    <3>1. PICK i \in DOMAIN run[r].drafts : d = run[r].drafts[i]
      BY DEF Range
    <3> QED BY <2>1, <3>1 DEF Inv, ReviewInv, Sound
  <2> QED BY <2>1 DEF LimitOnItsSide
<1> QED BY <1>1, Always, PTL

\* A row the owner has answered is left alone by every run but one that read it,
\* still pending, as the first row it writes.
THEOREM AnswersAreKept == Spec => AnsweredRowFrozen
<1> DEFINE Kept(k) == \/ rows[k].status \in {"absent", "pending"}
                      \/ rows'[k] = rows[k]
                      \/ \E r \in Runner : /\ run[r].pc = "write" /\ run[r].first > 0
                                           /\ KeyOf(run[r].drafts[run[r].first]) = k
<1>1. ASSUME Inv, [Next]_vars, NEW k \in Key PROVE Kept(k)
  <2>1. CASE UNCHANGED rows
    BY <2>1
  <2>2. ASSUME NEW j \in Key, Answer(j) PROVE Kept(k)
    BY <1>1, <2>2 DEF Answer, Inv
  <2>3. ASSUME NEW r \in Runner, FinalizeWrite(r) PROVE Kept(k)
    <3> DEFINE W == {i \in Written(r) : KeyOf(run[r].drafts[i]) = k}
    <3>1. W = {} => rows'[k] = rows[k]
      BY <2>3 DEF FinalizeWrite
    <3>2. ASSUME NEW i \in W PROVE Kept(k)
      BY <2>3 DEF FinalizeWrite, Written, Open
    <3> QED BY <3>1, <3>2
  <2>4. ASSUME NEW r \in Runner,
               \/ Draft(r) \/ GatherContext(r) \/ ContextAdjust(r) \/ Reason(r) \/ Critic(r)
               \/ SkipRevise(r) \/ FinalizeRead(r) \/ Mail(r) \/ RunFails(r)
        PROVE  UNCHANGED rows
    BY <2>4 DEF Draft, GatherContext, ContextAdjust, Reason, Critic, SkipRevise, FinalizeRead,
                Mail, RunFails
  <2> QED BY <1>1, <2>1, <2>2, <2>3, <2>4 DEF Next, vars
<1>2. Inv /\ [Next]_vars => \A k \in Key : Kept(k)
  BY <1>1
<1>3. Inv /\ [Next]_vars => [\A k \in Key : Kept(k)]_vars
  BY <1>2
<1> QED BY <1>3, Always, PTL DEF Spec, AnsweredRowFrozen

=============================================================================

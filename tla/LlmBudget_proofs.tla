-------------------------- MODULE LlmBudget_proofs --------------------------
(***************************************************************************)
(* Theorems about LlmBudget, for every number of threads and tasks, every  *)
(* cap, cost and number of attempts: the client implements the abstract    *)
(* daily budget, the counter's overshoot is one call per thread, and what  *)
(* a calendar day is billed is bounded by it and by the failed requests.   *)
(***************************************************************************)
EXTENDS LlmBudget, FiniteSetTheorems, TLAPS

\* A thread that starts its call joins the threads that call.
LEMMA EnterCalling ==
    ASSUME TypeOK, NEW t \in Thread, Goto(t, "check", "calling")
    PROVE  Calling' = Calling \cup {t}
BY DEF TypeOK, Goto, Calling

\* A thread whose call ends leaves them.
LEMMA LeaveCalling ==
    ASSUME TypeOK, NEW t \in Thread, NEW to \in Pc \ {"calling"}, Goto(t, "calling", to)
    PROVE  t \in Calling /\ Calling' = Calling \ {t}
BY DEF TypeOK, Goto, Calling, Pc

\* Every other step leaves them alone.
LEMMA SameCalling ==
    ASSUME TypeOK, NEW t \in Thread, NEW from \in Pc \ {"calling"}, pc[t] = from,
           NEW to \in Pc \ {"calling"}, pc' = [pc EXCEPT ![t] = to]
    PROVE  Calling' = Calling
BY DEF TypeOK, Calling, Pc

----------------------------------------------------------------------------

\* Initially every variable has its type.
LEMMA InitType == Init => TypeOK
BY BudgetAssumption DEF Init, TypeOK, Day, Pc

\* Every step keeps the types.
LEMMA NextType ==
    ASSUME TypeOK, [Next]_vars
    PROVE  TypeOK'
<1>c. 0 \in Day /\ 0 \in 0 .. MaxAttempts /\ 1 \in 0 .. MaxAttempts
  BY BudgetAssumption DEF Day
<1>0. CASE UNCHANGED vars
  BY <1>0 DEF TypeOK, vars, thread, ghost, costs
<1>1. CASE Midnight
  BY <1>1, BudgetAssumption DEF Midnight, TypeOK, Day, thread, ghost, costs
<1> SUFFICES ASSUME NEW t \in Thread, Call(t) \/ Take(t) PROVE TypeOK'
  BY <1>0, <1>1 DEF Next
<1>2. CASE Take(t)
  BY <1>2, BudgetAssumption DEF Take, Goto, TypeOK, Pc, ghost, costs
<1>3. CASE ReadDate(t) \/ ReadDateAgain(t)
  BY <1>3 DEF ReadDate, ReadDateAgain, Goto, TypeOK, Pc, ghost, costs
<1>4. CASE RollOver(t) \/ RollClears(t) \/ StoreDate(t)
  <2>1. setBack' \in Nat /\ spent' \in Nat
    BY <1>4 DEF RollOver, RollClears, StoreDate, TypeOK
  <2> QED BY <1>4, <1>c, <2>1 DEF RollOver, RollClears, StoreDate, Goto, TypeOK, Pc, costs
<1>5. CASE CheckCap(t)
  BY <1>5, <1>c DEF CheckCap, Goto, TypeOK, Pc, costs
<1>6. CASE CapReached(t)
  BY <1>6 DEF CapReached, Goto, TypeOK, Pc, ghost, costs
<1>b. ASSUME NEW cost \in 0 .. MaxCost, BilledUncounted(t, cost)
      PROVE  bill' \in [Day -> Nat] /\ uncounted' \in [Day -> Nat]
  <2>1. cost \in Nat /\ (IF cost > 0 THEN 1 ELSE 0) \in Nat
    BY BudgetAssumption
  <2> QED BY <1>b, <2>1 DEF BilledUncounted, TypeOK
<1>7. ASSUME NEW cost \in 0 .. MaxCost, Retry(t, cost) PROVE TypeOK'
  <2>1. attempt' \in [Thread -> 0 .. MaxAttempts]
    BY <1>7, BudgetAssumption DEF Retry, TypeOK
  <2> QED BY <1>7, <1>b, <2>1 DEF Retry, BilledUncounted, TypeOK
<1>8. ASSUME NEW cost \in 0 .. MaxCost, CallFails(t, cost) PROVE TypeOK'
  BY <1>8, <1>b DEF CallFails, BilledUncounted, Goto, TypeOK, Pc
<1>9. ASSUME NEW cost \in 0 .. MaxCost, Answer(t, cost)
      PROVE  TypeOK'
  BY <1>9, BudgetAssumption DEF Answer, Goto, TypeOK, Pc
<1>10. CASE Done(t)
  BY <1>10, <1>c DEF Done, TypeOK, Pc, costs
<1> QED
  BY <1>2, <1>3, <1>4, <1>5, <1>6, <1>7, <1>8, <1>9, <1>10 DEF Call

\* Every variable of the client, the pool and the history keeps its type.
THEOREM BudgetTypeCorrect == Spec => []TypeOK
<1>1. Init => TypeOK
  BY InitType
<1>2. TypeOK /\ [Next]_vars => TypeOK'
  BY NextType
<1> QED BY <1>1, <1>2, PTL DEF Spec

----------------------------------------------------------------------------

\* Every step of the client is a step of the abstract budget or a stutter.
LEMMA StepImplements ==
    ASSUME TypeOK, [Next]_vars
    PROVE  [Budget!Next]_<<spent, Calling>>
<1>0. CASE UNCHANGED vars
  BY <1>0 DEF vars, thread, Calling
<1>1. CASE Midnight
  BY <1>1 DEF Midnight, thread, Calling
<1> SUFFICES ASSUME NEW t \in Thread, Call(t) \/ Take(t)
             PROVE  [Budget!Next]_<<spent, Calling>>
  BY <1>0, <1>1 DEF Next
<1>2. CASE Take(t)
  BY <1>2, SameCalling DEF Take, Goto, Pc
<1>3. CASE ReadDate(t) \/ ReadDateAgain(t) \/ StoreDate(t)
  BY <1>3, SameCalling DEF ReadDate, ReadDateAgain, StoreDate, Goto, Pc
<1>4. CASE RollOver(t) \/ RollClears(t)
  <2>1. Calling' = Calling
    BY <1>4, SameCalling DEF RollOver, RollClears, Goto, Pc
  <2>2. spent' = 0 \/ spent' = spent
    BY <1>4 DEF RollOver, RollClears
  <2> QED BY <2>1, <2>2 DEF Budget!Next, Budget!NewDay
<1>5. CASE CheckCap(t)
  <2>1. Calling' = Calling \cup {t} /\ spent < Cap /\ spent' = spent
    BY <1>5, EnterCalling DEF CheckCap
  <2> QED BY <2>1 DEF Budget!Next, Budget!Admit
<1>6. CASE CapReached(t)
  BY <1>6, SameCalling DEF CapReached, Goto, Pc
<1>7. ASSUME NEW cost \in 0 .. MaxCost, Retry(t, cost)
      PROVE  [Budget!Next]_<<spent, Calling>>
  BY <1>7 DEF Retry, BilledUncounted, Calling
<1>8. ASSUME NEW cost \in 0 .. MaxCost, CallFails(t, cost)
      PROVE  [Budget!Next]_<<spent, Calling>>
  <2>1. t \in Calling /\ Calling' = Calling \ {t} /\ spent' = spent
    BY <1>8, LeaveCalling DEF CallFails, BilledUncounted, Pc
  <2> QED BY <2>1 DEF Budget!Next, Budget!Fail
<1>9. ASSUME NEW cost \in 0 .. MaxCost, Answer(t, cost)
      PROVE  [Budget!Next]_<<spent, Calling>>
  <2>1. t \in Calling /\ Calling' = Calling \ {t}
    BY <1>9, LeaveCalling DEF Answer, Pc
  <2>2. spent' = spent + cost
    BY <1>9 DEF Answer
  <2> QED BY <2>1, <2>2 DEF Budget!Next, Budget!Pay
<1>10. CASE Done(t)
  BY <1>10, SameCalling DEF Done, Pc
<1> QED
  BY <1>2, <1>3, <1>4, <1>5, <1>6, <1>7, <1>8, <1>9, <1>10 DEF Call

\* The client implements the daily budget: whatever the threads, retries,
\* failures and midnights do, the counter and the open calls behave as the
\* abstract specification says.
THEOREM BudgetImplemented == Spec => BudgetKept
<1>1. Init => Budget!Init
  BY DEF Init, Budget!Init, Calling
<1>2. TypeOK /\ [Next]_vars => [Budget!Next]_<<spent, Calling>>
  BY StepImplements
<1> QED BY <1>1, <1>2, BudgetTypeCorrect, PTL DEF Spec, BudgetKept, Budget!Spec

----------------------------------------------------------------------------

\* The calling threads are finitely many, at most all of them.
LEMMA CallingFinite ==
    /\ IsFiniteSet(Calling) /\ Cardinality(Calling) \in Nat
    /\ Cardinality(Thread) \in Nat /\ Cardinality(Calling) <= Cardinality(Thread)
BY BudgetAssumption, FS_Subset, FS_CardinalityType DEF Calling

\* A step of the abstract budget keeps the bound.
LEMMA BudgetStepBounded ==
    ASSUME TypeOK, TypeOK', OvershootBounded, [Budget!Next]_<<spent, Calling>>
    PROVE  OvershootBounded'
<1> USE BudgetAssumption
<1> DEFINE n == Cardinality(Calling)
           m == Cardinality(Calling')
           N == Cardinality(Thread)
<1>1. /\ IsFiniteSet(Calling) /\ n \in Nat /\ N \in Nat /\ n <= N
  BY CallingFinite
<1>2. Calling' \subseteq Thread
  BY DEF Calling
<1>3. IsFiniteSet(Calling') /\ m \in Nat /\ m <= N
  BY <1>2, FS_Subset, FS_CardinalityType
<1>4. spent \in Nat /\ spent' \in Nat
  BY DEF TypeOK
<1>5. MaxCost * n \in Nat /\ MaxCost * m \in Nat /\ MaxCost * N \in Nat /\ MaxCost * m <= MaxCost * N
  BY <1>1, <1>3
<1>6. spent + MaxCost * n <= Cap - 1 + MaxCost * N
  BY DEF OvershootBounded, Overshoot
<1>7. SUFFICES spent' + MaxCost * m <= Cap - 1 + MaxCost * N
  BY DEF OvershootBounded, Overshoot
<1>8. CASE UNCHANGED <<spent, Calling>>
  BY <1>8, <1>6
<1>9. ASSUME NEW t \in Thread, Budget!Admit(t)
      PROVE  spent' + MaxCost * m <= Cap - 1 + MaxCost * N
  BY <1>9, <1>4, <1>5 DEF Budget!Admit
<1>10. ASSUME NEW t \in Thread, t \in Calling, Calling' = Calling \ {t}
       PROVE  MaxCost * m = MaxCost * n - MaxCost
  <2>1. m = n - 1
    BY <1>10, <1>1, FS_RemoveElement
  <2> QED BY <2>1, <1>1
<1>11. ASSUME NEW t \in Thread, Budget!Fail(t)
       PROVE  spent' + MaxCost * m <= Cap - 1 + MaxCost * N
  <2>1. MaxCost * m = MaxCost * n - MaxCost
    BY <1>11, <1>10 DEF Budget!Fail
  <2>2. spent' = spent
    BY <1>11 DEF Budget!Fail
  <2> HIDE DEF m, n, N
  <2> QED BY <2>1, <2>2, <1>4, <1>5, <1>6
<1>12. ASSUME NEW t \in Thread, NEW cost \in 0 .. MaxCost, Budget!Pay(t, cost)
       PROVE  spent' + MaxCost * m <= Cap - 1 + MaxCost * N
  <2>1. MaxCost * m = MaxCost * n - MaxCost
    BY <1>12, <1>10 DEF Budget!Pay
  <2>2. spent' = spent + cost
    BY <1>12 DEF Budget!Pay
  <2> HIDE DEF m, n, N
  <2> QED BY <2>1, <2>2, <1>4, <1>5, <1>6
<1>13. CASE Budget!NewDay
  BY <1>13, <1>4, <1>5 DEF Budget!NewDay
<1> QED BY <1>8, <1>9, <1>11, <1>12, <1>13 DEF Budget!Next

\* The counter and the calls in flight exceed the cap by at most one call per
\* thread that shares the client.
THEOREM OvershootIsOneCallPerThread == Spec => []OvershootBounded
<1>1. Init => OvershootBounded
  <2> SUFFICES ASSUME Init PROVE OvershootBounded
    OBVIOUS
  <2>1. spent = 0 /\ Calling = {}
    BY DEF Init, Calling
  <2>2. Cardinality(Calling) = 0
    BY <2>1, FS_EmptySet
  <2>3. MaxCost * Cardinality(Thread) \in Nat
    BY CallingFinite, BudgetAssumption
  <2> QED BY <2>1, <2>2, <2>3, BudgetAssumption DEF OvershootBounded, Overshoot
<1>2. TypeOK /\ TypeOK' /\ OvershootBounded /\ [Next]_vars => OvershootBounded'
  BY StepImplements, BudgetStepBounded
<1> QED BY <1>1, <1>2, BudgetTypeCorrect, PTL DEF Spec

----------------------------------------------------------------------------
(* What a calendar day costs *)

\* Every step keeps the dates.
LEMMA NextDate ==
    ASSUME TypeOK, DateInv, [Next]_vars
    PROVE  DateInv'
<1> USE BudgetAssumption DEF Day
<1>0. CASE UNCHANGED vars
  BY <1>0 DEF DateInv, vars, thread, ghost, costs
<1>1. CASE Midnight
  BY <1>1 DEF DateInv, TypeOK, Midnight, thread, ghost, costs
<1> SUFFICES ASSUME NEW t \in Thread, Call(t) \/ Take(t) PROVE DateInv'
  BY <1>0, <1>1 DEF Next
<1>2. CASE Take(t) \/ CapReached(t)
  BY <1>2 DEF Take, CapReached, DateInv, ghost, costs
<1>3. CASE ReadDate(t) \/ ReadDateAgain(t)
  <2>1. /\ UNCHANGED <<day, clock, bill, uncounted, admitted>>
        /\ seen' = [seen EXCEPT ![t] = clock]
    BY <1>3 DEF ReadDate, ReadDateAgain, ghost, costs
  <2> QED BY <2>1 DEF DateInv, TypeOK
<1>4. CASE RollOver(t) \/ RollClears(t) \/ StoreDate(t)
  <2>1. /\ UNCHANGED <<clock, bill, uncounted, admitted>> /\ seen' = [seen EXCEPT ![t] = 0]
        /\ day' = day \/ day' = seen[t]
    BY <1>4 DEF RollOver, RollClears, StoreDate, costs
  <2> QED BY <2>1 DEF DateInv, TypeOK
<1>5. CASE CheckCap(t)
  BY <1>5 DEF CheckCap, DateInv, TypeOK, costs
<1>b. ASSUME NEW cost \in 0 .. MaxCost, BilledUncounted(t, cost) PROVE DateInv'
  BY <1>b DEF BilledUncounted, DateInv, TypeOK
<1>6. ASSUME NEW cost \in 0 .. MaxCost, Retry(t, cost) \/ CallFails(t, cost)
      PROVE  DateInv'
  BY <1>6, <1>b DEF Retry, CallFails
<1>7. ASSUME NEW cost \in 0 .. MaxCost, Answer(t, cost)
      PROVE  DateInv'
  BY <1>7 DEF Answer, DateInv, TypeOK
<1>8. CASE Done(t)
  BY <1>8 DEF Done, DateInv, TypeOK, costs
<1> QED BY <1>2, <1>3, <1>4, <1>5, <1>6, <1>7, <1>8 DEF Call

\* What the calls of a set of threads cost at most.
LEMMA WorstType ==
    ASSUME NEW S \in SUBSET Thread
    PROVE  Worst(S) \in Nat /\ Worst(S) <= Worst(Thread)
<1>1. IsFiniteSet(S) /\ Cardinality(S) \in Nat /\ Cardinality(Thread) \in Nat
      /\ Cardinality(S) <= Cardinality(Thread)
  BY BudgetAssumption, FS_Subset, FS_CardinalityType
<1> QED BY <1>1, BudgetAssumption DEF Worst

\* Fewer threads cost less.
LEMMA WorstMonotone ==
    ASSUME NEW T \in SUBSET Thread, NEW S \in SUBSET T
    PROVE  Worst(S) <= Worst(T)
<1>1. IsFiniteSet(T)
  BY BudgetAssumption, FS_Subset
<1>2. IsFiniteSet(S) /\ Cardinality(S) \in Nat /\ Cardinality(T) \in Nat
      /\ Cardinality(S) <= Cardinality(T)
  BY <1>1, FS_Subset, FS_CardinalityType
<1> QED BY <1>2, BudgetAssumption DEF Worst

\* A thread more or less is a call more or less.
LEMMA WorstRemove ==
    ASSUME NEW S \in SUBSET Thread, NEW t \in S
    PROVE  Worst(S \ {t}) = Worst(S) - MaxCost
<1>1. IsFiniteSet(S) /\ Cardinality(S) \in Nat
  BY BudgetAssumption, FS_Subset, FS_CardinalityType
<1>2. Cardinality(S \ {t}) = Cardinality(S) - 1
  BY <1>1, FS_RemoveElement
<1> QED BY <1>1, <1>2, BudgetAssumption DEF Worst

\* ... and one more thread in a call adds at most the cost of one.
LEMMA WorstAdd ==
    ASSUME NEW S \in SUBSET Thread, NEW t \in Thread
    PROVE  Worst(S \cup {t}) <= Worst(S) + MaxCost
<1>1. IsFiniteSet(S) /\ Cardinality(S) \in Nat
  BY BudgetAssumption, FS_Subset, FS_CardinalityType
<1>2. \/ Cardinality(S \cup {t}) = Cardinality(S) + 1
      \/ Cardinality(S \cup {t}) = Cardinality(S)
  BY <1>1, FS_AddElement
<1> QED BY <1>1, <1>2, BudgetAssumption DEF Worst

\* The numbers of the day's budget.
LEMMA BudgetNumbers ==
    ASSUME TypeOK
    PROVE  /\ Worst(Thread) \in Nat /\ Overshoot \in Nat /\ PerDay \in Nat
           /\ PerDay = Overshoot + Worst(Thread)
           /\ setBack * PerDay \in Nat
           /\ (setBack + 1) * PerDay = setBack * PerDay + PerDay
           /\ (1 + setBack) * PerDay = setBack * PerDay + PerDay
<1>1. Worst(Thread) \in Nat
  BY WorstType
<1>2. Overshoot = Cap - 1 + Worst(Thread)
  BY DEF Overshoot, Worst
<1>3. Overshoot \in Nat /\ PerDay \in Nat /\ PerDay = Overshoot + Worst(Thread)
  BY <1>1, <1>2, BudgetAssumption DEF PerDay
<1>4. setBack \in Nat
  BY DEF TypeOK
<1> QED BY <1>1, <1>3, <1>4

\* The sets the invariants speak of.
LEMMA ThreadSets ==
    /\ Calling \in SUBSET Thread /\ Admissible \in SUBSET Thread
    /\ \A d : CallingOf(d) \in SUBSET Calling
BY DEF Calling, Admissible, CallingOf

\* What is counted is an integer.
LEMMA CountedType ==
    ASSUME TypeOK, NEW d \in Day
    PROVE  Counted(d) \in Int /\ Counted(d) = bill[d] - MaxCost * uncounted[d]
BY BudgetAssumption DEF TypeOK, Counted

\* Steps without a bill leave it as it is.
LEMMA SameCounted ==
    ASSUME UNCHANGED costs
    PROVE  \A d \in Day : Counted(d)' = Counted(d)
BY DEF Counted, costs

\* Steps that neither pay nor admit nor roll over.
LEMMA IdleStepKeepsBill ==
    ASSUME TypeOK, TypeOK', TodayInv, PastInv, UNCHANGED <<spent, day, clock, setBack>>,
           \A d \in Day : Counted(d)' <= Counted(d),
           Admissible' \subseteq Admissible,
           \A d \in Day : CallingOf(d)' \subseteq CallingOf(d)
    PROVE  TodayInv' /\ PastInv'
<1>0. /\ clock \in Day /\ Day \subseteq Int /\ spent \in Nat
      /\ Counted(clock)' <= Counted(clock)
      /\ \A d \in Day : Counted(d) \in Int /\ Counted(d)' \in Int
      /\ Counted(clock)' \in Int
  <2>1. clock \in Day /\ Day \subseteq Int /\ spent \in Nat
    BY BudgetAssumption DEF TypeOK, Day
  <2>2. \A d \in Day : Counted(d)' \in Int
    BY BudgetAssumption DEF TypeOK, Counted
  <2>3. \A d \in Day : d = clock => Counted(clock)' = Counted(d)'
    BY DEF Counted
  <2> QED BY <2>1, <2>2, <2>3, CountedType
<1>1. Worst(Admissible)' \in Nat /\ Worst(Admissible) \in Nat /\ Worst(Admissible)' <= Worst(Admissible)
  <2>1. Admissible' \in SUBSET Admissible
    OBVIOUS
  <2>2. Worst(Admissible') \in Nat /\ Worst(Admissible) \in Nat
        /\ Worst(Admissible') <= Worst(Admissible)
    BY <2>1, ThreadSets, WorstMonotone, WorstType
  <2> QED BY <2>2 DEF Worst
<1>2. ASSUME NEW d \in Day
      PROVE  /\ Worst(CallingOf(d))' \in Nat /\ Worst(CallingOf(d)) \in Nat
             /\ Worst(CallingOf(d))' <= Worst(CallingOf(d))
  <2>1. CallingOf(d)' \in SUBSET CallingOf(d) /\ CallingOf(d) \in SUBSET Thread
    BY ThreadSets
  <2>2. /\ Worst(CallingOf(d)') \in Nat /\ Worst(CallingOf(d)) \in Nat
        /\ Worst(CallingOf(d)') <= Worst(CallingOf(d))
    BY <2>1, WorstMonotone, WorstType
  <2> QED BY <2>2 DEF Worst
<1>4. Worst(CallingOf(clock))' <= Worst(CallingOf(clock)) /\ Worst(CallingOf(clock))' \in Nat
      /\ Worst(CallingOf(clock)) \in Nat
  BY <1>0, <1>2
<1>5. (setBack * PerDay)' = setBack * PerDay /\ Worst(Thread)' = Worst(Thread)
      /\ PerDay' = PerDay /\ setBack * PerDay \in Nat /\ Worst(Thread) \in Nat
  BY BudgetNumbers DEF PerDay, Worst, Overshoot
<1>6. TodayInv'
  BY <1>0, <1>1, <1>4, <1>5 DEF TodayInv
<1>7. PastInv'
  BY <1>0, <1>2, <1>5, BudgetNumbers DEF PastInv
<1> QED BY <1>6, <1>7

\* A call is admitted.
LEMMA AdmitKeepsBill ==
    ASSUME TypeOK, DateInv, TodayInv, PastInv, NEW t \in Thread, CheckCap(t)
    PROVE  TodayInv' /\ PastInv'
<1>0. /\ clock \in Day /\ Day \subseteq Int /\ day \in Int
      /\ spent \in Nat /\ MaxCost \in Nat
      /\ \A d \in Day : Counted(d) \in Int
  <2>1. clock \in Day /\ Day \subseteq Int /\ day \in Int /\ spent \in Nat /\ MaxCost \in Nat
    BY BudgetAssumption DEF TypeOK, Day
  <2>2. \A d \in Day : Counted(d) \in Int
    BY CountedType
  <2> QED BY <2>1, <2>2
<1>1. /\ UNCHANGED <<spent, day, clock, setBack>> /\ pc[t] = "check"
      /\ \A d \in Day : Counted(d)' = Counted(d)
      /\ Counted(clock)' = Counted(clock)
  BY SameCounted DEF CheckCap, Goto, Counted, costs
<1>2. Admissible' = Admissible \ {t} /\ t \in Admissible
  BY DEF CheckCap, Goto, Admissible, TypeOK
<1>3. /\ CallingOf(clock)' = CallingOf(clock) \cup {t}
      /\ \A d \in Day : d # clock => CallingOf(d)' = CallingOf(d)
  BY DEF CheckCap, Goto, Calling, CallingOf, TypeOK
<1>4. Worst(Admissible') = Worst(Admissible) - MaxCost /\ Worst(Admissible) \in Nat
  BY <1>2, ThreadSets, WorstRemove, WorstType
<1>5. /\ CallingOf(clock) \in SUBSET Thread
      /\ Worst(CallingOf(clock)') <= Worst(CallingOf(clock)) + MaxCost
      /\ Worst(CallingOf(clock)) \in Nat /\ Worst(CallingOf(clock)') \in Nat
  <2>1. CallingOf(clock) \in SUBSET Thread /\ CallingOf(clock) \cup {t} \in SUBSET Thread
    BY ThreadSets
  <2> QED BY <1>3, <2>1, WorstAdd, WorstType
<1>6. /\ (setBack * PerDay)' = setBack * PerDay /\ Worst(Thread)' = Worst(Thread)
      /\ PerDay' = PerDay /\ setBack * PerDay \in Nat /\ Worst(Thread) \in Nat
  BY <1>1, BudgetNumbers DEF PerDay, Worst, Overshoot
<1>7. /\ Worst(Admissible)' = Worst(Admissible') /\ Worst(CallingOf(clock))' = Worst(CallingOf(clock)')
      /\ \A d \in Day : d # clock => Worst(CallingOf(d))' = Worst(CallingOf(d))
  BY <1>3 DEF Worst
<1>8. TodayInv'
  BY <1>0, <1>1, <1>4, <1>5, <1>6, <1>7 DEF TodayInv
<1>9. PastInv'
  BY <1>0, <1>1, <1>6, <1>7 DEF PastInv
<1> QED BY <1>8, <1>9

\* A call is paid, on the bill of the day it was admitted.
LEMMA AnswerKeepsBill ==
    ASSUME TypeOK, DateInv, TodayInv, PastInv, NEW t \in Thread,
           NEW cost \in 0 .. MaxCost, Answer(t, cost)
    PROVE  TodayInv' /\ PastInv'
<1>0. /\ clock \in Day /\ Day \subseteq Int /\ day \in Int
      /\ spent \in Nat /\ MaxCost \in Nat /\ admitted[t] \in Day /\ cost \in Nat /\ cost <= MaxCost
      /\ \A d \in Day : Counted(d) \in Int
  <2>1. /\ clock \in Day /\ Day \subseteq Int /\ day \in Int
        /\ spent \in Nat /\ MaxCost \in Nat /\ admitted[t] \in Day /\ cost \in Nat /\ cost <= MaxCost
    BY BudgetAssumption DEF TypeOK, Day
  <2>2. \A d \in Day : Counted(d) \in Int
    BY CountedType
  <2> QED BY <2>1, <2>2
<1>1. UNCHANGED <<day, clock, setBack, admitted>> /\ pc[t] = "calling" /\ spent' = spent + cost
  BY DEF Answer, Goto
<1>2. Admissible' \subseteq Admissible
  BY DEF Answer, Goto, Admissible, TypeOK
<1>3. /\ t \in CallingOf(admitted[t])
      /\ \A d \in Day : CallingOf(d)' = CallingOf(d) \ {t}
      /\ \A d \in Day : d # admitted[t] => CallingOf(d)' = CallingOf(d)
  BY DEF Answer, Goto, Calling, CallingOf, TypeOK
<1>4. \A d \in Day : Counted(d)' = IF d = admitted[t] THEN Counted(d) + cost ELSE Counted(d)
  <2> SUFFICES ASSUME NEW d \in Day
               PROVE  Counted(d)' = IF d = admitted[t] THEN Counted(d) + cost ELSE Counted(d)
    OBVIOUS
  <2>1. /\ uncounted'[d] = uncounted[d] /\ uncounted[d] \in Nat /\ bill[d] \in Nat
        /\ bill'[d] = IF d = admitted[t] THEN bill[d] + cost ELSE bill[d]
    BY <1>0 DEF Answer, TypeOK
  <2>2. MaxCost * uncounted[d] \in Int
    BY <1>0, <2>1
  <2> QED BY <1>0, <2>1, <2>2 DEF Counted
<1>5. Worst(Admissible') <= Worst(Admissible) /\ Worst(Admissible) \in Nat /\ Worst(Admissible') \in Nat
  <2>1. Admissible' \in SUBSET Admissible
    BY <1>2
  <2> QED BY <2>1, ThreadSets, WorstMonotone, WorstType
<1>6. ASSUME NEW d \in Day
      PROVE  /\ Counted(d)' + Worst(CallingOf(d)') <= Counted(d) + Worst(CallingOf(d))
             /\ Worst(CallingOf(d)') \in Nat
  <2>1. CallingOf(d) \in SUBSET Thread /\ CallingOf(d)' \in SUBSET Thread
    BY <1>3, ThreadSets
  <2>2. Worst(CallingOf(d)) \in Nat /\ Worst(CallingOf(d)') \in Nat
    BY <2>1, WorstType
  <2>3. CASE d = admitted[t]
    <3>1. Worst(CallingOf(d)') = Worst(CallingOf(d)) - MaxCost
      BY <1>3, <2>1, <2>3, WorstRemove
    <3>2. Counted(d)' = Counted(d) + cost /\ Counted(d) \in Int
      BY <1>0, <1>4, <2>3
    <3> QED BY <1>0, <2>2, <3>1, <3>2
  <2>4. CASE d # admitted[t]
    BY <1>0, <1>3, <1>4, <2>2, <2>4
  <2> QED BY <2>3, <2>4
<1>7. /\ (setBack * PerDay)' = setBack * PerDay /\ Worst(Thread)' = Worst(Thread)
      /\ PerDay' = PerDay /\ setBack * PerDay \in Nat /\ Worst(Thread) \in Nat /\ PerDay \in Nat
  BY <1>1, BudgetNumbers DEF PerDay, Worst, Overshoot
<1>8. /\ Worst(Admissible)' = Worst(Admissible')
      /\ \A d \in Day : Worst(CallingOf(d))' = Worst(CallingOf(d)') /\ Worst(CallingOf(d)) \in Nat
      /\ Worst(CallingOf(clock))' = Worst(CallingOf(clock)')
  BY <1>0, ThreadSets, WorstType DEF Worst
<1>d. \A d \in Day : Counted(d)' \in Int /\ Counted(d)' <= Counted(d) + cost
  BY <1>0, <1>4
<1>e. \A d \in Day : d = clock => Counted(clock)' = Counted(d)'
  BY <1>1 DEF Counted
<1>9. TodayInv'
  <2>1. Counted(clock)' <= Counted(clock) + cost /\ Counted(clock)' \in Int /\ Counted(clock) \in Int
    BY <1>0, <1>d, <1>e
  <2>2. day = clock => TodayInv'
    BY <1>0, <1>1, <1>7, <2>1 DEF TodayInv
  <2>3. /\ Counted(clock)' + Worst(CallingOf(clock)') <= Counted(clock) + Worst(CallingOf(clock))
        /\ Worst(CallingOf(clock)') \in Nat /\ Worst(CallingOf(clock)) \in Nat
    <3>1. PICK c \in Day : c = clock
      BY <1>0
    <3>2. Counted(clock)' = Counted(c)'
      BY <1>e, <3>1
    <3>3. /\ Counted(c)' + Worst(CallingOf(c)') <= Counted(c) + Worst(CallingOf(c))
          /\ Worst(CallingOf(c)') \in Nat
      BY <1>6
    <3>4. CallingOf(clock)' = CallingOf(c)'
      BY <1>1, <3>1 DEF CallingOf, Calling
    <3> QED BY <1>8, <3>1, <3>2, <3>3, <3>4
  <2>4. day < clock => TodayInv'
    BY <1>0, <1>1, <1>5, <1>7, <1>8, <2>1, <2>3 DEF TodayInv
  <2> QED BY <1>0, <2>2, <2>4 DEF DateInv
<1>10. PastInv'
  BY <1>0, <1>1, <1>6, <1>7, <1>8, <1>d DEF PastInv
<1> QED BY <1>9, <1>10

\* A roll-over, in one step or two: forward it empties the counter, backward it
\* costs PerDay.
LEMMA RollOverKeepsBill ==
    ASSUME TypeOK, DateInv, TodayInv, PastInv, OvershootBounded, NEW t \in Thread,
           RollOver(t) \/ RollClears(t) \/ StoreDate(t)
    PROVE  TodayInv' /\ PastInv'
<1>0. /\ clock \in Day /\ Day \subseteq Int /\ day \in Day
      /\ spent \in Nat /\ MaxCost \in Nat /\ seen[t] \in Day /\ setBack \in Nat
      /\ seen[t] <= clock /\ day <= clock
      /\ \A d \in Day : Counted(d) \in Int
  <2>1. /\ clock \in Day /\ day \in Day /\ Day \subseteq Int /\ spent \in Nat
        /\ seen[t] \in Day /\ setBack \in Nat /\ MaxCost \in Nat
    BY BudgetAssumption DEF TypeOK, Day
  <2>2. seen[t] <= clock /\ day <= clock
    BY DEF DateInv
  <2>3. \A d \in Day : Counted(d) \in Int
    BY CountedType
  <2> QED BY <2>1, <2>2, <2>3
<1>1. /\ UNCHANGED <<clock, costs, admitted>> /\ pc[t] \in {"roll", "store"}
      /\ \/ day' = seen[t] /\ spent' = (IF seen[t] # day THEN 0 ELSE spent)
         \/ day' = day /\ spent' = (IF seen[t] # day THEN 0 ELSE spent)
         \/ day' = seen[t] /\ spent' = spent
      /\ setBack' = setBack + (IF seen[t] < day THEN 1 ELSE 0)
  BY DEF RollOver, RollClears, StoreDate, Goto
<1>2. \A d \in Day : CallingOf(d)' = CallingOf(d) /\ Counted(d)' = Counted(d)
  <2>1. \A d \in Day : CallingOf(d)' = CallingOf(d)
    BY DEF RollOver, RollClears, StoreDate, Goto, Calling, CallingOf, TypeOK
  <2> QED BY <1>1, <2>1, SameCounted
<1>3. seen[t] < clock => Admissible' \subseteq Admissible
  BY <1>0, <1>1 DEF RollOver, RollClears, StoreDate, Goto, Admissible, TypeOK
<1> DEFINE C == Worst(CallingOf(clock))
           A == Worst(Admissible)
           AA == Worst(Admissible')
           B == setBack * PerDay
           BB == setBack' * PerDay
           N == Worst(Thread)
           K == Counted(clock)
<1>4. C \in Nat /\ A \in Nat /\ AA \in Nat /\ A <= N /\ AA <= N /\ (seen[t] < clock => AA <= A)
  <2>1. Admissible' \in SUBSET Thread
    BY DEF Admissible
  <2>2. seen[t] < clock => Admissible' \in SUBSET Admissible
    BY <1>3
  <2> QED BY <2>1, <2>2, ThreadSets, WorstMonotone, WorstType
<1>5. B \in Nat /\ N \in Nat /\ Overshoot \in Nat /\ PerDay \in Nat /\ PerDay = Overshoot + N
      /\ BB = (IF seen[t] < day THEN B + PerDay ELSE B)
  BY <1>0, <1>1, BudgetNumbers
<1>6. spent + C <= Overshoot
  <2>1. C <= Worst(Calling)
    BY ThreadSets, WorstMonotone
  <2>2. spent + Worst(Calling) <= Overshoot /\ Worst(Calling) \in Nat
    BY ThreadSets, WorstType DEF OvershootBounded, Worst
  <2> QED BY <1>0, <1>4, <1>5, <2>1, <2>2
<1>7. /\ Worst(Admissible)' = AA /\ Worst(CallingOf(clock))' = C /\ Worst(Thread)' = N
      /\ (setBack * PerDay)' = BB /\ PerDay' = PerDay
      /\ \A d \in Day : Worst(CallingOf(d))' = Worst(CallingOf(d)) /\ Worst(CallingOf(d)) \in Nat
  BY <1>0, <1>1, <1>2, ThreadSets, WorstType DEF Worst, PerDay, Overshoot
<1>8. K \in Int /\ Counted(clock)' = K
  BY <1>0, <1>1 DEF Counted, costs
<1>9. /\ day = clock => K <= B + N + spent
      /\ day < clock => K + C + A <= B + N
  BY DEF TodayInv
<1>10. PastInv'
  BY <1>0, <1>1, <1>2, <1>5, <1>7 DEF PastInv
<1> HIDE DEF C, A, AA, B, BB, N, K
<1>11. SUFFICES /\ day' = clock => K <= BB + N + spent'
                /\ day' < clock => K + C + AA <= BB + N
  BY <1>1, <1>7, <1>8, <1>10 DEF TodayInv
<1>12. CASE day = clock /\ seen[t] = clock
  BY <1>0, <1>1, <1>5, <1>9, <1>12
<1>13. CASE day = clock /\ seen[t] < clock
  BY <1>0, <1>1, <1>4, <1>5, <1>6, <1>8, <1>9, <1>13
<1>14. CASE day < clock /\ seen[t] = clock
  <2>1. CASE day' = clock
    <3>1. spent' \in Nat
      BY <1>0, <1>1
    <3>2. BB = B /\ clock \in Int /\ day \in Int
      BY <1>0, <1>5, <1>14
    <3>3. K <= B + N
      BY <1>4, <1>5, <1>8, <1>9, <1>14
    <3>4. ~ (day' < clock)
      BY <2>1, <3>2
    <3>5. K <= BB + N + spent'
      <4>1. B \in Nat /\ N \in Nat /\ K \in Int
        BY <1>5, <1>8
      <4>2. PICK x \in Nat : x = spent'
        BY <3>1
      <4>3. K <= B + N + x
        BY <3>3, <4>1
      <4> QED BY <3>2, <4>2, <4>3
    <3> QED BY <3>4, <3>5
  <2>2. CASE day' < clock
    <3>1. RollClears(t) /\ seen[t] # day
      BY <1>0, <1>14, <2>2 DEF RollOver, StoreDate
    <3>2. Admissible' \subseteq Admissible
      BY <1>0, <3>1 DEF RollClears, Goto, Admissible, TypeOK
    <3>3. AA <= A
      <4>1. Admissible' \in SUBSET Admissible
        BY <3>2
      <4> QED BY <4>1, ThreadSets, WorstMonotone DEF A, AA
    <3> QED BY <1>0, <1>4, <1>5, <1>8, <1>9, <1>14, <2>2, <3>3
  <2>3. day' = clock \/ day' < clock
    BY <1>0, <1>1, <1>14
  <2> QED BY <1>0, <2>1, <2>2, <2>3
<1>15. CASE day < clock /\ seen[t] < clock
  <2>1. day' < clock
    BY <1>1, <1>15
  <2>2. B <= BB
    BY <1>0, <1>5
  <2> QED BY <1>0, <1>4, <1>5, <1>8, <1>9, <1>15, <2>1, <2>2
<1>16. clock \in Int /\ day \in Int /\ seen[t] \in Int /\ seen[t] <= clock /\ day <= clock
  BY <1>0
<1>17. (day = clock \/ day < clock) /\ (seen[t] = clock \/ seen[t] < clock)
  BY <1>16
<1> QED BY <1>12, <1>13, <1>14, <1>15, <1>17

\* Midnight closes a day and opens one without a bill.
LEMMA MidnightKeepsBill ==
    ASSUME TypeOK, DateInv, TodayInv, PastInv, OvershootBounded, Midnight
    PROVE  TodayInv' /\ PastInv'
<1>0. /\ clock \in Day /\ clock + 1 \in Day /\ Day \subseteq Int
      /\ day \in Day /\ spent \in Nat /\ day <= clock
      /\ \A d \in Day : Counted(d) \in Int
  BY BudgetAssumption, CountedType DEF TypeOK, Day, DateInv, Midnight
<1>1. UNCHANGED <<spent, day, costs, setBack, pc, seen, admitted>> /\ clock' = clock + 1
  BY DEF Midnight, thread, ghost
<1>c. \A d \in Day : Counted(d)' = Counted(d)
  BY <1>1, SameCounted
<1>2. CallingOf(clock + 1) = {} /\ Counted(clock + 1) = 0
  <2>1. bill[clock + 1] = 0 /\ uncounted[clock + 1] = 0
    BY <1>0 DEF DateInv
  <2>2. CallingOf(clock + 1) = {}
    BY <1>0 DEF CallingOf, Calling, DateInv, TypeOK
  <2> QED BY <2>1, <2>2, BudgetAssumption DEF Counted
<1>3. Worst({}) = 0
  BY FS_EmptySet, BudgetAssumption DEF Worst
<1>4. \A d \in Day : CallingOf(d)' = CallingOf(d)
  BY <1>1 DEF CallingOf, Calling
<1>5. Worst(Admissible') \in Nat /\ Worst(Admissible') <= Worst(Thread)
  <2>1. Admissible' \in SUBSET Thread
    BY DEF Admissible
  <2> QED BY <2>1, WorstType
<1>6. /\ setBack * PerDay \in Nat /\ Worst(Thread) \in Nat /\ Overshoot \in Nat
      /\ PerDay \in Nat /\ PerDay = Overshoot + Worst(Thread)
  BY BudgetNumbers
<1>7. /\ Worst(Admissible)' = Worst(Admissible') /\ Worst(Thread)' = Worst(Thread)
      /\ (setBack * PerDay)' = setBack * PerDay /\ PerDay' = PerDay
      /\ \A d \in Day : Worst(CallingOf(d))' = Worst(CallingOf(d)) /\ Worst(CallingOf(d)) \in Nat
  BY <1>1, <1>4, ThreadSets, WorstType DEF Worst, PerDay, Overshoot
<1>8. Worst(CallingOf(clock))' = 0 /\ Counted(clock)' = 0
  <2>1. CallingOf(clock)' = CallingOf(clock + 1)
    BY <1>1 DEF CallingOf, Calling
  <2>2. Counted(clock)' = Counted(clock + 1)
    BY <1>1 DEF Counted, costs
  <2> QED BY <1>2, <1>3, <2>1, <2>2 DEF Worst
<1>9. TodayInv'
  BY <1>0, <1>1, <1>5, <1>6, <1>7, <1>8 DEF TodayInv
<1>10. spent + Worst(CallingOf(clock)) <= Overshoot /\ Worst(CallingOf(clock)) \in Nat
  <2>1. Worst(CallingOf(clock)) <= Worst(Calling) /\ Worst(CallingOf(clock)) \in Nat
    BY ThreadSets, WorstMonotone, WorstType
  <2>2. spent + Worst(Calling) <= Overshoot /\ Worst(Calling) \in Nat
    BY ThreadSets, WorstType DEF OvershootBounded, Worst
  <2> QED BY <1>0, <1>6, <2>1, <2>2
<1>11. Counted(clock) + Worst(CallingOf(clock)) <= setBack * PerDay + PerDay
  <2>1. Counted(clock) \in Int /\ Worst(Admissible) \in Nat
    BY <1>0, ThreadSets, WorstType
  <2> QED BY <1>0, <1>6, <1>10, <2>1 DEF TodayInv
<1>12. PastInv'
  BY <1>0, <1>1, <1>7, <1>11, <1>c DEF PastInv
<1> QED BY <1>9, <1>12

\* A failed request is billed, if at all, at no more than the counted maximum.
LEMMA UncountedKeepsBill ==
    ASSUME TypeOK, NEW t \in Thread, NEW cost \in 0 .. MaxCost, BilledUncounted(t, cost)
    PROVE  \A d \in Day : Counted(d)' <= Counted(d)
<1> SUFFICES ASSUME NEW d \in Day PROVE Counted(d)' <= Counted(d)
  OBVIOUS
<1>1. bill[d] \in Nat /\ uncounted[d] \in Nat /\ MaxCost \in Nat /\ cost \in Nat /\ cost <= MaxCost
  BY BudgetAssumption DEF TypeOK
<1>2. CASE d # admitted[t] \/ cost = 0
  <2>1. bill'[d] = bill[d] /\ uncounted'[d] = uncounted[d]
    BY <1>1, <1>2 DEF BilledUncounted, TypeOK
  <2>2. MaxCost * uncounted[d] \in Int
    BY <1>1
  <2> QED BY <1>1, <2>1, <2>2 DEF Counted
<1>3. CASE d = admitted[t] /\ cost > 0
  <2>1. bill'[d] = bill[d] + cost /\ uncounted'[d] = uncounted[d] + 1
    BY <1>1, <1>3 DEF BilledUncounted, TypeOK
  <2>2. MaxCost * (uncounted[d] + 1) = MaxCost * uncounted[d] + MaxCost /\ MaxCost * uncounted[d] \in Int
    BY <1>1
  <2> QED BY <1>1, <2>1, <2>2 DEF Counted
<1> QED BY <1>1, <1>2, <1>3

\* Every step keeps the bounds on the bills.
LEMMA NextBill ==
    ASSUME TypeOK, TypeOK', DateInv, TodayInv, PastInv, OvershootBounded, [Next]_vars
    PROVE  TodayInv' /\ PastInv'
<1>i. \A d \in Day : Counted(d) <= Counted(d)
  BY CountedType
<1>0. CASE UNCHANGED vars
  <2>1. UNCHANGED costs
    BY <1>0 DEF vars, ghost
  <2>2. \A d \in Day : Counted(d)' <= Counted(d)
    BY <1>i, <2>1, SameCounted
  <2> QED BY <1>0, <2>2, IdleStepKeepsBill DEF vars, thread, ghost, Admissible, CallingOf, Calling
<1> SUFFICES ASSUME NEW t \in Thread, Call(t) \/ Take(t) PROVE TodayInv' /\ PastInv'
  BY <1>0, MidnightKeepsBill DEF Next
<1>c. clock \in Int
  BY BudgetAssumption DEF TypeOK, Day
<1>1. ASSUME NEW to \in Pc \ {"check", "calling"}, pc' = [pc EXCEPT ![t] = to],
             \A u \in Thread : u # t => seen'[u] = seen[u] /\ admitted'[u] = admitted[u],
             to \in {"roll", "store"} => seen'[t] = clock,
             UNCHANGED <<spent, day, clock, setBack>>,
             \A d \in Day : Counted(d)' <= Counted(d)
      PROVE  TodayInv' /\ PastInv'
  <2>1. Admissible' \subseteq Admissible
    BY <1>1, <1>c DEF Admissible, TypeOK
  <2>2. \A d \in Day : CallingOf(d)' \subseteq CallingOf(d)
    BY <1>1 DEF CallingOf, Calling, TypeOK
  <2> QED BY <1>1, <2>1, <2>2, IdleStepKeepsBill
<1>2. CASE Take(t) \/ ReadDate(t) \/ ReadDateAgain(t) \/ CapReached(t) \/ Done(t)
  <2>1. UNCHANGED costs
    BY <1>2 DEF Take, ReadDate, ReadDateAgain, CapReached, Done, ghost
  <2>2. \A d \in Day : Counted(d)' <= Counted(d)
    BY <1>i, <2>1, SameCounted
  <2> QED
    BY <1>2, <1>1, <2>2 DEF Take, ReadDate, ReadDateAgain, CapReached, Done, Goto, Pc, ghost, TypeOK
<1>3. ASSUME NEW cost \in 0 .. MaxCost, CallFails(t, cost)
      PROVE  TodayInv' /\ PastInv'
  <2>1. \A d \in Day : Counted(d)' <= Counted(d)
    BY <1>3, UncountedKeepsBill DEF CallFails
  <2> QED BY <1>3, <1>1, <2>1 DEF CallFails, BilledUncounted, Goto, Pc, TypeOK
<1>4. ASSUME NEW cost \in 0 .. MaxCost, Retry(t, cost)
      PROVE  TodayInv' /\ PastInv'
  <2>1. \A d \in Day : Counted(d)' <= Counted(d)
    BY <1>4, UncountedKeepsBill DEF Retry
  <2> QED
    BY <1>4, <2>1, IdleStepKeepsBill DEF Retry, BilledUncounted, Admissible, CallingOf, Calling
<1> QED
  BY <1>2, <1>3, <1>4, AdmitKeepsBill, AnswerKeepsBill, RollOverKeepsBill DEF Call

\* What the calls admitted on a calendar day cost is bounded, however many
\* threads share the client and however late they act on the date they read.
THEOREM DayCostIsBounded == Spec => []DayCostBounded
<1>1. Init => DateInv /\ TodayInv /\ PastInv
  <2> SUFFICES ASSUME Init PROVE DateInv /\ TodayInv /\ PastInv
    OBVIOUS
  <2>1. TypeOK
    BY InitType
  <2>2. /\ spent = 0 /\ day = 0 /\ clock = 0 /\ setBack = 0 /\ 0 \in Day
        /\ Counted(clock) = 0 /\ Day \subseteq Nat
    BY BudgetAssumption DEF Init, Day, Counted
  <2>3. DateInv
    BY <2>2 DEF Init, DateInv
  <2>4. TodayInv /\ PastInv
    BY <2>1, <2>2, BudgetNumbers DEF TodayInv, PastInv
  <2> QED BY <2>3, <2>4
<1>2. /\ TypeOK /\ TypeOK' /\ OvershootBounded /\ DateInv /\ TodayInv /\ PastInv /\ [Next]_vars
      => DateInv' /\ TodayInv' /\ PastInv'
  BY NextDate, NextBill
<1>3. TypeOK /\ OvershootBounded /\ DateInv /\ TodayInv /\ PastInv => DayCostBounded
  <2> SUFFICES ASSUME TypeOK, OvershootBounded, DateInv, TodayInv, PastInv
               PROVE  DayCostBounded
    OBVIOUS
  <2> SUFFICES ASSUME NEW d \in Day
               PROVE  Counted(d) <= setBack * PerDay + PerDay
    <3>1. PerDay = Overshoot + MaxCost * Cardinality(Thread)
      BY DEF PerDay, Worst
    <3>2. ASSUME NEW d \in Day, Counted(d) <= setBack * PerDay + PerDay
          PROVE  bill[d] <= (1 + setBack) * PerDay + MaxCost * uncounted[d]
      <4>1. bill[d] \in Nat /\ uncounted[d] \in Nat
        BY DEF TypeOK
      <4>2. MaxCost * uncounted[d] \in Nat
        BY <4>1, BudgetAssumption
      <4>3. (1 + setBack) * PerDay = setBack * PerDay + PerDay /\ setBack * PerDay + PerDay \in Nat
        BY BudgetNumbers
      <4> QED BY <3>2, <4>1, <4>2, <4>3 DEF Counted
    <3> QED BY <3>1, <3>2 DEF DayCostBounded
  <2>0. /\ clock \in Int /\ day \in Int /\ d \in Int /\ Counted(d) \in Int /\ spent \in Nat
        /\ Worst(CallingOf(d)) \in Nat /\ Worst(Admissible) \in Nat /\ Worst(Calling) \in Nat
    <3>1. /\ clock \in Int /\ day \in Int /\ d \in Int /\ spent \in Nat
      BY BudgetAssumption DEF TypeOK, Day
    <3>2. Counted(d) \in Int
      BY CountedType
    <3>3. /\ Worst(CallingOf(d)) \in Nat /\ Worst(Admissible) \in Nat
          /\ Worst(Calling) \in Nat
      BY ThreadSets, WorstType
    <3> QED BY <3>1, <3>2, <3>3
  <2>1. /\ setBack * PerDay \in Nat /\ PerDay = Overshoot + Worst(Thread)
        /\ PerDay \in Nat /\ Overshoot \in Nat /\ Worst(Thread) \in Nat
    BY BudgetNumbers
  <2>2. spent <= Overshoot
    BY <2>0, <2>1 DEF OvershootBounded, Worst
  <2>3. CASE d < clock
    BY <2>0, <2>1, <2>3 DEF PastInv
  <2>4. CASE d = clock
    BY <2>0, <2>1, <2>2, <2>4 DEF TodayInv, DateInv
  <2>5. CASE d > clock
    BY <2>0, <2>1, <2>5, BudgetAssumption DEF DateInv, Counted
  <2> QED BY <2>0, <2>3, <2>4, <2>5
<1> QED BY <1>1, <1>2, <1>3, BudgetTypeCorrect, OvershootIsOneCallPerThread, PTL DEF Spec

=============================================================================

-------------------- MODULE ReconciliationWindow_proofs --------------------
(***************************************************************************)
(* Theorems about ReconciliationWindow, for every set of orders and every  *)
(* overlap, lookback and cap.                                              *)
(***************************************************************************)
EXTENDS ReconciliationWindow, TLAPS

\* The initial states satisfy the invariant.
LEMMA InitWindow == Init => WindowInv
<1> SUFFICES ASSUME Init PROVE WindowInv
  OBVIOUS
<1>1. TypeOK
  <2>1. ran \in BOOLEAN /\ busy \in BOOLEAN
    BY Zenon DEF Init
  <2> QED BY <2>1 DEF Init, TypeOK
<1>2. lastRun <= now /\ \A o \in Order : sub[o] <= now
  BY DEF Init
<1>3. ~busy
  BY DEF Init
<1> QED BY <1>1, <1>2, <1>3 DEF WindowInv

\* What happens to orders keeps the windows that have been read wide enough.
LEMMA OrderStep ==
    ASSUME WindowInv, NEW o \in Order,
           Place(o) \/ PlaceLost(o) \/ Recover(o) \/ CancelRow(o) \/ ClearRow(o)
             \/ ReAdopt(o) \/ End(o)
    PROVE  WindowInv'
<1>1. CASE Place(o)
  BY <1>1, WindowAssumption DEF Place, WindowInv, TypeOK, Prompt
<1>2. CASE PlaceLost(o)
  BY <1>2, WindowAssumption DEF PlaceLost, WindowInv, TypeOK, Prompt
<1>3. CASE Recover(o)
  BY <1>3, WindowAssumption DEF Recover, WindowInv, TypeOK, Prompt
<1>4. CASE CancelRow(o)
  BY <1>4, WindowAssumption DEF CancelRow, WindowInv, TypeOK, Prompt
<1>5. CASE ClearRow(o)
  BY <1>5, WindowAssumption DEF ClearRow, WindowInv, TypeOK, Prompt
<1>6. CASE ReAdopt(o)
  BY <1>6, WindowAssumption DEF ReAdopt, WindowInv, TypeOK, Prompt
<1>7. CASE End(o)
  BY <1>7, WindowAssumption DEF End, WindowInv, TypeOK, Prompt
<1> QED BY <1>1, <1>2, <1>3, <1>4, <1>5, <1>6, <1>7

\* The window a run reads reaches back far enough.
LEMMA ReadStep ==
    ASSUME WindowInv, ReadWindow
    PROVE  WindowInv'
<1>0. /\ now \in Nat /\ lastRun \in Nat /\ created \in [Order -> Nat] /\ sub \in [Order -> Nat]
      /\ since \in Int /\ busy \in BOOLEAN
  BY DEF WindowInv, TypeOK
<1>1. SinceLastRun \in Int /\ SinceLastRun <= now /\ (ran => SinceLastRun <= lastRun)
  BY <1>0, WindowAssumption DEF SinceLastRun, WindowInv
<1>2. PICK t \in {SinceLastRun} \cup {created[o] - Overlap : o \in OpenRows} :
         /\ WindowStart(t)
         /\ since' = IF t < now - MaxLookback THEN now - MaxLookback ELSE t
  BY DEF ReadWindow
<1>3. t \in Int
  BY <1>0, <1>1, <1>2, WindowAssumption DEF OpenRows
<1>4. t <= SinceLastRun /\ \A o \in OpenRows : t <= created[o] - Overlap
  BY <1>2 DEF WindowStart, ReachesOpenRows
<1>5. \A o \in Order : row[o] = "open" /\ Prompt(o) => t <= sub[o]
  BY <1>0, <1>3, <1>4, WindowAssumption DEF OpenRows, Prompt
<1>6. since' \in Int /\ since' <= now /\ (since' <= t \/ since' = now - MaxLookback)
  BY <1>0, <1>1, <1>2, <1>3, <1>4, WindowAssumption
<1>7. ran => since' <= lastRun \/ since' <= now - MaxLookback
  BY <1>0, <1>1, <1>3, <1>4, <1>6, WindowAssumption
<1>8. \A o \in Order : row[o] = "open" /\ Prompt(o) =>
        since' <= sub[o] \/ sub[o] <= now - MaxLookback
  BY <1>0, <1>3, <1>5, <1>6, WindowAssumption
<1> QED BY <1>0, <1>6, <1>7, <1>8 DEF ReadWindow, WindowInv, TypeOK, Prompt

\* The end of a run, and time.
LEMMA RunStep ==
    ASSUME WindowInv, Reconcile \/ RunFails \/ Tick
    PROVE  WindowInv'
<1>1. CASE Reconcile
  <2>1. row' \in [Order -> {"none", "open", "cancelled", "filled"}]
    BY <1>1 DEF Reconcile, WindowInv, TypeOK
  <2>2. ran' \in BOOLEAN /\ busy' \in BOOLEAN /\ ~busy'
    BY <1>1, Zenon DEF Reconcile
  <2>3. TypeOK'
    BY <1>1, <2>1, <2>2 DEF Reconcile, WindowInv, TypeOK
  <2>4. lastRun' <= now' /\ \A o \in Order : sub'[o] <= now'
    BY <1>1 DEF Reconcile, WindowInv, TypeOK
  <2> QED BY <2>2, <2>3, <2>4 DEF WindowInv
<1>2. CASE RunFails
  <2>1. busy' \in BOOLEAN /\ ~busy'
    BY <1>2, Zenon DEF RunFails
  <2>2. TypeOK' /\ lastRun' <= now' /\ \A o \in Order : sub'[o] <= now'
    BY <1>2, <2>1 DEF RunFails, WindowInv, TypeOK
  <2> QED BY <2>1, <2>2 DEF WindowInv
<1>3. CASE Tick
  BY <1>3, WindowAssumption DEF Tick, WindowInv, TypeOK, Prompt
<1> QED BY <1>1, <1>2, <1>3

\* Every step preserves the invariant.
LEMMA NextWindow == WindowInv /\ [Next]_vars => WindowInv'
<1> SUFFICES ASSUME WindowInv, [Next]_vars PROVE WindowInv'
  OBVIOUS
<1>1. CASE UNCHANGED vars
  BY <1>1 DEF vars, WindowInv, TypeOK, Prompt
<1> QED BY <1>1, OrderStep, ReadStep, RunStep DEF Next

\* A window that has been read stays wide enough until its run ends.
THEOREM WindowInvariance == Spec => []WindowInv
BY InitWindow, NextWindow, PTL DEF Spec

\* The run that completes next records the fill of every order tracked since
\* its submission: the promise behind the reach back to the oldest open row.
THEOREM FillOfTrackedOrderRecorded == Spec => NextRunRecordsFill
<1>1. WindowInv /\ [Next]_vars =>
        [Reconcile =>
           \A o \in Order :
              /\ row[o] = "open" /\ ord[o] = "filled" /\ Prompt(o)
              /\ sub[o] > now - MaxLookback
              => row'[o] = "filled"]_vars
  <2>1. SUFFICES ASSUME WindowInv, Reconcile, NEW o \in Order,
                        row[o] = "open", ord[o] = "filled", Prompt(o),
                        sub[o] > now - MaxLookback
                 PROVE  row'[o] = "filled"
    OBVIOUS
  <2>2. sub[o] \in Nat /\ since \in Int /\ now \in Nat
    BY <2>1 DEF WindowInv, TypeOK
  <2>3. since <= sub[o]
    BY <2>1, <2>2, WindowAssumption DEF WindowInv, Reconcile
  <2>4. o \in Activities
    BY <2>1, <2>2, <2>3, WindowAssumption DEF Activities
  <2> QED BY <2>1, <2>4 DEF Reconcile
<1> QED BY <1>1, WindowInvariance, PTL DEF Spec, NextRunRecordsFill

\* A fill of an order submitted since the last run needs no row to be found.
THEOREM FillSinceLastRunRecorded == Spec => RecentFillRecorded
<1>1. WindowInv /\ [Next]_vars =>
        [Reconcile =>
           \A o \in Order :
              /\ ran /\ ord[o] = "filled"
              /\ sub[o] >= lastRun
              /\ sub[o] > now - MaxLookback
              => row'[o] = "filled"]_vars
  <2>1. SUFFICES ASSUME WindowInv, Reconcile, NEW o \in Order,
                        ran, ord[o] = "filled", sub[o] >= lastRun,
                        sub[o] > now - MaxLookback
                 PROVE  row'[o] = "filled"
    OBVIOUS
  <2>2. sub[o] \in Nat /\ since \in Int /\ now \in Nat /\ lastRun \in Nat
    BY <2>1 DEF WindowInv, TypeOK
  <2>3. since <= sub[o]
    BY <2>1, <2>2, WindowAssumption DEF WindowInv, Reconcile
  <2>4. o \in Activities
    BY <2>1, <2>2, <2>3, WindowAssumption DEF Activities
  <2> QED BY <2>1, <2>4 DEF Reconcile
<1> QED BY <1>1, WindowInvariance, PTL DEF Spec, RecentFillRecorded

=============================================================================

-------------------------- MODULE OrderSerial_proofs --------------------------
(***************************************************************************)
(* What a stop achieves, and what holds of OrderLifecycle as long as       *)
(* handlers do not overlap (NoOverlap): for every set of suggestions,      *)
(* tickers and worker threads, every bound and every set of failing calls. *)
(***************************************************************************)
EXTENDS OrderLifecycle_proofs

-----------------------------------------------------------------------------
(* The shapes of a step of the auto-trade pass *)

\* The pass gives up and rolls back.
Quits(w) ==
    /\ tx'[w] = IdleTx
    /\ \E K : ord' = CancelRequested(K)
    /\ ord' = ord \/ tx[w].mode = "LIVE"

\* The pass goes on with what it has read.
Goes(w) ==
    /\ tx[w].pc \notin {"idle", "commit"}
    /\ tx[w].pc = "kill" => tx'[w].pc = "commit"
    /\ tx'[w].mode = tx[w].mode
    /\ tx'[w].wsug = tx[w].wsug
    /\ tx'[w].todo \subseteq tx[w].todo
    /\ tx'[w].pc # "idle"

\* It writes no row and creates no order.
MovesOn(w) ==
    /\ Goes(w)
    /\ tx'[w].wrow = tx[w].wrow
    /\ \E K : ord' = CancelRequested(K)
    /\ ord' = ord \/ tx[w].pc = "kill"
    /\ tx'[w].cur \in {None, tx[w].cur}
    /\ tx'[w].pc \in {"guard", "commit", "submit", "kill"}
    /\ tx'[w].pc \in {"submit", "kill"} =>
         tx[w].pc \in {"check", "submit", "record"} /\ tx'[w].cur = tx[w].cur
    /\ tx'[w].pc = "submit" => tx[w].pc = "check"

\* The broker takes the order.
Submits(w) ==
    /\ Goes(w)
    /\ tx'[w].wrow = tx[w].wrow
    /\ tx[w].pc = "submit" /\ tx'[w].pc \in {"record", "kill"}
    /\ tx'[w].cur = tx[w].cur
    /\ Placing(w) \in Coid
    /\ ord[Placing(w)] \in {"none", "working"}
    /\ ord' = [ord EXCEPT ![Placing(w)] = "working"]

\* The stale orders D of s's ticker are cancelled and lose their rows.
Replaces(w, s, D) ==
    /\ Goes(w)
    /\ tx[w].pc = "guard" /\ tx[w].mode = "LIVE" /\ s \in tx[w].todo
    /\ D \subseteq StaleRows(View(w), s)
    /\ ord' = CancelRequested({c \in D : Live(c)})
    /\ \A c \in Coid : tx'[w].wrow[c] = IF c \in D THEN "broker_cancelled" ELSE tx[w].wrow[c]
    /\ \/ tx'[w].pc = "guard" /\ tx'[w].cur = None
       \/ /\ tx'[w].pc = "check" /\ tx'[w].cur = s
          /\ D = StaleRows(View(w), s) /\ ~HasExecution(View(w), s)

\* The row of c becomes accepted_for_routing: re-adopted or inserted.
Adopts(w, c) ==
    /\ Goes(w)
    /\ tx[w].pc \in {"check", "record"} /\ c[1] = tx[w].cur
    /\ \/ View(w)[c] = "broker_cancelled"
       \/ row[c] = "none" /\ tx[w].pc = "record"
    /\ ord' = ord
    /\ \A d \in Coid : tx'[w].wrow[d] = IF d = c THEN "accepted_for_routing" ELSE tx[w].wrow[d]
    /\ tx'[w].pc = "guard" /\ tx'[w].cur = None

PassShape(w) ==
    \/ Quits(w) /\ tx[w].pc # "idle"
    \/ MovesOn(w)
    \/ Submits(w)
    \/ \E s \in Suggestion : \E D \in SUBSET Coid : Replaces(w, s, D)
    \/ \E c \in Coid : Adopts(w, c)

\* A step concerns one worker and leaves the committed rows alone.
StepOf(w) ==
    /\ tx' \in [Worker -> Tx]
    /\ \A v \in Worker : v # w => tx'[v] = tx[v]
    /\ UNCHANGED <<db, qty, clock>>

\* The pass goes on with the next suggestion and writes no row.
LEMMA ContinueMovesOn ==
    ASSUME IInv, NEW w \in Worker, tx[w].pc \notin {"idle", "commit", "kill"}, NEW s,
           Continue(w, s, tx[w].wrow),
           UNCHANGED <<db, ord, qty, clock, lock>>
    PROVE  StepOf(w) /\ MovesOn(w)
<1>0. PICK q : q = ContinueTx(tx[w], s, tx[w].wrow)
  OBVIOUS
<1>1. TypeOK /\ tx[w] \in Tx /\ tx[w].wrow \in RowWrites
  BY RowWritesType DEF IInv, TypeOK
<1>2. /\ q \in Tx /\ q.pc = "guard" /\ q.todo = tx[w].todo \ {s} /\ q.cur = None
      /\ q.wrow = tx[w].wrow /\ q.wsug = tx[w].wsug /\ q.mode = tx[w].mode
  BY <1>0, <1>1, ContinueUpdate
<1>3. Becomes(w, q)
  BY <1>0, Zenon DEF Continue, ContinueTx
<1>4. tx' \in [Worker -> Tx] /\ tx'[w] = q /\ \A v \in Worker : v # w => tx'[v] = tx[v]
  BY <1>1, <1>2, <1>3, BecomesFacts
<1>5. ord' = CancelRequested({})
  BY <1>1, CancelNone
<1> QED BY <1>2, <1>4, <1>5 DEF StepOf, MovesOn, Goes

\* The pass moves on to another place.
LEMMA PcMoves ==
    ASSUME IInv, NEW w \in Worker, tx[w].pc \notin {"idle", "commit", "kill"},
           NEW pc \in {"guard", "check", "submit", "record", "kill", "commit"},
           Becomes(w, [tx[w] EXCEPT !.pc = pc]), UNCHANGED <<db, qty, clock>>
    PROVE  /\ StepOf(w) /\ Goes(w) /\ tx'[w].pc = pc
           /\ tx'[w].wrow = tx[w].wrow /\ tx'[w].cur = tx[w].cur
<1>0. PICK q : q = [tx[w] EXCEPT !.pc = pc]
  OBVIOUS
<1>1. TypeOK /\ tx[w] \in Tx
  BY DEF IInv, TypeOK
<1>2. /\ q \in Tx /\ q.pc = pc /\ q.todo = tx[w].todo /\ q.cur = tx[w].cur
      /\ q.wrow = tx[w].wrow /\ q.wsug = tx[w].wsug /\ q.mode = tx[w].mode
  BY <1>0, <1>1, PcUpdate
<1>3. tx' \in [Worker -> Tx] /\ tx'[w] = q /\ \A v \in Worker : v # w => tx'[v] = tx[v]
  BY <1>0, <1>1, <1>2, BecomesFacts
<1> QED BY <1>2, <1>3 DEF StepOf, Goes

\* The pass rolls back.
LEMMA IdleQuits ==
    ASSUME IInv, NEW w \in Worker, Becomes(w, IdleTx), UNCHANGED <<db, qty, clock>>,
           NEW K, ord' = CancelRequested(K), ord' = ord \/ tx[w].mode = "LIVE"
    PROVE  StepOf(w) /\ Quits(w)
<1>1. TypeOK /\ IdleTx \in Tx
  BY IdleTxType DEF IInv
<1>2. tx' \in [Worker -> Tx] /\ tx'[w] = IdleTx /\ \A v \in Worker : v # w => tx'[v] = tx[v]
  BY <1>1, BecomesFacts
<1> QED BY <1>2 DEF StepOf, Quits

\* The guards in LIVE mode.
LEMMA GuardLiveShape ==
    ASSUME IInv, NEW w \in Worker, NEW s \in Suggestion, GuardLive(w, s)
    PROVE  StepOf(w) /\ \E D \in SUBSET Coid : Replaces(w, s, D)
<1> DEFINE f(D) == [c \in Coid |-> IF c \in D THEN "broker_cancelled" ELSE tx[w].wrow[c]]
           C == StaleRows(View(w), s)
<1>1. PICK D \in SUBSET C, ok \in BOOLEAN :
          /\ D # C => ~ok
          /\ ord' = CancelRequested({c \in D : Live(c)})
          /\ IF ok THEN Becomes(w, [tx[w] EXCEPT !.pc = "check", !.cur = s,
                                                 !.todo = @ \ {s}, !.wrow = f(D)])
                   ELSE Continue(w, s, f(D))
  BY DEF GuardLive
<1>2. /\ UNCHANGED <<db, qty, clock>> /\ s \in tx[w].todo /\ tx[w].pc = "guard"
      /\ tx[w].mode = "LIVE" /\ ~HasExecution(View(w), s)
  BY DEF GuardLive, Trades, Executed
<1>3. TypeOK /\ tx[w] \in Tx /\ f(D) \in RowWrites
  BY RowWritesType DEF IInv, TypeOK
<1>4. D \in SUBSET Coid /\ \A c \in Coid : f(D)[c] = IF c \in D THEN "broker_cancelled" ELSE tx[w].wrow[c]
  BY DEF StaleRows
<1> HIDE DEF f, C
<1>5. \E q \in Tx : /\ Becomes(w, q) /\ q.pc # "idle"
                    /\ q.todo \subseteq tx[w].todo /\ q.wrow = f(D)
                    /\ q.wsug = tx[w].wsug /\ q.mode = tx[w].mode
                    /\ \/ q.pc = "guard" /\ q.cur = None
                       \/ q.pc = "check" /\ q.cur = s /\ D = C
  <2>1. CASE ~ok
    <3>0. PICK q : q = ContinueTx(tx[w], s, f(D))
      OBVIOUS
    <3>1. Becomes(w, q)
      BY <1>1, <2>1, <3>0, Zenon DEF Continue, ContinueTx
    <3> QED BY <1>3, <3>0, <3>1, ContinueUpdate
  <2>2. CASE ok
    <3>0. PICK q : q = CheckTx(tx[w], s, f(D))
      OBVIOUS
    <3>1. Becomes(w, q)
      BY <1>1, <2>2, <3>0, Zenon DEF CheckTx
    <3> QED BY <1>1, <1>3, <2>2, <3>0, <3>1, CheckUpdate
  <2> QED BY <2>1, <2>2
<1>6. PICK q \in Tx : /\ Becomes(w, q) /\ q.pc # "idle"
                      /\ q.todo \subseteq tx[w].todo /\ q.wrow = f(D)
                      /\ q.wsug = tx[w].wsug /\ q.mode = tx[w].mode
                      /\ \/ q.pc = "guard" /\ q.cur = None
                         \/ q.pc = "check" /\ q.cur = s /\ D = C
  BY <1>5
<1>7. tx' \in [Worker -> Tx] /\ tx'[w] = q /\ \A v \in Worker : v # w => tx'[v] = tx[v]
  BY <1>3, <1>6, BecomesFacts
<1>8. StepOf(w) /\ Goes(w)
  BY <1>2, <1>6, <1>7 DEF StepOf, Goes
<1>9. Replaces(w, s, D)
  BY <1>1, <1>2, <1>4, <1>6, <1>7, <1>8 DEF Replaces, C
<1> QED BY <1>4, <1>8, <1>9

\* A cancelled order is re-adopted.
LEMMA ReAdoptShape ==
    ASSUME IInv, NEW w \in Worker, ReAdopt(w)
    PROVE  StepOf(w) /\ \E c \in Coid : Adopts(w, c)
<1> DEFINE s == tx[w].cur
<1>1. PICK n \in Idx :
         /\ IsLatest(n, WithStatus(View(w), s, "broker_cancelled"))
         /\ Continue(w, s, [tx[w].wrow EXCEPT ![<<s, n>>] = "accepted_for_routing"])
  BY DEF ReAdopt
<1> DEFINE c == <<s, n>>
           f == [tx[w].wrow EXCEPT ![c] = "accepted_for_routing"]
<1>2. /\ UNCHANGED <<db, qty, clock>> /\ ord' = ord /\ tx[w].pc = "check"
  BY DEF ReAdopt
<1>3. c \in Coid /\ c[1] = s /\ View(w)[c] = "broker_cancelled"
  <2>1. s \in Suggestion
    BY DEF IInv, PassInv, ReAdopt
  <2> QED BY <1>1, <2>1 DEF Coid, IsLatest, WithStatus
<1>4. TypeOK /\ tx[w] \in Tx /\ f \in RowWrites /\ tx[w].wrow \in RowWrites
  BY RowWritesType DEF IInv, TypeOK
<1>5. \A d \in Coid : f[d] = IF d = c THEN "accepted_for_routing" ELSE tx[w].wrow[d]
  BY <1>4 DEF RowWrites
<1> HIDE DEF f
<1>6. PICK q : q = ContinueTx(tx[w], s, f)
  OBVIOUS
<1>7. Becomes(w, q)
  BY <1>1, <1>6, Zenon DEF Continue, ContinueTx, f
<1>8. /\ q \in Tx /\ q.pc = "guard" /\ q.todo = tx[w].todo \ {s} /\ q.cur = None
      /\ q.wrow = f /\ q.wsug = tx[w].wsug /\ q.mode = tx[w].mode
  BY <1>4, <1>6, ContinueUpdate
<1>9. tx' \in [Worker -> Tx] /\ tx'[w] = q /\ \A v \in Worker : v # w => tx'[v] = tx[v]
  BY <1>4, <1>7, <1>8, BecomesFacts
<1> HIDE DEF c
<1>10. StepOf(w) /\ Goes(w)
  BY <1>2, <1>8, <1>9 DEF StepOf, Goes
<1>11. Adopts(w, c)
  BY <1>2, <1>3, <1>5, <1>8, <1>9, <1>10 DEF Adopts
<1> QED BY <1>3, <1>10, <1>11

\* The row of a placed order is added.
LEMMA RecordShape ==
    ASSUME IInv, NEW w \in Worker, RecordExecution(w)
    PROVE  StepOf(w) /\ \E c \in Coid : Adopts(w, c)
<1> DEFINE c == Placing(w)
<1>0. PICK q : q = RecordTx(tx[w], c)
  OBVIOUS
<1>1. TypeOK /\ tx[w] \in Tx /\ tx[w].wrow \in RowWrites
  BY RowWritesType DEF IInv, TypeOK
<1>2. c \in Coid /\ c[1] = tx[w].cur
  BY <1>1, TxFields DEF RecordExecution, IInv, PassInv, Placing, Coid
<1>3. Becomes(w, q) /\ UNCHANGED <<db, qty, clock>>
  BY <1>0, Zenon DEF RecordExecution, RecordTx
<1>a. ord' = ord /\ tx[w].pc = "record" /\ row[c] = "none"
  BY DEF RecordExecution
<1> HIDE DEF c
<1>4. /\ q \in Tx /\ q.pc = "guard" /\ q.todo = tx[w].todo /\ q.cur = None
      /\ q.wrow = [tx[w].wrow EXCEPT ![c] = "accepted_for_routing"]
      /\ q.wsug = tx[w].wsug /\ q.mode = tx[w].mode
  BY <1>0, <1>1, <1>2, RecordUpdate
<1>5. \A d \in Coid : q.wrow[d] = IF d = c THEN "accepted_for_routing" ELSE tx[w].wrow[d]
  BY <1>1, <1>4 DEF RowWrites
<1>6. tx' \in [Worker -> Tx] /\ tx'[w] = q /\ \A v \in Worker : v # w => tx'[v] = tx[v]
  BY <1>1, <1>3, <1>4, BecomesFacts
<1>7. StepOf(w) /\ Goes(w)
  BY <1>a, <1>3, <1>4, <1>6 DEF StepOf, Goes
<1>8. Adopts(w, c)
  BY <1>2, <1>a, <1>4, <1>5, <1>6, <1>7 DEF Adopts
<1> QED BY <1>2, <1>7, <1>8

\* Every step of the auto-trade pass has one of the shapes.
LEMMA PassShapes ==
    ASSUME IInv, NEW w \in Worker, PassStep(w)
    PROVE  StepOf(w) /\ PassShape(w)
<1>0. /\ TypeOK /\ tx[w] \in Tx
      /\ ord' = ord => ord' = CancelRequested({})
  BY CancelNone DEF IInv, TypeOK
<1>1. ASSUME NEW s \in Suggestion, GuardSkips(w, s)
      PROVE  StepOf(w) /\ PassShape(w)
  BY <1>1, ContinueMovesOn DEF GuardSkips, PassShape
<1>2. ASSUME NEW s \in Suggestion, GuardRaises(w, s)
      PROVE  StepOf(w) /\ PassShape(w)
  BY <1>2, IdleQuits DEF GuardRaises, PassShape, Trades
<1>3. ASSUME NEW s \in Suggestion, PlaceDryRun(w, s)
      PROVE  StepOf(w) /\ PassShape(w)
  <2>0. PICK q : q = [tx[w] EXCEPT !.todo = @ \ {s}, !.wdry = @ \cup {s}]
    OBVIOUS
  <2>1. tx[w].pc = "guard"
    BY <1>3 DEF PlaceDryRun
  <2>2. /\ q \in Tx /\ q.pc = "guard" /\ q.todo = tx[w].todo \ {s} /\ q.cur = tx[w].cur
        /\ q.wrow = tx[w].wrow /\ q.wsug = tx[w].wsug /\ q.mode = tx[w].mode
    BY <1>0, <2>0, <2>1, DryRunUpdate, Zenon
  <2>3. Becomes(w, q) /\ UNCHANGED <<db, qty, clock>> /\ ord' = ord
    BY <1>3, <2>0 DEF PlaceDryRun
  <2>4. tx' \in [Worker -> Tx] /\ tx'[w] = q /\ \A v \in Worker : v # w => tx'[v] = tx[v]
    BY <1>0, <2>2, <2>3, BecomesFacts
  <2> QED BY <1>0, <2>1, <2>2, <2>3, <2>4 DEF StepOf, PassShape, MovesOn, Goes
<1>4. CASE ChooseClientOrderId(w)
  <2> DEFINE n == NextClientOrderId(View(w), tx[w].cur)
  <2>0. UNCHANGED <<db, ord, qty, clock, lock>> /\ tx[w].pc = "check"
    BY <1>4 DEF ChooseClientOrderId
  <2>1. CASE n \notin Idx
    BY <1>4, <2>0, <2>1, ContinueMovesOn DEF ChooseClientOrderId, PassShape
  <2>2. CASE n \in Idx
    <3> HIDE DEF n
    <3>0. PICK q : q = SubmitTx(tx[w], n)
      OBVIOUS
    <3>1. /\ q \in Tx /\ q.pc = "submit" /\ q.todo = tx[w].todo /\ q.cur = tx[w].cur
          /\ q.wrow = tx[w].wrow /\ q.wsug = tx[w].wsug /\ q.mode = tx[w].mode
      BY <1>0, <2>2, <3>0, SubmitUpdate
    <3>2. Becomes(w, q)
      BY <1>4, <2>2, <3>0, Zenon DEF ChooseClientOrderId, n, SubmitTx
    <3>3. tx' \in [Worker -> Tx] /\ tx'[w] = q /\ \A v \in Worker : v # w => tx'[v] = tx[v]
      BY <1>0, <3>1, <3>2, BecomesFacts
    <3> QED BY <1>0, <2>0, <3>1, <3>3 DEF StepOf, PassShape, MovesOn, Goes
  <2> QED BY <2>1, <2>2
<1>p. tx[w].pc = "submit" => Placing(w) \in Coid
  BY <1>0, TxFields DEF IInv, PassInv, Placing, Coid
<1>5. CASE SubmitOrder(w)
  BY <1>5, <1>p, PcMoves DEF SubmitOrder, PassShape, Submits
<1>6. CASE SubmitRefused(w)
  BY <1>6, ContinueMovesOn DEF SubmitRefused, PassShape
<1>7. CASE SubmitError(w)
  <2>1. StepOf(w) /\ Goes(w) /\ tx'[w].pc = "kill" /\ tx'[w].wrow = tx[w].wrow /\ tx'[w].cur = tx[w].cur
    BY <1>7, PcMoves DEF SubmitError
  <2>2. CASE ord' = ord
    BY <1>0, <1>7, <2>1, <2>2 DEF SubmitError, PassShape, MovesOn
  <2>3. CASE ord[Placing(w)] = "none" /\ ord' = [ord EXCEPT ![Placing(w)] = "working"]
    BY <1>7, <1>p, <2>1, <2>3 DEF SubmitError, PassShape, Submits
  <2> QED BY <1>7, <2>2, <2>3 DEF SubmitError
<1>8. CASE RecordConflict(w)
  BY <1>0, <1>8, IdleQuits DEF RecordConflict, PassShape
<1>9. CASE ReadbackFails(w)
  <2>1. StepOf(w) /\ Goes(w) /\ tx'[w].pc = "kill" /\ tx'[w].wrow = tx[w].wrow /\ tx'[w].cur = tx[w].cur
    BY <1>9, PcMoves DEF ReadbackFails
  <2> QED BY <1>0, <1>9, <2>1 DEF ReadbackFails, PassShape, MovesOn
<1>10. CASE TriggerKillSwitch(w)
  <2>0. PICK q : q = [tx[w] EXCEPT !.pc = "commit", !.wmode = "OFF"]
    OBVIOUS
  <2>1. /\ q \in Tx /\ q.pc = "commit" /\ q.todo = tx[w].todo /\ q.cur = tx[w].cur
        /\ q.wrow = tx[w].wrow /\ q.wsug = tx[w].wsug /\ q.mode = tx[w].mode
    BY <1>0, <2>0, KillUpdate
  <2>2. /\ Becomes(w, q) /\ UNCHANGED <<db, qty, clock>>
        /\ tx[w].pc = "kill" /\ \E K : ord' = CancelRequested(K)
    BY <1>10, <2>0 DEF TriggerKillSwitch
  <2>3. tx' \in [Worker -> Tx] /\ tx'[w] = q /\ \A v \in Worker : v # w => tx'[v] = tx[v]
    BY <1>0, <2>1, <2>2, BecomesFacts
  <2> QED BY <2>1, <2>2, <2>3 DEF StepOf, PassShape, MovesOn, Goes
<1>11. CASE EndPass(w)
  <2>1. StepOf(w) /\ Goes(w) /\ tx'[w].pc = "commit" /\ tx'[w].wrow = tx[w].wrow /\ tx'[w].cur = tx[w].cur
    BY <1>11, PcMoves DEF EndPass
  <2> QED BY <1>0, <1>11, <2>1 DEF EndPass, PassShape, MovesOn
<1>12. ASSUME NEW s \in Suggestion, GuardLive(w, s)
       PROVE  StepOf(w) /\ PassShape(w)
  BY <1>12, GuardLiveShape DEF PassShape
<1>13. CASE ReAdopt(w) \/ RecordExecution(w)
  BY <1>13, ReAdoptShape, RecordShape DEF PassShape
<1> QED BY <1>1, <1>2, <1>3, <1>4, <1>5, <1>6, <1>7, <1>8, <1>9, <1>10, <1>11, <1>12, <1>13,
           Zenon DEF PassStep

-----------------------------------------------------------------------------
(* The shapes of the other steps of a worker *)

\* A handler runs and holds its writes back.
Handles(w) ==
    /\ tx[w].pc = "idle" /\ tx'[w].pc = "commit" /\ tx'[w].mode = "OFF"
    /\ \E K : ord' = CancelRequested(K)
    /\ GoodWrites(tx'[w].wrow, tx'[w].ins, tx'[w].wsug)

\* The start of a handler has that shape.
LEMMA EffectShape ==
    ASSUME IInv, NEW w \in Worker, HandlerEffect(w)
    PROVE  StepOf(w) /\ Handles(w)
<1>1. PICK f \in RowWrites, i \in SUBSET Coid, p \in SUBSET Coid, g \in SugWrites,
           m \in Mode \cup {Keep}, K \in SUBSET Coid :
             /\ Handle(w, Writes(f, i, p, g, m))
             /\ ord' = CancelRequested(K)
             /\ GoodWrites(f, i, g)
  BY DEF HandlerEffect
<1>2. PICK q : q = [Writes(f, i, p, g, m) EXCEPT !.pc = "commit"]
  OBVIOUS
<1>3. Writes(f, i, p, g, m) \in Tx /\ Writes(f, i, p, g, m).mode = "OFF"
  BY WritesType DEF Writes
<1>4. q \in Tx /\ q.pc = "commit" /\ q.wrow = f /\ q.ins = i /\ q.wsug = g /\ q.mode = "OFF"
  BY <1>2, <1>3, PcUpdate, WritesFields
<1>5. Becomes(w, q) /\ UNCHANGED <<db, clock, lock, qty>> /\ tx[w].pc = "idle"
  BY <1>1, <1>2, Zenon DEF Handle
<1>6. tx' \in [Worker -> Tx] /\ tx'[w] = q /\ \A v \in Worker : v # w => tx'[v] = tx[v]
  BY <1>4, <1>5, BecomesFacts DEF IInv
<1> QED BY <1>1, <1>4, <1>5, <1>6 DEF StepOf, Handles

\* A pass begins.
Begins(w) ==
    /\ tx[w].pc = "idle" /\ tx'[w].pc = "guard"
    /\ tx'[w].mode = mode /\ mode # "OFF"
    /\ tx'[w].todo = FetchAcceptedUnexecuted /\ tx'[w].cur = None
    /\ tx'[w].wrow = NoRows /\ tx'[w].wsug = NoSugs /\ tx'[w].ins = {}
    /\ ord' = ord

\* BeginPass has that shape.
LEMMA BeginShape ==
    ASSUME IInv, NEW w \in Worker, BeginPass(w)
    PROVE  StepOf(w) /\ Begins(w)
<1>0. PICK q : q = BeginTx(tx[w], PassMode, FetchAcceptedUnexecuted)
  OBVIOUS
<1>1. PassMode \in Mode /\ FetchAcceptedUnexecuted \in SUBSET Suggestion /\ tx[w] \in Tx
  BY DEF IInv, TypeOK, PassMode, FetchAcceptedUnexecuted
<1>2. /\ q \in Tx /\ q.pc = "guard" /\ q.mode = PassMode /\ q.todo = FetchAcceptedUnexecuted
      /\ q.cur = tx[w].cur /\ q.wrow = tx[w].wrow /\ q.wsug = tx[w].wsug /\ q.ins = tx[w].ins
  BY <1>0, <1>1, BeginUpdate
<1>3. /\ tx[w].pc = "idle" /\ tx[w].cur = None /\ tx[w].wrow = NoRows /\ tx[w].wsug = NoSugs
      /\ tx[w].ins = {}
  BY DEF BeginPass, IInv, PassInv, IdleTx, NoRows, NoSugs
<1>4. Becomes(w, q) /\ UNCHANGED <<db, ord, qty, clock, lock>> /\ mode # "OFF"
  BY <1>0, Zenon DEF BeginPass, BeginTx, PassMode
<1>5. tx' \in [Worker -> Tx] /\ tx'[w] = q /\ \A v \in Worker : v # w => tx'[v] = tx[v]
  BY <1>2, <1>4, BecomesFacts DEF IInv
<1> QED BY <1>2, <1>3, <1>4, <1>5 DEF StepOf, Begins, PassMode

\* What a worker does besides committing, in one of these shapes.
LEMMA WorkerShapes ==
    ASSUME IInv, NEW w \in Worker, Handler(w) \/ PassStep(w) \/ Rollback(w)
    PROVE  StepOf(w) /\ (Handles(w) \/ Begins(w) \/ PassShape(w))
<1>1. CASE Handler(w)
  BY <1>1, HandlerShape, EffectShape, BeginShape DEF IInv
<1>2. CASE PassStep(w)
  BY <1>2, PassShapes
<1>3. CASE Rollback(w)
  <2>1. ord' = CancelRequested({}) /\ UNCHANGED <<db, qty, clock>>
    BY <1>3, CancelNone DEF Rollback, IInv
  <2> QED BY <1>3, <2>1, IdleQuits DEF Rollback, PassShape
<1> QED BY <1>1, <1>2, <1>3

\* A commit ends the transaction of one worker.
LEMMA CommitShape ==
    ASSUME IInv, NEW w \in Worker, Commit(w)
    PROVE  /\ tx' \in [Worker -> Tx]
           /\ tx'[w] = IdleTx
           /\ \A v \in Worker : v # w => tx'[v] = tx[v]
BY IdleTxType, BecomesFacts DEF IInv, Commit

\* An idle transaction writes nothing.
LEMMA IdleFields ==
    /\ IdleTx.pc = "idle" /\ IdleTx.mode = "OFF" /\ IdleTx.todo = {} /\ IdleTx.cur = None
    /\ IdleTx.wrow = NoRows /\ IdleTx.wsug = NoSugs
BY DEF IdleTx, NoRows, NoSugs

-----------------------------------------------------------------------------
(* Handlers that do not overlap *)

\* While one worker acts, the others are idle.
LEMMA Alone ==
    ASSUME IInv, NoOverlap, NoOverlap', NEW w \in Worker,
           \A v \in Worker : v # w => tx'[v] = tx[v],
           tx[w].pc # "idle" \/ tx'[w].pc # "idle"
    PROVE  \A v \in Worker : v # w => tx[v] = IdleTx /\ tx'[v] = IdleTx
<1>1. SUFFICES ASSUME NEW v \in Worker, v # w PROVE tx[v].pc = "idle"
  BY DEF IInv, PassInv
<1> QED BY <1>1 DEF NoOverlap

\* The shapes of a step are steps of a worker that is, or becomes, busy.
LEMMA ShapeBusy ==
    ASSUME NEW w \in Worker, Handles(w) \/ Begins(w) \/ PassShape(w)
    PROVE  tx[w].pc # "idle" \/ tx'[w].pc # "idle"
BY DEF Handles, Begins, PassShape, MovesOn, Submits, Replaces, Adopts, Goes

\* No step but a submission creates an order, and that one re-opens none.
LEMMA ShapeOrders ==
    ASSUME IInv, NEW w \in Worker, Handles(w) \/ Begins(w) \/ PassShape(w)
    PROVE  /\ \A c \in Coid : ord'[c] = "working" => ord[c] \in {"none", "working"}
           /\ ~Submits(w) => \A c \in Coid : ord[c] = "none" => ord'[c] = "none"
           /\ \A c \in Coid : qty' = qty /\ Filled(c) => Filled(c)'
<1>0. ord \in [Coid -> OrderStatus]
  BY DEF IInv, TypeOK
<1>1. CASE \E K : ord' = CancelRequested(K)
  <2>1. PICK K : ord' = CancelRequested(K)
    BY <1>1
  <2> QED BY <2>1 DEF CancelRequested, Filled
<1>2. CASE ord' = ord
  BY <1>2 DEF Filled
<1>3. CASE Submits(w)
  BY <1>0, <1>3 DEF Submits, Filled
<1> QED BY <1>1, <1>2, <1>3 DEF Handles, Begins, PassShape, Quits, MovesOn, Replaces, Adopts

\* The broker and the calendar leave the transactions and the rows alone, and
\* no order begins to work.
LEMMA EnvironmentShape ==
    ASSUME IInv, Environment
    PROVE  /\ UNCHANGED <<tx, status, row, mode>>
           /\ \A c \in Coid : ord'[c] \in {ord[c], "closed"}
           /\ \A c \in Coid : ord'[c] = "none" <=> ord[c] = "none"
           /\ \A c \in Coid : Filled(c) => Filled(c)'
<1>0. ord \in [Coid -> OrderStatus] /\ qty \in [Coid -> 0..2]
  BY DEF IInv, TypeOK
<1>1. ASSUME NEW c \in Coid, Execute(c) \/ CloseAtBroker(c)
      PROVE  /\ UNCHANGED <<tx, status, row, mode>>
             /\ \A d \in Coid : ord'[d] \in {ord[d], "closed"}
             /\ \A d \in Coid : ord'[d] = "none" <=> ord[d] = "none"
             /\ \A d \in Coid : Filled(d) => Filled(d)'
  BY <1>0, <1>1 DEF Execute, CloseAtBroker, Live, Filled, db
<1>2. CASE NewDay \/ AdvanceClock
  BY <1>2 DEF NewDay, AdvanceClock, Filled
<1> QED BY <1>1, <1>2 DEF Environment

-----------------------------------------------------------------------------
(* A stop and the passes under way *)

\* Only a LIVE pass comes near a submission.
LiveInv == \A w \in Worker : tx[w].pc \in {"check", "submit", "record"} => tx[w].mode = "LIVE"

\* What a step of a pass does to the suggestions it may still submit.
LEMMA ShapeDue ==
    ASSUME IInv, LiveInv, NEW w \in Worker, StepOf(w), PassShape(w)
    PROVE  /\ tx'[w].pc \in {"check", "submit", "record"} => tx'[w].mode = "LIVE"
           /\ PassDue(w)' \subseteq PassDue(w)
           /\ Submits(w) => Placing(w)[1] \in PassDue(w) \ PassDue(w)'
<1>1. /\ tx[w].pc \in {"check", "submit", "record"} => tx[w].mode = "LIVE"
      /\ tx[w].cur \notin tx[w].todo
      /\ tx[w] \in Tx /\ tx'[w] \in Tx
  BY DEF LiveInv, IInv, PassInv, TypeOK, StepOf
<1>2. CASE Quits(w)
  <2>1. tx'[w].pc = "idle"
    BY <1>2, IdleFields DEF Quits
  <2>2. tx[w].pc # "submit"  \/ ~Submits(w)
    BY <2>1 DEF Submits, Goes
  <2> QED BY <2>1, <2>2 DEF PassDue, Submits
<1>3. CASE MovesOn(w)
  <2>1. ~Submits(w) \/ tx'[w].pc = "kill"
    BY <1>3 DEF MovesOn, Submits
  <2>2. CASE tx'[w].pc \in {"commit", "kill"}
    BY <1>1, <2>2 DEF PassDue, Submits, Placing
  <2>3. CASE tx'[w].pc = "guard"
    <3>1. tx[w].pc \in {"guard", "check", "submit", "record"}
      BY <1>1, <1>3, <2>3, TxFields DEF MovesOn, Goes
    <3> QED BY <1>3, <2>1, <2>3, <3>1 DEF PassDue, MovesOn, Goes
  <2>4. CASE tx'[w].pc = "submit"
    BY <1>1, <1>3, <2>1, <2>4 DEF PassDue, MovesOn, Goes
  <2> QED BY <1>3, <2>2, <2>3, <2>4 DEF MovesOn
<1>4. CASE Submits(w)
  BY <1>1, <1>4 DEF Submits, Goes, PassDue, Placing
<1>5. ASSUME NEW s \in Suggestion, NEW D, Replaces(w, s, D)
      PROVE  /\ tx'[w].pc \in {"check", "submit", "record"} => tx'[w].mode = "LIVE"
             /\ PassDue(w)' \subseteq PassDue(w)
             /\ ~Submits(w)
  BY <1>5 DEF Replaces, Goes, PassDue, Submits
<1>6. ASSUME NEW c, Adopts(w, c)
      PROVE  /\ tx'[w].pc \in {"check", "submit", "record"} => tx'[w].mode = "LIVE"
             /\ PassDue(w)' \subseteq PassDue(w)
             /\ ~Submits(w)
  BY <1>1, <1>6 DEF Adopts, Goes, PassDue, Submits
<1> QED BY <1>2, <1>3, <1>4, <1>5, <1>6, Zenon DEF PassShape

\* Every step keeps LiveInv.
LEMMA NextLive == IInv /\ LiveInv /\ [Next]_vars => LiveInv'
<1> SUFFICES ASSUME IInv, LiveInv, [Next]_vars, NEW v \in Worker,
                    tx'[v].pc \in {"check", "submit", "record"}
             PROVE  tx'[v].mode = "LIVE"
  BY DEF LiveInv
<1>1. ASSUME tx'[v] = tx[v] PROVE tx'[v].mode = "LIVE"
  BY <1>1 DEF LiveInv
<1>2. ASSUME NEW w \in Worker, Handler(w) \/ PassStep(w) \/ Rollback(w)
      PROVE  tx'[v].mode = "LIVE"
  <2>1. StepOf(w) /\ (Handles(w) \/ Begins(w) \/ PassShape(w))
    BY <1>2, WorkerShapes
  <2>2. CASE v # w
    BY <1>1, <2>1, <2>2 DEF StepOf
  <2>3. CASE v = w
    <3>1. ~Handles(w) /\ ~Begins(w)
      BY <2>3 DEF Handles, Begins
    <3> QED BY <2>1, <2>3, <3>1, ShapeDue
  <2> QED BY <2>2, <2>3
<1>3. ASSUME NEW w \in Worker, Commit(w)
      PROVE  tx'[v].mode = "LIVE"
  BY <1>1, <1>3, CommitShape, IdleFields
<1>4. CASE Environment \/ UNCHANGED vars
  BY <1>1, <1>4, EnvironmentShape DEF vars
<1> QED BY <1>2, <1>3, <1>4, Zenon DEF Next

\* A stop freezes automated trading, whatever overlaps with it: while the mode is
\* OFF, run_auto_trade_pass takes up no suggestion, and an order is created only
\* by a pass that was under way, one for each suggestion left on its list.
THEOREM StopFreezes == Spec => StopFreezesOrders
<1>1. Init => LiveInv
  <2> SUFFICES ASSUME Init PROVE LiveInv
    OBVIOUS
  <2>1. \A w \in Worker : tx[w] = IdleTx
    BY DEF Init
  <2> QED BY <2>1, IdleFields DEF LiveInv
<1>2. IInv /\ LiveInv /\ [Next]_vars =>
        [mode = "OFF" =>
           /\ \A w \in Worker : PassDue(w)' \subseteq PassDue(w)
           /\ \A c \in Coid : ord[c] = "none" /\ ord'[c] # "none" =>
                \E w \in Worker : c[1] \in PassDue(w) \ PassDue(w)']_vars
  <2> SUFFICES ASSUME IInv, LiveInv, Next, mode = "OFF"
               PROVE  /\ \A v \in Worker : PassDue(v)' \subseteq PassDue(v)
                      /\ \A c \in Coid : ord[c] = "none" /\ ord'[c] # "none" =>
                           \E v \in Worker : c[1] \in PassDue(v) \ PassDue(v)'
    OBVIOUS
  <2>1. ASSUME NEW v \in Worker, tx'[v] = tx[v] PROVE PassDue(v)' = PassDue(v)
    BY <2>1 DEF PassDue
  <2>2. ASSUME NEW w \in Worker, Handler(w) \/ PassStep(w) \/ Rollback(w)
        PROVE  /\ \A v \in Worker : PassDue(v)' \subseteq PassDue(v)
               /\ \A c \in Coid : ord[c] = "none" /\ ord'[c] # "none" =>
                    \E v \in Worker : c[1] \in PassDue(v) \ PassDue(v)'
    <3>1. StepOf(w) /\ (Handles(w) \/ PassShape(w))
      BY <2>2, WorkerShapes DEF Begins
    <3>2. PassDue(w)' \subseteq PassDue(w)
      <4>1. CASE Handles(w)
        BY <4>1 DEF Handles, PassDue
      <4> QED BY <3>1, <4>1, ShapeDue
    <3>3. \A v \in Worker : PassDue(v)' \subseteq PassDue(v)
      BY <2>1, <3>1, <3>2 DEF StepOf
    <3>4. ASSUME NEW c \in Coid, ord[c] = "none", ord'[c] # "none"
          PROVE  c[1] \in PassDue(w) \ PassDue(w)'
      <4>1. Submits(w)
        BY <3>1, <3>4, ShapeOrders
      <4>2. c = Placing(w)
        BY <3>4, <4>1 DEF Submits, IInv, TypeOK
      <4>3. PassShape(w)
        BY <4>1 DEF PassShape
      <4> QED BY <3>1, <4>1, <4>2, <4>3, ShapeDue
    <3> QED BY <3>3, <3>4
  <2>3. ASSUME NEW w \in Worker, Commit(w)
        PROVE  /\ \A v \in Worker : PassDue(v)' \subseteq PassDue(v)
               /\ ord' = ord
    <3>1. PassDue(w)' = {}
      BY <2>3, CommitShape, IdleFields DEF PassDue
    <3> QED BY <2>1, <2>3, <3>1, CommitShape DEF Commit
  <2>4. CASE Environment
    BY <2>1, <2>4, EnvironmentShape
  <2> QED BY <2>2, <2>3, <2>4, Zenon DEF Next
<1> QED BY <1>1, <1>2, Invariance, NextLive, PTL DEF Spec, StopFreezesOrders

-----------------------------------------------------------------------------
(* The mode of a pass *)

ModeAll == \A w \in Worker : ModeInv(w)

\* Every step keeps the mode of a pass the committed one.
LEMMA NextMode == IInv /\ ModeAll /\ NoOverlap /\ NoOverlap' /\ [Next]_vars => ModeAll'
<1> SUFFICES ASSUME IInv, ModeAll, NoOverlap, NoOverlap', [Next]_vars PROVE ModeAll'
  OBVIOUS
<1>1. ASSUME NEW v \in Worker, tx'[v] = IdleTx PROVE ModeInv(v)'
  BY <1>1, IdleFields DEF ModeInv
<1>2. ASSUME NEW w \in Worker, Handler(w) \/ PassStep(w) \/ Rollback(w)
      PROVE  ModeAll'
  <2>1. StepOf(w) /\ (Handles(w) \/ Begins(w) \/ PassShape(w))
    BY <1>2, WorkerShapes
  <2>2. \A v \in Worker : v # w => tx'[v] = IdleTx
    BY <2>1, Alone, ShapeBusy DEF StepOf
  <2>3. mode' = mode /\ ModeInv(w)
    BY <2>1 DEF StepOf, db, ModeAll
  <2>4. ModeInv(w)'
    <3>1. CASE Handles(w) \/ Begins(w)
      BY <2>3, <3>1 DEF Handles, Begins, ModeInv
    <3>2. CASE Quits(w)
      BY <1>1, <3>2 DEF Quits
    <3>3. CASE MovesOn(w) \/ Submits(w)
      BY <2>3, <3>3 DEF MovesOn, Submits, Goes, ModeInv
    <3>4. ASSUME NEW s, NEW D, Replaces(w, s, D) PROVE ModeInv(w)'
      BY <2>3, <3>4 DEF Replaces, Goes, ModeInv
    <3>5. ASSUME NEW c, Adopts(w, c) PROVE ModeInv(w)'
      BY <2>3, <3>5 DEF Adopts, Goes, ModeInv
    <3> QED BY <2>1, <3>1, <3>2, <3>3, <3>4, <3>5, Zenon DEF PassShape
  <2> QED BY <1>1, <2>2, <2>4 DEF ModeAll
<1>3. ASSUME NEW w \in Worker, Commit(w)
      PROVE  ModeAll'
  <2>1. tx[w].pc # "idle"
    BY <1>3 DEF Commit
  <2>2. \A v \in Worker : tx'[v] = IdleTx
    BY <1>3, <2>1, CommitShape, Alone
  <2> QED BY <1>1, <2>2 DEF ModeAll
<1>4. CASE Environment \/ UNCHANGED vars
  <2>1. tx' = tx /\ mode' = mode
    BY <1>4, EnvironmentShape DEF vars
  <2> QED BY <2>1 DEF ModeAll, ModeInv
<1> QED BY <1>2, <1>3, <1>4, Zenon DEF Next

\* Initially no pass is under way.
LEMMA InitMode == Init => ModeAll
<1> SUFFICES ASSUME Init PROVE ModeAll
  OBVIOUS
<1>1. \A w \in Worker : tx[w] = IdleTx
  BY DEF Init
<1> QED BY <1>1, IdleFields DEF ModeAll, ModeInv

\* As long as handlers do not overlap, nothing but the broker itself changes an
\* order while a DRY_RUN pass is under way: it neither submits nor cancels.
THEOREM DryRunLeavesBroker == Spec /\ []NoOverlap => DryRunNeverTouchesBroker
<1>1. IInv /\ ModeAll /\ NoOverlap /\ NoOverlap' /\ [Next]_vars =>
        [\A w \in Worker :
           tx[w].mode = "DRY_RUN" => \A c \in Coid : ord'[c] \in {ord[c], "closed"}]_vars
  <2> SUFFICES ASSUME IInv, ModeAll, NoOverlap, NoOverlap', Next, NEW v \in Worker,
                      tx[v].mode = "DRY_RUN", NEW c \in Coid
               PROVE  ord'[c] \in {ord[c], "closed"}
    OBVIOUS
  <2>1. ASSUME NEW w \in Worker, Handler(w) \/ PassStep(w) \/ Rollback(w)
        PROVE  ord'[c] \in {ord[c], "closed"}
    <3>1. StepOf(w) /\ (Handles(w) \/ Begins(w) \/ PassShape(w))
      BY <2>1, WorkerShapes
    <3>2. v = w
      BY <3>1, Alone, ShapeBusy, IdleFields DEF StepOf
    <3>3. tx[w].pc # "idle"
      BY <3>2, IdleFields DEF IInv, PassInv
    <3>4. tx[w].pc \notin {"check", "submit", "record", "kill"}
      BY <3>2 DEF ModeAll, ModeInv
    <3>5. ord' = ord
      BY <3>1, <3>2, <3>3, <3>4
         DEF Handles, Begins, PassShape, Quits, MovesOn, Submits, Replaces, Adopts
    <3> QED BY <3>5
  <2>2. ASSUME NEW w \in Worker, Commit(w)
        PROVE  ord'[c] \in {ord[c], "closed"}
    BY <2>2 DEF Commit
  <2>3. CASE Environment
    BY <2>3, EnvironmentShape
  <2> QED BY <2>1, <2>2, <2>3, Zenon DEF Next
<1> QED BY <1>1, Invariance, InitMode, NextMode, PTL DEF Spec, DryRunNeverTouchesBroker

-----------------------------------------------------------------------------
(* Recorded fills *)

\* Every step keeps FillRowInv.
LEMMA NextFillRow == IInv /\ FillRowInv /\ NoOverlap /\ NoOverlap' /\ [Next]_vars => FillRowInv'
<1> SUFFICES ASSUME IInv, FillRowInv, NoOverlap, NoOverlap', [Next]_vars PROVE FillRowInv'
  OBVIOUS
<1> DEFINE P(t) == \A c \in Coid : /\ t.wrow[c] = "filled" => Filled(c)'
                                   /\ row'[c] = "filled" => t.wrow[c] \in {Keep, "filled"}
<1>i. P(IdleTx)
  BY IdleFields DEF NoRows, Keep
<1>1. ASSUME NEW w \in Worker, Handler(w) \/ PassStep(w) \/ Rollback(w)
      PROVE  FillRowInv'
  <2>1. StepOf(w) /\ (Handles(w) \/ Begins(w) \/ PassShape(w))
    BY <1>1, WorkerShapes
  <2>2. row' = row /\ \A c \in Coid : Filled(c) => Filled(c)'
    BY <2>1, ShapeOrders DEF StepOf, db
  <2>3. \A v \in Worker : P(tx[v])
    BY <2>2 DEF FillRowInv
  <2>4. P(tx'[w])
    <3>1. CASE Handles(w)
      BY <2>2, <3>1 DEF Handles, GoodWrites, FillRowInv, Keep
    <3>2. CASE Begins(w)
      BY <3>2 DEF Begins, NoRows, Keep
    <3>3. CASE Quits(w)
      BY <1>i, <3>3 DEF Quits
    <3>4. CASE MovesOn(w) \/ Submits(w)
      BY <2>3, <3>4 DEF MovesOn, Submits
    <3>5. ASSUME NEW s, NEW D \in SUBSET Coid, Replaces(w, s, D) PROVE P(tx'[w])
      <4>1. \A c \in D : View(w)[c] = "accepted_for_routing"
        BY <3>5 DEF Replaces, StaleRows
      <4>2. \A c \in D : row[c] # "filled"
        BY <2>3, <2>2, <4>1 DEF View, Keep
      <4> QED BY <2>2, <2>3, <3>5, <4>2 DEF Replaces, Keep
    <3>6. ASSUME NEW c \in Coid, Adopts(w, c) PROVE P(tx'[w])
      <4>1. row[c] # "filled"
        BY <2>2, <2>3, <3>6 DEF Adopts, View, Keep
      <4> QED BY <2>2, <2>3, <3>6, <4>1 DEF Adopts, Keep
    <3> QED BY <2>1, <3>1, <3>2, <3>3, <3>4, <3>5, <3>6, Zenon DEF PassShape
  <2>5. \A v \in Worker : P(tx'[v])
    BY <2>1, <2>3, <2>4 DEF StepOf
  <2> QED BY <2>2, <2>5 DEF FillRowInv
<1>2. ASSUME NEW w \in Worker, Commit(w)
      PROVE  FillRowInv'
  <2>1. tx[w].pc # "idle"
    BY <1>2 DEF Commit
  <2>2. \A v \in Worker : tx'[v] = IdleTx
    BY <1>2, <2>1, CommitShape, Alone
  <2>3. \A c \in Coid : Filled(c) => Filled(c)'
    BY <1>2 DEF Commit, Filled
  <2>4. \A c \in Coid : row'[c] = "filled" => Filled(c)
    BY <1>2 DEF Commit, View, FillRowInv
  <2> QED BY <1>i, <2>2, <2>3, <2>4 DEF FillRowInv
<1>3. CASE Environment \/ UNCHANGED vars
  <2>1. tx' = tx /\ row' = row /\ \A c \in Coid : Filled(c) => Filled(c)'
    BY <1>3, EnvironmentShape DEF vars, Filled
  <2> QED BY <2>1 DEF FillRowInv
<1> QED BY <1>1, <1>2, <1>3, Zenon DEF Next

\* Initially there are no rows.
LEMMA InitFillRow == Init => FillRowInv
<1> SUFFICES ASSUME Init PROVE FillRowInv
  OBVIOUS
<1>1. \A w \in Worker : tx[w] = IdleTx
  BY DEF Init
<1> QED BY <1>1, IdleFields DEF Init, FillRowInv, NoRows, Keep

\* As long as handlers do not overlap, a row that records a fill keeps it: no
\* cancel path, reconciliation or pass turns it into something else.
THEOREM FillsStayRecorded == Spec /\ []NoOverlap => RecordedFillStays
<1>1. IInv /\ FillRowInv /\ [Next]_vars =>
        [\A c \in Coid : row[c] = "filled" => row'[c] = "filled"]_vars
  <2> SUFFICES ASSUME IInv, FillRowInv, Next, NEW c \in Coid, row[c] = "filled"
               PROVE  row'[c] = "filled"
    OBVIOUS
  <2>1. ASSUME NEW w \in Worker, Handler(w) \/ PassStep(w) \/ Rollback(w)
        PROVE  row'[c] = "filled"
    BY <2>1, WorkerShapes DEF StepOf, db
  <2>2. ASSUME NEW w \in Worker, Commit(w)
        PROVE  row'[c] = "filled"
    BY <2>2 DEF Commit, View, FillRowInv
  <2>3. CASE Environment
    BY <2>3, EnvironmentShape
  <2> QED BY <2>1, <2>2, <2>3, Zenon DEF Next
<1> QED BY <1>1, Invariance, InitFillRow, NextFillRow, PTL DEF Spec, RecordedFillStays

-----------------------------------------------------------------------------
(* One open order for a ticker *)

\* c is open by the orders o and the rows v.
OpenIn(o, v, c) == v[c] = "accepted_for_routing" /\ o[c] = "working"

OneIn(o, v) ==
    \A c, d \in Coid : OpenIn(o, v, c) /\ OpenIn(o, v, d) /\ TickerOf[c[1]] = TickerOf[d[1]] => c = d

NoneFor(o, v, s) == \A c \in Coid : TickerOf[c[1]] = TickerOf[s] => ~OpenIn(o, v, c)

\* The rows as the writes f of a transaction make them.
Over(f, r) == [c \in Coid |-> IF f[c] # Keep THEN f[c] ELSE r[c]]

\* The invariant in these terms, now and after a step.
TickerIn(o, r, t) ==
    /\ OneIn(o, Over(t.wrow, r))
    /\ t.pc \in {"check", "submit", "record"} => NoneFor(o, Over(t.wrow, r), t.cur)

\* TickerInv is stated about the rows as each transaction sees them.
LEMMA TickerForms ==
    /\ TickerInv <=> OneIn(ord, row) /\ \A w \in Worker : TickerIn(ord, row, tx[w])
    /\ TickerInv' <=> OneIn(ord', row') /\ \A w \in Worker : TickerIn(ord', row', tx'[w])
BY DEF TickerInv, OneOpenPerTicker, Open, View, OneIn, OpenIn, NoneFor, Over, TickerIn

\* What is open after a step was open before: the invariant is kept.
LEMMA FewerOpen ==
    ASSUME NEW o, NEW v, NEW p, NEW u, \A c \in Coid : OpenIn(p, u, c) => OpenIn(o, v, c)
    PROVE  /\ OneIn(o, v) => OneIn(p, u)
           /\ \A s : NoneFor(o, v, s) => NoneFor(p, u, s)
BY DEF OneIn, NoneFor

\* A step opens no recorded order.
LEMMA ShapeOpens ==
    ASSUME IInv, NEW w \in Worker, StepOf(w), Handles(w) \/ Begins(w) \/ PassShape(w)
    PROVE  /\ \A c \in Coid : OpenIn(ord', row', c) => OpenIn(ord, row, c)
           /\ \A c \in Coid : OpenIn(ord', View(w), c) => OpenIn(ord, View(w), c)
<1>1. \A c \in Coid : ord'[c] = "working" => ord[c] \in {"none", "working"}
  BY ShapeOrders
<1>2. \A c \in Coid : ord[c] = "none" => row[c] = "none" /\ View(w)[c] = "none"
  BY DEF IInv, RowInv, WriteInv, View
<1> QED BY <1>1, <1>2 DEF OpenIn, StepOf, db

\* The rows of an idle transaction are the committed ones.
LEMMA IdleOver ==
    ASSUME NEW r, NEW o
    PROVE  /\ \A c \in Coid : Over(IdleTx.wrow, r)[c] = r[c]
           /\ OneIn(o, r) => TickerIn(o, r, IdleTx)
BY IdleFields DEF Over, NoRows, TickerIn, OneIn, OpenIn

\* Every step keeps TickerInv.
LEMMA NextTicker == IInv /\ TickerInv /\ NoOverlap /\ NoOverlap' /\ [Next]_vars => TickerInv'
<1> SUFFICES ASSUME IInv, TickerInv, NoOverlap, NoOverlap', [Next]_vars PROVE TickerInv'
  OBVIOUS
<1>0. OneIn(ord, row) /\ \A w \in Worker : TickerIn(ord, row, tx[w])
  BY TickerForms
<1>v. \A w \in Worker : View(w) = Over(tx[w].wrow, row)
  BY DEF View, Over
<1>1. ASSUME NEW w \in Worker, Handler(w) \/ PassStep(w) \/ Rollback(w)
      PROVE  TickerInv'
  <2>1. StepOf(w) /\ (Handles(w) \/ Begins(w) \/ PassShape(w))
    BY <1>1, WorkerShapes
  <2>2. row' = row /\ OneIn(ord', row')
    BY <1>0, <2>1, ShapeOpens, FewerOpen DEF StepOf, db
  <2>3. \A v \in Worker : v # w => TickerIn(ord', row', tx'[v])
    BY <2>1, <2>2, Alone, ShapeBusy, IdleOver DEF StepOf
  <2>4. /\ OneIn(ord', View(w))
        /\ tx[w].pc \in {"check", "submit", "record"} => NoneFor(ord', View(w), tx[w].cur)
    BY <1>0, <1>v, <2>1, ShapeOpens, FewerOpen DEF TickerIn
  <2>5. TickerIn(ord', row', tx'[w])
    <3>1. CASE Handles(w)
      <4>1. \A c \in Coid : OpenIn(ord', Over(tx'[w].wrow, row'), c) => OpenIn(ord', row', c)
        BY <3>1 DEF OpenIn, Over, Handles, GoodWrites
      <4> QED BY <2>2, <3>1, <4>1, FewerOpen DEF TickerIn, Handles
    <3>2. CASE Begins(w)
      <4>1. \A c \in Coid : OpenIn(ord', Over(tx'[w].wrow, row'), c) => OpenIn(ord', row', c)
        BY <3>2 DEF OpenIn, Over, Begins, NoRows
      <4> QED BY <2>2, <3>2, <4>1, FewerOpen DEF TickerIn, Begins
    <3>3. CASE Quits(w)
      BY <2>2, <3>3, IdleOver DEF Quits
    <3>4. CASE MovesOn(w) \/ Submits(w)
      <4>1. Over(tx'[w].wrow, row') = View(w)
        BY <1>v, <2>2, <3>4 DEF MovesOn, Submits
      <4>2. tx'[w].pc \in {"check", "submit", "record"} =>
              tx[w].pc \in {"check", "submit", "record"} /\ tx'[w].cur = tx[w].cur
        BY <3>4 DEF MovesOn, Submits
      <4> QED BY <2>4, <4>1, <4>2 DEF TickerIn
    <3>5. ASSUME NEW s \in Suggestion, NEW D \in SUBSET Coid, Replaces(w, s, D)
          PROVE  TickerIn(ord', row', tx'[w])
      <4>0. \A c \in Coid : Over(tx'[w].wrow, row')[c] = IF c \in D THEN "broker_cancelled" ELSE View(w)[c]
        BY <2>2, <3>5 DEF Over, View, Replaces, Keep
      <4>1. \A c \in Coid : OpenIn(ord', Over(tx'[w].wrow, row'), c) => OpenIn(ord', View(w), c)
        BY <4>0 DEF OpenIn
      <4>2. OneIn(ord', Over(tx'[w].wrow, row'))
        BY <2>4, <4>1, FewerOpen
      <4>3. ASSUME tx'[w].pc = "check" PROVE NoneFor(ord', Over(tx'[w].wrow, row'), tx'[w].cur)
        <5>1. tx'[w].cur = s /\ D = StaleRows(View(w), s) /\ ~HasExecution(View(w), s)
          BY <3>5, <4>3 DEF Replaces
        <5>2. SUFFICES ASSUME NEW c \in Coid, TickerOf[c[1]] = TickerOf[s],
                              View(w)[c] = "accepted_for_routing", c \notin D
                       PROVE  FALSE
          BY <4>0, <5>1 DEF NoneFor, OpenIn
        <5>3. c[1] = s
          BY <5>1, <5>2 DEF StaleRows
        <5>4. c = <<s, c[2]>> /\ c[2] \in Idx
          BY <5>3 DEF Coid
        <5> QED BY <5>1, <5>2, <5>4 DEF HasExecution
      <4>4. tx'[w].pc \in {"guard", "check"}
        BY <3>5 DEF Replaces
      <4> QED BY <4>2, <4>3, <4>4 DEF TickerIn
    <3>6. ASSUME NEW c \in Coid, Adopts(w, c)
          PROVE  TickerIn(ord', row', tx'[w])
      <4>0. \A d \in Coid : Over(tx'[w].wrow, row')[d] = IF d = c THEN "accepted_for_routing" ELSE View(w)[d]
        BY <2>2, <3>6 DEF Over, View, Adopts, Keep
      <4>1. NoneFor(ord', View(w), c[1])
        BY <2>4, <3>6 DEF Adopts
      <4>2. OneIn(ord', Over(tx'[w].wrow, row'))
        BY <2>4, <4>0, <4>1 DEF OneIn, NoneFor, OpenIn
      <4> QED BY <3>6, <4>2 DEF TickerIn, Adopts
    <3> QED BY <2>1, <3>1, <3>2, <3>3, <3>4, <3>5, <3>6, Zenon DEF PassShape
  <2>6. \A v \in Worker : TickerIn(ord', row', tx'[v])
    BY <2>3, <2>5
  <2> QED BY <2>2, <2>6, TickerForms
<1>2. ASSUME NEW w \in Worker, Commit(w)
      PROVE  TickerInv'
  <2>1. tx[w].pc # "idle"
    BY <1>2 DEF Commit
  <2>2. \A v \in Worker : tx'[v] = IdleTx
    BY <1>2, <2>1, CommitShape, Alone
  <2>3. OneIn(ord', row')
    BY <1>0, <1>2, <1>v DEF Commit, TickerIn
  <2> QED BY <2>2, <2>3, IdleOver, TickerForms
<1>3. CASE Environment \/ UNCHANGED vars
  <2>1. tx' = tx /\ row' = row /\ \A c \in Coid : ord'[c] = "working" => ord[c] = "working"
    BY <1>3, EnvironmentShape DEF vars
  <2>2. \A u : \A c \in Coid : OpenIn(ord', u, c) => OpenIn(ord, u, c)
    BY <2>1 DEF OpenIn
  <2>3. OneIn(ord', row')
    BY <1>0, <2>1, <2>2, FewerOpen
  <2>4. ASSUME NEW w \in Worker PROVE TickerIn(ord', row', tx'[w])
    <3>1. TickerIn(ord, row, tx[w])
      BY <1>0
    <3>2. PICK u : u = Over(tx[w].wrow, row)
      OBVIOUS
    <3>3. /\ OneIn(ord, u) => OneIn(ord', u)
          /\ \A s : NoneFor(ord, u, s) => NoneFor(ord', u, s)
      BY <2>2, FewerOpen
    <3>4. TickerIn(ord', row, tx[w])
      BY <3>1, <3>2, <3>3 DEF TickerIn
    <3> QED BY <2>1, <3>4
  <2> QED BY <2>3, <2>4, TickerForms
<1> QED BY <1>1, <1>2, <1>3, Zenon DEF Next

\* Initially nothing is open.
LEMMA InitTicker == Init => TickerInv
<1> SUFFICES ASSUME Init PROVE TickerInv
  OBVIOUS
<1>1. \A w \in Worker : tx[w] = IdleTx
  BY DEF Init
<1>2. OneIn(ord, row)
  BY DEF Init, OneIn, OpenIn
<1> QED BY <1>1, <1>2, IdleOver, TickerForms

\* As long as handlers do not overlap, cancel-and-replace leaves at most one
\* recorded working order for a ticker, whichever calls fail and also in the
\* middle of a pass.
THEOREM OneRecordedPerTicker == Spec /\ []NoOverlap => []TickerInv
BY Invariance, InitTicker, NextTicker, PTL DEF Spec

-----------------------------------------------------------------------------
(* Orders without a row *)

\* The client_order_id chosen for a suggestion without an execution has no row:
\* the broker_cancelled rows are the first suffixes without a gap.
LEMMA FreshRow ==
    ASSUME IInv, NEW w \in Worker, tx[w].pc = "check", ~HasExecution(View(w), tx[w].cur),
           NEW n \in Idx, n = NextClientOrderId(View(w), tx[w].cur)
    PROVE  row[<<tx[w].cur, n>>] = "none"
<1> DEFINE s == tx[w].cur
           B == WithStatus(View(w), s, "broker_cancelled")
<1>1. SUFFICES ASSUME row[<<s, n>>] # "none" PROVE FALSE
  OBVIOUS
<1>2. s \in Suggestion /\ \A k \in Idx : <<s, k>> \in Coid
  BY DEF IInv, PassInv, Coid
<1>3. \A k \in Idx : k \in Nat
  BY ConstantsAssumption DEF Idx
<1>4. \A k \in Idx : row[<<s, k>>] # "none" => k \in B
  <2>1. SUFFICES ASSUME NEW k \in Idx, row[<<s, k>>] # "none"
                 PROVE  View(w)[<<s, k>>] = "broker_cancelled"
    BY DEF WithStatus
  <2>2. View(w)[<<s, k>>] # "none"
    BY <1>2, <2>1, TxFields DEF View, IInv, TypeOK, RowWrites, Keep
  <2> QED BY <2>2 DEF HasExecution
<1>5. ord[<<s, n>>] # "none"
  BY <1>1, <1>2 DEF IInv, RowInv
<1>6. \A k \in Idx : k < n => row[<<s, k>>] # "none"
  BY <1>2, <1>5 DEF IInv, FenceInv
<1>7. 0 .. n \subseteq B
  <2>1. \A k \in 0 .. n : k \in Idx /\ (k < n \/ k = n)
    BY <1>3, ConstantsAssumption DEF Idx
  <2> QED BY <1>1, <1>4, <1>6, <2>1
<1>8. IsFiniteSet(B)
  <2>1. B \subseteq Idx /\ IsFiniteSet(Idx)
    BY FS_Interval, ConstantsAssumption DEF WithStatus, Idx
  <2> QED BY <2>1, FS_Subset
<1>9. Cardinality(0 .. n) = n + 1
  BY <1>3, FS_Interval
<1>10. Cardinality(0 .. n) <= Cardinality(B) /\ Cardinality(B) = n
  BY <1>7, <1>8, FS_Subset DEF NextClientOrderId
<1> QED BY <1>3, <1>9, <1>10

\* What a step of a pass that nothing fails leaves of its orders: each is
\* recorded or will be.
Records(w) ==
    /\ tx'[w].pc # "kill"
    /\ tx'[w].mode = tx[w].mode
    /\ \A c \in Coid : ord'[c] = "working" =>
         ord[c] = "working" \/ (tx'[w].pc = "record" /\ c = <<tx'[w].cur, tx'[w].idx>>)
    /\ tx[w].ins \subseteq tx'[w].ins
    /\ tx[w].pc = "record" => Placing(w) \in tx'[w].ins
    /\ tx[w].mode = "LIVE" => \A c \in tx'[w].ins : row[c] = "none" /\ tx'[w].wrow[c] # Keep
    /\ tx'[w].pc = "check" => ~HasExecution(Over(tx'[w].wrow, row), tx'[w].cur)
    /\ tx'[w].pc \in {"submit", "record"} => row[<<tx'[w].cur, tx'[w].idx>>] = "none"

\* A pass that goes on or ends without having placed an order.
LEMMA QuietRecords ==
    ASSUME IInv, RecordedInv, NEW w \in Worker, tx[w].pc # "record", NEW q \in Tx, Becomes(w, q),
           q.pc \in {"guard", "commit"}, q.mode = tx[w].mode, q.ins = tx[w].ins,
           \A c \in Coid : tx[w].wrow[c] # Keep => q.wrow[c] # Keep,
           \A c \in Coid : ord'[c] = "working" => ord[c] = "working"
    PROVE  Records(w)
<1>1. tx'[w] = q /\ tx[w].ins \in SUBSET Coid
  BY BecomesFacts, TxFields DEF IInv, TypeOK
<1> QED BY <1>1 DEF Records, RecordedInv

\* The pass goes on with the next suggestion, with the row writes f.
LEMMA ContinueRecords ==
    ASSUME IInv, RecordedInv, NEW w \in Worker, tx[w].pc # "record", NEW s, NEW f \in RowWrites,
           Continue(w, s, f),
           \A c \in Coid : tx[w].wrow[c] # Keep => f[c] # Keep,
           \A c \in Coid : ord'[c] = "working" => ord[c] = "working"
    PROVE  Records(w)
<1>0. PICK q : q = ContinueTx(tx[w], s, f)
  OBVIOUS
<1>1. tx[w] \in Tx
  BY DEF IInv, TypeOK
<1>2. /\ q \in Tx /\ q.pc = "guard" /\ q.wrow = f /\ q.ins = tx[w].ins /\ q.mode = tx[w].mode
  BY <1>0, <1>1, ContinueUpdate
<1>3. Becomes(w, q)
  BY <1>0, Zenon DEF Continue, ContinueTx
<1> QED BY <1>2, <1>3, QuietRecords

\* The guards in LIVE mode.
LEMMA GuardRecords ==
    ASSUME IInv, RecordedInv, NEW w \in Worker, NEW s \in Suggestion, GuardLive(w, s)
    PROVE  Records(w)
<1> DEFINE f(D) == [c \in Coid |-> IF c \in D THEN "broker_cancelled" ELSE tx[w].wrow[c]]
           C == StaleRows(View(w), s)
<1>1. PICK D \in SUBSET C, ok \in BOOLEAN :
          /\ ord' = CancelRequested({c \in D : Live(c)})
          /\ IF ok THEN Becomes(w, [tx[w] EXCEPT !.pc = "check", !.cur = s,
                                                 !.todo = @ \ {s}, !.wrow = f(D)])
                   ELSE Continue(w, s, f(D))
  BY DEF GuardLive
<1>2. s \in tx[w].todo /\ tx[w].pc = "guard" /\ ~HasExecution(View(w), s)
  BY DEF GuardLive, Trades, Executed
<1>3. TypeOK /\ tx[w] \in Tx /\ f(D) \in RowWrites
  BY RowWritesType DEF IInv, TypeOK
<1>4. \A c \in Coid : f(D)[c] = IF c \in D THEN "broker_cancelled" ELSE tx[w].wrow[c]
  OBVIOUS
<1>5. \A c \in Coid : ord'[c] = "working" => ord[c] = "working"
  BY <1>1 DEF CancelRequested
<1>6. \A c \in D : c[1] # s
  BY DEF StaleRows
<1> HIDE DEF f, C
<1>7. \A c \in Coid : tx[w].wrow[c] # Keep => f(D)[c] # Keep
  BY <1>4 DEF Keep
<1>8. CASE ~ok
  <2>1. Continue(w, s, f(D))
    BY <1>1, <1>8
  <2> QED BY <1>2, <1>3, <1>5, <1>7, <2>1, ContinueRecords
<1>9. CASE ok
  <2>0. PICK q : q = CheckTx(tx[w], s, f(D))
    OBVIOUS
  <2>1. Becomes(w, q)
    BY <1>1, <1>9, <2>0, Zenon DEF CheckTx
  <2>2. /\ q \in Tx /\ q.pc = "check" /\ q.cur = s /\ q.wrow = f(D) /\ q.ins = tx[w].ins
        /\ q.mode = tx[w].mode
    BY <1>3, <2>0, CheckUpdate
  <2>3. tx'[w] = q /\ tx[w].ins \in SUBSET Coid
    BY <1>3, <2>1, <2>2, BecomesFacts, TxFields
  <2>4. ~HasExecution(Over(q.wrow, row), s)
    <3>1. \A n \in Idx : <<s, n>> \in Coid /\ <<s, n>> \notin D
      BY <1>6 DEF Coid
    <3>2. \A n \in Idx : Over(f(D), row)[<<s, n>>] = View(w)[<<s, n>>]
      BY <1>4, <3>1 DEF Over, View
    <3> QED BY <1>2, <2>2, <3>2 DEF HasExecution
  <2> QED BY <1>2, <1>5, <1>7, <2>2, <2>3, <2>4 DEF Records, RecordedInv
<1> QED BY <1>8, <1>9

\* A cancelled order is re-adopted.
LEMMA ReAdoptRecords ==
    ASSUME IInv, RecordedInv, NEW w \in Worker, ReAdopt(w)
    PROVE  Records(w)
<1> DEFINE s == tx[w].cur
<1>1. PICK n \in Idx : Continue(w, s, [tx[w].wrow EXCEPT ![<<s, n>>] = "accepted_for_routing"])
  BY DEF ReAdopt
<1> DEFINE f == [tx[w].wrow EXCEPT ![<<s, n>>] = "accepted_for_routing"]
<1>2. ord' = ord /\ tx[w].pc = "check"
  BY DEF ReAdopt
<1>3. f \in RowWrites /\ tx[w].wrow \in RowWrites
  BY RowWritesType DEF IInv, TypeOK
<1>4. \A d \in Coid : f[d] = IF d = <<s, n>> THEN "accepted_for_routing" ELSE tx[w].wrow[d]
  BY <1>3 DEF RowWrites
<1>5. Continue(w, s, f)
  BY <1>1
<1> HIDE DEF f
<1>6. \A c \in Coid : tx[w].wrow[c] # Keep => f[c] # Keep
  BY <1>4 DEF Keep
<1> QED BY <1>2, <1>3, <1>5, <1>6, ContinueRecords

\* The client_order_id is chosen, or MaxReplace is reached.
LEMMA ChooseRecords ==
    ASSUME IInv, RecordedInv, NEW w \in Worker, ChooseClientOrderId(w)
    PROVE  Records(w)
<1> DEFINE n == NextClientOrderId(View(w), tx[w].cur)
<1>0. ord' = ord /\ tx[w].pc = "check" /\ tx[w] \in Tx /\ tx[w].wrow \in RowWrites
  BY RowWritesType DEF ChooseClientOrderId, IInv, TypeOK
<1>1. CASE n \notin Idx
  <2>1. Continue(w, tx[w].cur, tx[w].wrow)
    BY <1>1 DEF ChooseClientOrderId
  <2> QED BY <1>0, <2>1, ContinueRecords
<1>2. CASE n \in Idx
  <2>1. row[<<tx[w].cur, n>>] = "none"
    <3>1. ~HasExecution(View(w), tx[w].cur)
      BY <1>0 DEF RecordedInv
    <3> QED BY <1>0, <1>2, <3>1, FreshRow
  <2>2. Becomes(w, SubmitTx(tx[w], n))
    BY <1>2 DEF ChooseClientOrderId, SubmitTx
  <2> HIDE DEF n
  <2>3. PICK q : q = SubmitTx(tx[w], n)
    OBVIOUS
  <2>4. /\ q \in Tx /\ q.pc = "submit" /\ q.cur = tx[w].cur /\ q.idx = n
        /\ q.wrow = tx[w].wrow /\ q.ins = tx[w].ins /\ q.mode = tx[w].mode
    BY <1>0, <1>2, <2>3, SubmitUpdate
  <2>5. tx'[w] = q /\ tx[w].ins \in SUBSET Coid
    BY <1>0, <2>2, <2>3, <2>4, BecomesFacts, TxFields DEF IInv
  <2> QED BY <1>0, <2>1, <2>4, <2>5 DEF Records, RecordedInv
<1> QED BY <1>1, <1>2

\* The order is submitted.
LEMMA SubmitRecords ==
    ASSUME IInv, RecordedInv, NEW w \in Worker, SubmitOrder(w)
    PROVE  Records(w)
<1>0. PICK q : q = [tx[w] EXCEPT !.pc = "record"]
  OBVIOUS
<1>1. TypeOK /\ tx[w] \in Tx /\ tx[w].pc = "submit" /\ Becomes(w, q)
      /\ ord' = [ord EXCEPT ![Placing(w)] = "working"] /\ ord \in [Coid -> OrderStatus]
  BY <1>0 DEF SubmitOrder, IInv, TypeOK
<1>2. /\ q \in Tx /\ q.pc = "record" /\ q.cur = tx[w].cur /\ q.idx = tx[w].idx
      /\ q.wrow = tx[w].wrow /\ q.ins = tx[w].ins /\ q.mode = tx[w].mode
  BY <1>0, <1>1, PcUpdate
<1>3. tx'[w] = q /\ tx[w].ins \in SUBSET Coid
  BY <1>1, <1>2, BecomesFacts, TxFields
<1>4. \A c \in Coid : ord'[c] = "working" => ord[c] = "working" \/ c = Placing(w)
  BY <1>1
<1> QED BY <1>1, <1>2, <1>3, <1>4 DEF Records, RecordedInv, Placing

\* Its row is added.
LEMMA RecordRecords ==
    ASSUME IInv, RecordedInv, NEW w \in Worker, RecordExecution(w)
    PROVE  Records(w)
<1> DEFINE c == Placing(w)
<1>0. PICK q : q = RecordTx(tx[w], c)
  OBVIOUS
<1>1. TypeOK /\ tx[w] \in Tx /\ tx[w].wrow \in RowWrites /\ tx[w].ins \in SUBSET Coid
  BY RowWritesType, TxFields DEF IInv, TypeOK
<1>2. c \in Coid
  BY <1>1, TxFields DEF RecordExecution, IInv, PassInv, Placing, Coid
<1>3. Becomes(w, q) /\ ord' = ord /\ row[c] = "none"
  BY <1>0, Zenon DEF RecordExecution, RecordTx
<1> HIDE DEF c
<1>4. /\ q \in Tx /\ q.pc = "guard" /\ q.ins = tx[w].ins \cup {c} /\ q.mode = tx[w].mode
      /\ q.wrow = [tx[w].wrow EXCEPT ![c] = "accepted_for_routing"]
  BY <1>0, <1>1, <1>2, RecordUpdate
<1>5. \A d \in Coid : q.wrow[d] = IF d = c THEN "accepted_for_routing" ELSE tx[w].wrow[d]
  BY <1>1, <1>4 DEF RowWrites
<1>6. tx'[w] = q
  BY <1>1, <1>3, <1>4, BecomesFacts
<1>7. tx[w].mode = "LIVE" => \A d \in q.ins : row[d] = "none" /\ q.wrow[d] # Keep
  BY <1>1, <1>2, <1>3, <1>4, <1>5 DEF RecordedInv, Keep
<1> QED BY <1>3, <1>4, <1>6, <1>7 DEF Records, c

\* Every step of a pass, unless a submission, a read-back or a cancel fails.
LEMMA PassRecords ==
    ASSUME IInv, RecordedInv, {"submit", "readback"} \cap Faults = {}, NEW w \in Worker,
           PassStep(w), \A s \in Suggestion : ~GuardRaises(w, s)
    PROVE  Records(w)
<1>0. TypeOK /\ tx[w] \in Tx /\ tx[w].wrow \in RowWrites
  BY RowWritesType DEF IInv, TypeOK
<1>1. ASSUME NEW s \in Suggestion, GuardSkips(w, s) PROVE Records(w)
  BY <1>0, <1>1, ContinueRecords DEF GuardSkips
<1>2. ASSUME NEW s \in Suggestion, PlaceDryRun(w, s) PROVE Records(w)
  <2>0. PICK q : q = [tx[w] EXCEPT !.todo = @ \ {s}, !.wdry = @ \cup {s}]
    OBVIOUS
  <2>1. tx[w].pc = "guard" /\ ord' = ord /\ Becomes(w, q)
    BY <1>2, <2>0 DEF PlaceDryRun
  <2>2. /\ q \in Tx /\ q.pc = "guard" /\ q.wrow = tx[w].wrow /\ q.ins = tx[w].ins
        /\ q.mode = tx[w].mode
    BY <1>0, <2>0, <2>1, DryRunUpdate, Zenon
  <2> QED BY <2>1, <2>2, QuietRecords
<1>3. CASE SubmitRefused(w)
  BY <1>0, <1>3, ContinueRecords DEF SubmitRefused
<1>4. CASE EndPass(w)
  <2>0. PICK q : q = [tx[w] EXCEPT !.pc = "commit"]
    OBVIOUS
  <2>1. tx[w].pc = "guard" /\ ord' = ord /\ Becomes(w, q)
    BY <1>4, <2>0 DEF EndPass
  <2>2. /\ q \in Tx /\ q.pc = "commit" /\ q.wrow = tx[w].wrow /\ q.ins = tx[w].ins
        /\ q.mode = tx[w].mode
    BY <1>0, <2>0, PcUpdate
  <2> QED BY <2>1, <2>2, QuietRecords
<1>5. ~SubmitError(w) /\ ~ReadbackFails(w) /\ ~RecordConflict(w) /\ ~TriggerKillSwitch(w)
  BY DEF SubmitError, ReadbackFails, RecordConflict, TriggerKillSwitch, RecordedInv
<1> QED BY <1>1, <1>2, <1>3, <1>4, <1>5, GuardRecords, ReAdoptRecords, ChooseRecords,
           SubmitRecords, RecordRecords, Zenon DEF PassStep

\* An idle worker has placed nothing.
LEMMA IdleIns == IdleTx.ins = {} /\ IdleTx.mode = "OFF" /\ IdleTx.pc = "idle"
BY DEF IdleTx

\* RecordedInv of the worker w that acts while the others are idle.
LEMMA RecordedAlone ==
    ASSUME NEW w \in Worker, \A v \in Worker : v # w => tx'[v] = IdleTx,
           \A c \in Coid : ord'[c] = "working" =>
             \/ row'[c] # "none"
             \/ tx'[w].mode = "LIVE" /\ (c \in tx'[w].ins \/ (tx'[w].pc = "record" /\ c = Placing(w)')),
           tx'[w].pc # "kill",
           tx'[w].mode = "LIVE" => \A c \in tx'[w].ins : row'[c] = "none" /\ tx'[w].wrow[c] # Keep,
           tx'[w].pc = "check" => ~HasExecution(View(w)', tx'[w].cur),
           tx'[w].pc \in {"submit", "record"} => row'[Placing(w)'] = "none"
    PROVE  RecordedInv'
BY IdleIns DEF RecordedInv

\* Every step keeps RecordedInv, unless a call fails that a pass does not survive.
LEMMA NextRecorded ==
    ASSUME {"submit", "readback", "abort"} \cap Faults = {}
    PROVE  /\ IInv /\ ModeAll /\ RecordedInv /\ NoOverlap /\ NoOverlap' /\ [Next]_vars
           /\ [\A w \in Worker, s \in Suggestion : ~GuardRaises(w, s)]_vars
           => RecordedInv'
<1> SUFFICES ASSUME IInv, ModeAll, RecordedInv, NoOverlap, NoOverlap', [Next]_vars,
                    [\A w \in Worker, s \in Suggestion : ~GuardRaises(w, s)]_vars
             PROVE  RecordedInv'
  OBVIOUS
<1>0. ord \in [Coid -> OrderStatus] /\ row \in [Coid -> RowStatus]
  BY DEF IInv, TypeOK
<1>1. ASSUME NEW w \in Worker, Handler(w) PROVE RecordedInv'
  <2>1. StepOf(w) /\ (Handles(w) \/ Begins(w))
    BY <1>1, HandlerShape, EffectShape, BeginShape DEF IInv
  <2>2. /\ row' = row /\ \A v \in Worker : v # w => tx[v] = IdleTx /\ tx'[v] = IdleTx
        /\ tx[w] = IdleTx
    BY <2>1, Alone DEF StepOf, db, Handles, Begins, IInv, PassInv
  <2>3. \A c \in Coid : ord'[c] = "working" => ord[c] = "working"
    BY <1>0, <2>1 DEF Handles, Begins, CancelRequested
  <2>4. \A c \in Coid : ord'[c] = "working" => row'[c] # "none"
    BY <2>2, <2>3, IdleIns DEF RecordedInv
  <2>5. CASE Handles(w)
    BY <2>2, <2>4, <2>5, RecordedAlone DEF Handles
  <2>6. CASE Begins(w)
    BY <2>2, <2>4, <2>6, RecordedAlone DEF Begins
  <2> QED BY <2>1, <2>5, <2>6
<1>2. ASSUME NEW w \in Worker, PassStep(w), ~UNCHANGED vars PROVE RecordedInv'
  <2>1. StepOf(w) /\ PassShape(w) /\ Records(w)
    BY <1>2, PassShapes, PassRecords
  <2>2. row' = row /\ \A v \in Worker : v # w => tx[v] = IdleTx /\ tx'[v] = IdleTx
    BY <2>1, Alone, ShapeBusy DEF StepOf, db
  <2>3. tx'[w].pc = "record" \/ tx[w].pc = "record" => tx'[w].mode = "LIVE"
    <3>1. tx[w].pc \in {"submit", "record"} => tx[w].mode = "LIVE"
      BY DEF ModeAll, ModeInv
    <3>2. tx'[w].pc = "record" => tx[w].pc \in {"submit", "record"}
      BY <2>1, IdleIns DEF PassShape, Quits, MovesOn, Submits, Replaces, Adopts
    <3> QED BY <2>1, <3>1, <3>2 DEF Records
  <2>4. \A c \in Coid : ord'[c] = "working" =>
             \/ row'[c] # "none"
             \/ tx'[w].mode = "LIVE" /\ (c \in tx'[w].ins \/ (tx'[w].pc = "record" /\ c = Placing(w)'))
    <3>1. SUFFICES ASSUME NEW c \in Coid, ord[c] = "working", row[c] = "none"
                   PROVE  tx'[w].mode = "LIVE" /\ c \in tx'[w].ins
      BY <2>1, <2>2, <2>3 DEF Records, Placing
    <3>2. tx[w].mode = "LIVE" /\ (c \in tx[w].ins \/ (tx[w].pc = "record" /\ c = Placing(w)))
      BY <2>2, <3>1, IdleIns DEF RecordedInv
    <3> QED BY <2>1, <3>2 DEF Records
  <2>5. View(w)' = Over(tx'[w].wrow, row)
    BY <2>2 DEF View, Over
  <2> QED BY <2>1, <2>2, <2>4, <2>5, RecordedAlone DEF Records, Placing
<1>3. ASSUME NEW w \in Worker, Rollback(w) PROVE RecordedInv'
  <2>1. tx[w].pc # "idle" /\ ord' = ord /\ row' = row /\ Becomes(w, IdleTx)
    BY <1>3 DEF Rollback, db
  <2>2. tx'[w] = IdleTx /\ \A v \in Worker : v # w => tx'[v] = tx[v]
    BY <2>1, BecomesFacts, IdleTxType DEF IInv
  <2>3. \A v \in Worker : v # w => tx[v] = IdleTx /\ tx'[v] = IdleTx
    BY <2>1, <2>2, Alone
  <2>4. tx[w].pc = "commit" /\ tx[w].mode # "LIVE"
    BY <1>3 DEF Rollback, RecordedInv
  <2>5. \A c \in Coid : ord'[c] = "working" => row'[c] # "none"
    BY <2>1, <2>3, <2>4, IdleIns DEF RecordedInv
  <2> QED BY <2>2, <2>3, <2>5, RecordedAlone, IdleIns
<1>4. ASSUME NEW w \in Worker, Commit(w) PROVE RecordedInv'
  <2>1. tx[w].pc = "commit" /\ ord' = ord /\ row' = View(w)
    BY <1>4 DEF Commit
  <2>2. tx'[w] = IdleTx /\ \A v \in Worker : v # w => tx[v] = IdleTx /\ tx'[v] = IdleTx
    BY <1>4, <2>1, CommitShape, Alone
  <2>3. \A c \in Coid : ord'[c] = "working" => row'[c] # "none"
    <3>1. SUFFICES ASSUME NEW c \in Coid, ord[c] = "working" PROVE View(w)[c] # "none"
      BY <2>1
    <3>2. row[c] # "none" \/ tx[w].wrow[c] # Keep
      BY <2>1, <2>2, <3>1, IdleIns DEF RecordedInv
    <3> QED BY <3>2, TxFields DEF View, IInv, TypeOK, RowWrites, Keep
  <2> QED BY <2>2, <2>3, RecordedAlone, IdleIns
<1>5. CASE Environment \/ UNCHANGED vars
  <2>1. tx' = tx /\ row' = row /\ \A c \in Coid : ord'[c] = "working" => ord[c] = "working"
    BY <1>5, EnvironmentShape DEF vars
  <2> QED BY <2>1 DEF RecordedInv, View, Placing
<1> QED BY <1>1, <1>2, <1>3, <1>4, <1>5, Zenon DEF Next

\* Initially there are no orders.
LEMMA InitRecorded == Init => RecordedInv
<1> SUFFICES ASSUME Init PROVE RecordedInv
  OBVIOUS
<1>1. \A w \in Worker : tx[w] = IdleTx
  BY DEF Init
<1> QED BY <1>1, IdleIns DEF Init, RecordedInv

\* As long as handlers do not overlap, no pass leaves a working order behind
\* without a row, unless a submission or a read-back fails, a handler is broken
\* off, or the cancel of a stale order raises: nothing else loses an order.
THEOREM OrdersAreRecorded ==
    ASSUME {"submit", "readback", "abort"} \cap Faults = {}
    PROVE  Spec /\ []NoOverlap /\ NoPassRaises => []NoLostOrder
<1>1. IInv /\ RecordedInv => NoLostOrder
  <2> SUFFICES ASSUME IInv, RecordedInv, AllIdle, NEW c \in Coid, ord[c] = "working"
               PROVE  row[c] # "none"
    BY DEF NoLostOrder
  <2>1. \A w \in Worker : tx[w] = IdleTx
    BY DEF AllIdle, IInv, PassInv
  <2> QED BY <2>1, IdleIns DEF RecordedInv
<1> QED BY <1>1, Invariance, InitMode, NextMode, InitRecorded, NextRecorded, PTL
        DEF Spec, NoPassRaises

\* If besides no pass has left an order behind without a row, at most one order
\* of a ticker is working between handlers, across suggestions and weeks.
THEOREM ReplacedPerTicker == Spec /\ []NoOverlap /\ []NoLostOrder => []OneWorkingPerTicker
<1>1. IInv /\ TickerInv /\ NoLostOrder => OneWorkingPerTicker
  <2> SUFFICES ASSUME IInv, TickerInv, NoLostOrder, AllIdle, NEW c \in Coid, NEW d \in Coid,
                      ord[c] = "working", ord[d] = "working", TickerOf[c[1]] = TickerOf[d[1]]
               PROVE  c = d
    BY DEF OneWorkingPerTicker
  <2>1. row[c] = "accepted_for_routing" /\ row[d] = "accepted_for_routing"
    BY DEF NoLostOrder, IInv, RowInv, Leaving
  <2> QED BY <2>1 DEF TickerInv, OneOpenPerTicker, Open
<1> QED BY <1>1, Invariance, OneRecordedPerTicker, PTL

-----------------------------------------------------------------------------
(* Open orders and the suggestions they belong to *)

\* The suggestion writes of a handler.
LEMMA HandleSug ==
    ASSUME TypeOK, NEW w \in Worker, NEW f \in RowWrites, NEW i \in SUBSET Coid,
           NEW p \in SUBSET Coid, NEW g \in SugWrites, NEW m \in Mode \cup {Keep},
           Handle(w, Writes(f, i, p, g, m))
    PROVE  tx'[w].wsug = g
<1>1. PICK q : q = [Writes(f, i, p, g, m) EXCEPT !.pc = "commit"]
  OBVIOUS
<1>2. q \in Tx /\ q.wsug = g
  <2>1. Writes(f, i, p, g, m) \in Tx
    BY WritesType
  <2> QED BY <1>1, <2>1, PcUpdate, WritesFields
<1>3. Becomes(w, q)
  BY <1>1, Zenon DEF Handle
<1> QED BY <1>2, <1>3, BecomesFacts

\* A handler takes no suggestion with an open order out of the mandated ones.
KeepsMandate(w) ==
    \A c \in Coid : /\ row[c] = "accepted_for_routing" /\ ord'[c] = "working"
                    /\ tx'[w].wsug[c[1]] # Keep
                    => tx'[w].wsug[c[1]] \in Mandated

\* The writes of WriteSug.
LEMMA WriteSugValues ==
    ASSUME NEW S, NEW st
    PROVE  \A s \in Suggestion : /\ WriteSug(S, st)[s] # Keep => s \in S /\ WriteSug(S, st)[s] = st
BY DEF WriteSug

\* The parts of a client_order_id.
LEMMA CoidParts ==
    ASSUME NEW c \in Coid
    PROVE  c[1] \in Suggestion /\ c[2] \in Idx /\ c = <<c[1], c[2]>>
BY DEF Coid

\* The handlers that write one status to a set of suggestions.
LEMMA SugMandate ==
    ASSUME IInv, NEW w \in Worker, NEW S, NEW st \in SuggestionStatus, NEW f \in RowWrites,
           Handle(w, Writes(f, {}, {}, WriteSug(S, st), Keep)),
           st \in Mandated \/ \A c \in Coid : c[1] \in S /\ row[c] = "accepted_for_routing"
                                                => ord'[c] # "working"
    PROVE  KeepsMandate(w)
<1> DEFINE g == WriteSug(S, st)
<1>1. g \in SugWrites
  BY WriteSugType
<1> HIDE DEF g
<1>2. tx'[w].wsug = g
  BY <1>1, HandleSug DEF IInv, g
<1>3. \A s \in Suggestion : g[s] # Keep => s \in S /\ g[s] = st
  BY WriteSugValues DEF g
<1> QED BY <1>2, <1>3, CoidParts DEF KeepsMandate

\* cancel_order of a working order succeeds unless it may fail.
LEMMA WorkingCancelled ==
    ASSUME "cancel" \notin Faults, NEW C \in SUBSET Coid, NEW K \in SUBSET C, CancelSuccess(C, K),
           ord' = CancelRequested(K), NEW c \in C
    PROVE  ord'[c] # "working"
<1>1. SUFFICES ASSUME ord'[c] = "working" PROVE FALSE
  OBVIOUS
<1>2. c \in Coid /\ ord[c] = "working" /\ c \notin K
  BY <1>1 DEF CancelRequested
<1>3. CancelAnswer(c) = {TRUE}
  BY <1>2 DEF CancelAnswer
<1>4. (c \in K) \in CancelAnswer(c)
  BY DEF CancelSuccess
<1>5. (c \in K) = TRUE
  BY <1>3, <1>4, Zenon
<1> QED BY <1>2, <1>5

\* unaccept_suggestion with a placed order.
LEMMA UnacceptMandate ==
    ASSUME IInv, "cancel" \notin Faults, NEW w \in Worker, NEW s \in Suggestion,
           UnacceptPlaced(w, s)
    PROVE  KeepsMandate(w)
<1>0. PICK n \in Idx :
         /\ IsLatest(n, RowsOf(row, s))
         /\ \E h \in GetAnswer, k \in CancelAnswer(<<s, n>>) :
              /\ ord' = IF k /\ CancelCalled(<<s, n>>, h)
                          THEN CancelRequested({<<s, n>>}) ELSE ord
              /\ Handle(w, [WriteRows([d \in Coid |->
                               IF d = <<s, n>> THEN CancelledRow(<<s, n>>, h, k) ELSE Keep])
                             EXCEPT !.wsug = IF h /\ Filled(<<s, n>>)
                                               THEN WriteSug({}, "cancelled")
                                               ELSE WriteSug({s}, "cancelled")])
  BY DEF UnacceptPlaced
<1> DEFINE c == <<s, n>>
<1>1. PICK h \in GetAnswer, k \in CancelAnswer(c) :
         /\ ord' = IF k /\ CancelCalled(c, h) THEN CancelRequested({c}) ELSE ord
         /\ Handle(w, [WriteRows([d \in Coid |-> IF d = c THEN CancelledRow(c, h, k) ELSE Keep])
                        EXCEPT !.wsug = IF h /\ Filled(c) THEN WriteSug({}, "cancelled")
                                                          ELSE WriteSug({s}, "cancelled")])
  BY <1>0
<1> DEFINE f == [d \in Coid |-> IF d = c THEN CancelledRow(c, h, k) ELSE Keep]
           S == IF h /\ Filled(c) THEN {} ELSE {s}
<1>2. c \in Coid /\ row[c] # "none" /\ ord[c] # "none"
  BY <1>0 DEF Coid, IsLatest, RowsOf, IInv, RowInv
<1>3. h \in BOOLEAN /\ k \in BOOLEAN
  BY AnswersBoolean
<1>4. f \in RowWrites
  BY <1>3, CancelledRowType DEF RowWrites, RowStatus
<1>5. ASSUME NEW d \in Coid, d[1] = s, row[d] = "accepted_for_routing" PROVE ord'[d] # "working"
  <2>1. d = <<s, d[2]>> /\ d[2] \in Idx /\ d[2] <= n
    <3>1. d = <<s, d[2]>> /\ d[2] \in Idx
      BY <1>5, CoidParts
    <3>2. d[2] \in RowsOf(row, s)
      BY <1>5, <3>1 DEF RowsOf
    <3> QED BY <1>0, <3>1, <3>2 DEF IsLatest
  <2>2. CASE d = c
    <3>1. CASE ord[c] = "working"
      <4>1. CancelAnswer(c) = {TRUE}
        BY <3>1 DEF CancelAnswer
      <4>2. k /\ CancelCalled(c, h)
        <5>1. k = TRUE
          BY <4>1
        <5>2. CancelCalled(c, h)
          BY <3>1 DEF CancelCalled, Live
        <5> QED BY <5>1, <5>2
      <4> QED BY <1>1, <1>2, <2>2, <4>2 DEF CancelRequested
    <3>2. CASE ord[c] # "working"
      BY <1>1, <1>2, <2>2, <3>2 DEF CancelRequested
    <3> QED BY <3>1, <3>2
  <2>3. CASE d # c
    <3>1. d[2] < n
      <4>1. d[2] # n
        BY <2>1, <2>3
      <4>2. d[2] \in Nat /\ n \in Nat
        BY <2>1, ConstantsAssumption DEF Idx
      <4> QED BY <2>1, <4>1, <4>2
    <3>2. Leaving(d)
      BY <1>2, <2>1, <3>1 DEF IInv, FenceInv
    <3> QED BY <1>1, <2>3, <3>2 DEF Leaving, CancelRequested
  <2> QED BY <2>2, <2>3
<1>6. Handle(w, Writes(f, {}, {}, WriteSug(S, "cancelled"), Keep))
  <2>1. Handle(w, [WriteRows(f) EXCEPT !.wsug = WriteSug(S, "cancelled")])
    <3>1. WriteSug(S, "cancelled") = IF h /\ Filled(c) THEN WriteSug({}, "cancelled")
                                                       ELSE WriteSug({s}, "cancelled")
      OBVIOUS
    <3> QED BY <1>1, <3>1
  <2> HIDE DEF f, S
  <2> QED BY <2>1, WritesForms, Zenon
<1>7. \A d \in Coid : d[1] \in S /\ row[d] = "accepted_for_routing" => ord'[d] # "working"
  BY <1>5
<1> HIDE DEF f, S
<1> QED BY <1>4, <1>6, <1>7, SugMandate DEF SuggestionStatus

\* POST /admin/reset-week-suggestions.
LEMMA ResetMandate ==
    ASSUME IInv, "cancel" \notin Faults, NEW w \in Worker, ResetWeekSuggestions(w)
    PROVE  KeepsMandate(w)
<1>1. PICK S \in SUBSET ResettableSuggestions :
        LET C == {c \in Coid : /\ c[1] \in S
                               /\ row[c] \in {"accepted_for_routing", "broker_cancelled"}}
        IN  \E K \in SUBSET C :
               /\ CancelSuccess(C, K)
               /\ ord' = CancelRequested(K)
               /\ Handle(w, [WriteRows(CancelWrites(K)) EXCEPT !.wsug = WriteSug(S, "pending")])
  BY DEF ResetWeekSuggestions, CancelWrites
<1> DEFINE C == {c \in Coid : /\ c[1] \in S
                              /\ row[c] \in {"accepted_for_routing", "broker_cancelled"}}
<1>2. PICK K \in SUBSET C :
               /\ CancelSuccess(C, K)
               /\ ord' = CancelRequested(K)
               /\ Handle(w, [WriteRows(CancelWrites(K)) EXCEPT !.wsug = WriteSug(S, "pending")])
  BY <1>1
<1>3. C \in SUBSET Coid /\ \A c \in Coid : c[1] \in S /\ row[c] = "accepted_for_routing" => c \in C
  OBVIOUS
<1> HIDE DEF C
<1>4. \A c \in Coid : c[1] \in S /\ row[c] = "accepted_for_routing" => ord'[c] # "working"
  BY <1>2, <1>3, WorkingCancelled
<1>5. CancelWrites(K) \in RowWrites
  BY DEF CancelWrites, RowWrites, RowStatus
<1>6. Handle(w, Writes(CancelWrites(K), {}, {}, WriteSug(S, "pending"), Keep))
  BY <1>2, WritesForms, Zenon
<1> QED BY <1>4, <1>5, <1>6, SugMandate DEF SuggestionStatus

\* sweep_expired_suggestions and load_targets_into_db: an expired suggestion may
\* keep its order.
LEMMA ExpiryMandate ==
    ASSUME IInv, NEW w \in Worker, SweepExpiredSuggestions(w) \/ LoadTargets(w)
    PROVE  KeepsMandate(w)
<1>1. \E S, f : f \in RowWrites /\ Handle(w, [WriteRows(f) EXCEPT !.wsug = WriteSug(S, "expired")])
  <2>1. CASE SweepExpiredSuggestions(w)
    <3> DEFINE A == StaleWith("accepted")
               P == StaleWith("pending")
               C == SweptRows(A)
    <3>1. PICK G \in SUBSET C, K \in SUBSET C :
             Handle(w, [WriteRows([c \in Coid |->
                              IF c \in C THEN CancelledRow(c, c \in G, c \in K) ELSE Keep])
                            EXCEPT !.wsug = WriteSug(A \cup P, "expired")])
      BY <2>1 DEF SweepExpiredSuggestions
    <3> DEFINE f == [c \in Coid |-> IF c \in C THEN CancelledRow(c, c \in G, c \in K) ELSE Keep]
    <3> HIDE DEF A, P, C
    <3>2. \A c : CancelledRow(c, c \in G, c \in K) \in {"broker_cancelled", Keep}
      BY DEF CancelledRow
    <3>3. f \in RowWrites
      BY <3>2 DEF RowWrites, RowStatus
    <3> QED BY <3>1, <3>3
  <2>2. CASE LoadTargets(w)
    <3>1. PICK S, K : Handle(w, [WriteRows([c \in Coid |-> IF c \in K THEN "broker_cancelled" ELSE Keep])
                              EXCEPT !.wsug = WriteSug(S, "expired")])
      BY <2>2 DEF LoadTargets
    <3>2. [c \in Coid |-> IF c \in K THEN "broker_cancelled" ELSE Keep] \in RowWrites
      BY DEF RowWrites, RowStatus
    <3> QED BY <3>1, <3>2
  <2> QED BY <2>1, <2>2
<1>2. PICK S, f : f \in RowWrites /\ Handle(w, [WriteRows(f) EXCEPT !.wsug = WriteSug(S, "expired")])
  BY <1>1
<1>3. Handle(w, Writes(f, {}, {}, WriteSug(S, "expired"), Keep))
  BY <1>2, WritesForms, Zenon
<1> QED BY <1>2, <1>3, SugMandate DEF SuggestionStatus, Mandated

\* The handlers that write no suggestion.
LEMMA NoSugMandate ==
    ASSUME IInv, NEW w \in Worker,
           \E f \in RowWrites, m \in Mode \cup {Keep} : Handle(w, Writes(f, {}, {}, NoSugs, m))
    PROVE  KeepsMandate(w)
<1>1. tx'[w].wsug = NoSugs
  BY WriteSugType, HandleSug DEF IInv
<1> QED BY <1>1, CoidParts DEF KeepsMandate, NoSugs

\* infer_manual_cancels takes no suggestion for cancelled that has an open order.
LEMMA ReconcileMandate ==
    ASSUME IInv, NEW w \in Worker, Reconcile(w)
    PROVE  KeepsMandate(w)
<1> DEFINE v1(A) == PersistedRow(A)
           F(A) == PersistedFilled(A)
           Y(A, synced) == IF synced THEN SyncedRows(v1(A)) ELSE {}
           v2(A, synced) == [c \in Coid |-> IF c \in Y(A, synced) THEN "broker_cancelled"
                                                                  ELSE v1(A)[c]]
           X(A, synced) == {s \in InferredCancels(v2(A, synced), Y(A, synced)) :
                               status[s] = "accepted" /\ s \notin F(A)}
<1>1. PICK A \in SUBSET {c \in Coid : ord[c] = "closed" /\ qty[c] > 0},
           synced \in {TRUE} \cup (IF "get" \in Faults THEN {FALSE} ELSE {}) :
          /\ Handle(w, [IdleTx EXCEPT
                  !.wrow = [c \in Coid |-> IF c \in A \cup Y(A, synced)
                                             THEN v2(A, synced)[c] ELSE Keep],
                  !.ins = {c \in A : row[c] = "none"},
                  !.stamp = Y(A, synced),
                  !.wsug = [s \in Suggestion |->
                              IF s \in F(A) THEN "filled"
                              ELSE IF s \in X(A, synced) THEN "cancelled" ELSE Keep]])
          /\ ord' = ord
  BY Zenon DEF Reconcile
<1> DEFINE y == Y(A, synced)
           f == [c \in Coid |-> IF c \in A \cup y THEN v2(A, synced)[c] ELSE Keep]
           i == {c \in A : row[c] = "none"}
           g == [s \in Suggestion |-> IF s \in F(A) THEN "filled"
                                      ELSE IF s \in X(A, synced) THEN "cancelled" ELSE Keep]
<1>2. ASSUME NEW c \in Coid, row[c] = "accepted_for_routing", ord[c] = "working"
      PROVE  g[c[1]] \in {Keep, "filled"}
  <2>1. c \notin A /\ c \notin y
    BY <1>1, <1>2 DEF SyncedRows
  <2>2. v2(A, synced)[c] = "accepted_for_routing"
    BY <1>2, <2>1 DEF PersistedRow
  <2>3. c[1] \in Suggestion /\ c[2] \in Idx /\ c = <<c[1], c[2]>>
    BY CoidParts
  <2>4. c[2] \in WithStatus(v2(A, synced), c[1], "accepted_for_routing")
    BY <2>2, <2>3 DEF WithStatus
  <2>5. c[1] \notin X(A, synced)
    BY <2>4 DEF InferredCancels
  <2> QED BY <2>3, <2>5
<1>3. tx'[w].wsug = g
  <2>1. f \in RowWrites
    <3>1. \A c \in A \cup y : v2(A, synced)[c] \in RowStatus \ {"none"}
      <4>1. y \in SUBSET Coid /\ A \in SUBSET Coid
        BY <1>1 DEF SyncedRows
      <4>2. \A c \in A : PersistedRow(A)[c] \in {"filled", "canceled"}
        BY <4>1 DEF PersistedRow, ActivityStatus
      <4> QED BY <4>1, <4>2 DEF RowStatus
    <3> QED BY <3>1 DEF RowWrites
  <2>2. i \in SUBSET Coid /\ y \in SUBSET Coid
    BY <1>1 DEF SyncedRows
  <2>3. g \in SugWrites
    BY DEF SugWrites, SuggestionStatus
  <2>4. Handle(w, [IdleTx EXCEPT !.wrow = f, !.ins = i, !.stamp = y, !.wsug = g])
    BY <1>1
  <2> HIDE DEF f, i, y, g
  <2>5. Handle(w, Writes(f, i, y, g, Keep))
    BY <2>4, ReconcileForm, Zenon
  <2> QED BY <2>1, <2>2, <2>3, <2>5, HandleSug DEF IInv
<1> HIDE DEF g
<1> QED BY <1>1, <1>2, <1>3 DEF KeepsMandate, Mandated

\* Every handler keeps the mandates.
LEMMA HandlerMandate ==
    ASSUME IInv, MandateInv, "cancel" \notin Faults, NEW w \in Worker, Handler(w)
    PROVE  KeepsMandate(w)
<1>0. \A c \in Coid : row[c] = "accepted_for_routing" /\ ord[c] = "working" => status[c[1]] \in Mandated
  BY DEF MandateInv, Open
<1>n. NoRows \in RowWrites
  BY WriteSugType
<1>1. CASE PersistSuggestions(w)
  <2>1. PICK S \in SUBSET {s \in Suggestion : status[s] = "absent"} :
          Handle(w, [IdleTx EXCEPT !.wsug = WriteSug(S, "pending")]) /\ ord' = ord
    BY <1>1 DEF PersistSuggestions
  <2>2. Handle(w, Writes(NoRows, {}, {}, WriteSug(S, "pending"), Keep))
    BY <2>1, WritesForms, Zenon
  <2>3. \A c \in Coid : c[1] \in S /\ row[c] = "accepted_for_routing" => ord'[c] # "working"
    BY <1>0, <2>1 DEF Mandated
  <2> QED BY <1>n, <2>2, <2>3, SugMandate DEF SuggestionStatus
<1>2. ASSUME NEW s \in Suggestion, NEW st \in {"accepted", "rejected"}, ActOnSuggestion(w, s, st)
      PROVE  KeepsMandate(w)
  <2>1. Handle(w, [IdleTx EXCEPT !.wsug = WriteSug({s}, st)]) /\ ord' = ord /\ status[s] = "pending"
    BY <1>2 DEF ActOnSuggestion
  <2>2. Handle(w, Writes(NoRows, {}, {}, WriteSug({s}, st), Keep))
    BY <2>1, WritesForms, Zenon
  <2>3. \A c \in Coid : c[1] \in {s} /\ row[c] = "accepted_for_routing" => ord'[c] # "working"
    BY <1>0, <2>1 DEF Mandated
  <2> QED BY <1>n, <2>2, <2>3, SugMandate DEF SuggestionStatus
<1>3. ASSUME NEW s \in Suggestion, UnacceptUnplaced(w, s)
      PROVE  KeepsMandate(w)
  <2>1. Handle(w, [IdleTx EXCEPT !.wsug = WriteSug({s}, "cancelled")]) /\ RowsOf(row, s) = {}
    BY <1>3 DEF UnacceptUnplaced
  <2>2. Handle(w, Writes(NoRows, {}, {}, WriteSug({s}, "cancelled"), Keep))
    BY <2>1, WritesForms, Zenon
  <2>3. \A c \in Coid : c[1] \in {s} => row[c] = "none"
    BY <2>1, CoidParts DEF RowsOf
  <2> QED BY <1>n, <2>2, <2>3, SugMandate DEF SuggestionStatus
<1>4. CASE CancelAllOrders(w)
  <2>1. PICK K : Handle(w, WriteRows(CancelWrites(K)))
    BY <1>4 DEF CancelAllOrders, CancelWrites
  <2>2. CancelWrites(K) \in RowWrites
    BY DEF CancelWrites, RowWrites, RowStatus
  <2>3. Handle(w, Writes(CancelWrites(K), {}, {}, NoSugs, Keep))
    BY <2>1, WritesForms, Zenon
  <2> QED BY <2>2, <2>3, NoSugMandate
<1>5. ASSUME (\E m \in Mode : Promote(w, m)) \/ EmergencyStop(w)
      PROVE  KeepsMandate(w)
  <2>1. PICK m \in Mode : Handle(w, [IdleTx EXCEPT !.wmode = m])
    BY <1>5 DEF Promote, EmergencyStop, Mode
  <2>2. Handle(w, Writes(NoRows, {}, {}, NoSugs, m))
    BY <2>1, WritesForms, Zenon
  <2> QED BY <1>n, <2>2, NoSugMandate
<1>6. CASE BeginPass(w)
  BY <1>6, BeginShape, CoidParts DEF Begins, KeepsMandate, NoSugs
<1> QED BY <1>1, <1>2, <1>3, <1>4, <1>5, <1>6, UnacceptMandate, ResetMandate, ExpiryMandate,
           ReconcileMandate, Zenon DEF Handler

\* The invariant in terms of the orders, the rows, the statuses and a transaction.
MandateIn(o, r, st, t) ==
    /\ \A c \in Coid : OpenIn(o, Over(t.wrow, r), c) =>
         (IF t.wsug[c[1]] # Keep THEN t.wsug[c[1]] ELSE st[c[1]]) \in Mandated
    /\ t.pc \notin {"idle", "commit"} =>
         /\ \A s \in Suggestion : t.wsug[s] = Keep
         /\ \A s \in t.todo \cup ({t.cur} \ {None}) : st[s] = "accepted"

\* Every committed open order belongs to a mandated suggestion.
CommittedIn(o, r, st) == \A c \in Coid : OpenIn(o, r, c) => st[c[1]] \in Mandated

\* MandateInv says that of every transaction.
LEMMA MandateForms ==
    /\ MandateInv <=> CommittedIn(ord, row, status)
                      /\ \A w \in Worker : MandateIn(ord, row, status, tx[w])
    /\ MandateInv' <=> CommittedIn(ord', row', status')
                       /\ \A w \in Worker : MandateIn(ord', row', status', tx'[w])
BY DEF MandateInv, Open, View, StatusAfter, OpenIn, Over, MandateIn, CommittedIn

\* An idle transaction holds nothing back.
LEMMA IdleMandate ==
    ASSUME NEW o, NEW r, NEW st, CommittedIn(o, r, st)
    PROVE  MandateIn(o, r, st, IdleTx)
BY IdleFields, CoidParts DEF CommittedIn, MandateIn, OpenIn, Over, NoRows, NoSugs

\* Every step keeps MandateInv, as long as no cancel fails.
LEMMA NextMandate ==
    ASSUME "cancel" \notin Faults
    PROVE  IInv /\ MandateInv /\ NoOverlap /\ NoOverlap' /\ [Next]_vars => MandateInv'
<1> SUFFICES ASSUME IInv, MandateInv, NoOverlap, NoOverlap', [Next]_vars PROVE MandateInv'
  OBVIOUS
<1>0. CommittedIn(ord, row, status) /\ \A w \in Worker : MandateIn(ord, row, status, tx[w])
  BY MandateForms
<1>v. \A w \in Worker : View(w) = Over(tx[w].wrow, row)
  BY DEF View, Over
<1>1. ASSUME NEW w \in Worker, Handler(w) \/ PassStep(w) \/ Rollback(w)
      PROVE  MandateInv'
  <2>1. StepOf(w) /\ (Handles(w) \/ Begins(w) \/ PassShape(w))
    BY <1>1, WorkerShapes
  <2>2. row' = row /\ status' = status
    BY <2>1 DEF StepOf, db
  <2>3. CommittedIn(ord', row', status')
    BY <1>0, <2>1, <2>2, ShapeOpens DEF CommittedIn
  <2>4. \A v \in Worker : v # w => MandateIn(ord', row', status', tx'[v])
    BY <2>1, <2>3, Alone, ShapeBusy, IdleMandate DEF StepOf
  <2>5. \A c \in Coid : OpenIn(ord', View(w), c) =>
          (IF tx[w].wsug[c[1]] # Keep THEN tx[w].wsug[c[1]] ELSE status[c[1]]) \in Mandated
    BY <1>0, <1>v, <2>1, ShapeOpens DEF MandateIn
  <2>6. ASSUME Goes(w)
        PROVE  /\ \A s \in Suggestion : tx'[w].wsug[s] = Keep
               /\ \A s \in tx'[w].todo \cup ({tx[w].cur} \ {None}) : status[s] = "accepted"
               /\ \A c \in Coid : OpenIn(ord', View(w), c) => status[c[1]] \in Mandated
    BY <1>0, <2>5, <2>6, CoidParts DEF Goes, MandateIn
  <2>7. MandateIn(ord', row', status', tx'[w])
    <3>1. CASE Handler(w)
      <4>1. CASE Handles(w)
        <5>1. \A c \in Coid : OpenIn(ord', Over(tx'[w].wrow, row'), c) => OpenIn(ord', row', c)
          BY <4>1 DEF OpenIn, Over, Handles, GoodWrites
        <5>2. KeepsMandate(w)
          BY <3>1, HandlerMandate
        <5> QED BY <2>2, <2>3, <4>1, <5>1, <5>2 DEF MandateIn, Handles, CommittedIn, KeepsMandate, OpenIn
      <4>2. CASE Begins(w)
        <5>1. \A c \in Coid : OpenIn(ord', Over(tx'[w].wrow, row'), c) => OpenIn(ord', row', c)
          BY <4>2 DEF OpenIn, Over, Begins, NoRows
        <5>2. \A s \in FetchAcceptedUnexecuted : status[s] = "accepted"
          BY DEF FetchAcceptedUnexecuted
        <5>3. \A s \in Suggestion : tx'[w].wsug[s] = Keep
          BY <4>2 DEF Begins, NoSugs
        <5> QED BY <2>2, <2>3, <4>2, <5>1, <5>2, <5>3, CoidParts DEF MandateIn, Begins, CommittedIn
      <4> QED BY <3>1, <4>1, <4>2, HandlerShape, EffectShape, BeginShape DEF IInv
    <3>2. CASE Quits(w)
      BY <2>3, <3>2, IdleMandate DEF Quits
    <3>3. CASE MovesOn(w) \/ Submits(w)
      <4>1. Over(tx'[w].wrow, row') = View(w) /\ Goes(w) /\ tx'[w].cur \in {None, tx[w].cur}
        BY <1>v, <2>2, <3>3 DEF MovesOn, Submits
      <4> QED BY <2>2, <2>6, <4>1, CoidParts DEF MandateIn
    <3>4. ASSUME NEW s \in Suggestion, NEW D \in SUBSET Coid, Replaces(w, s, D)
          PROVE  MandateIn(ord', row', status', tx'[w])
      <4>0. \A c \in Coid : Over(tx'[w].wrow, row')[c] = IF c \in D THEN "broker_cancelled" ELSE View(w)[c]
        BY <2>2, <3>4 DEF Over, View, Replaces, Keep
      <4>1. \A c \in Coid : OpenIn(ord', Over(tx'[w].wrow, row'), c) => OpenIn(ord', View(w), c)
        BY <4>0 DEF OpenIn
      <4>2. Goes(w) /\ tx'[w].cur \in {None, s} /\ status[s] = "accepted"
        BY <1>0, <3>4 DEF Replaces, Goes, MandateIn
      <4> QED BY <2>2, <2>6, <4>1, <4>2, CoidParts DEF MandateIn
    <3>5. ASSUME NEW c \in Coid, Adopts(w, c)
          PROVE  MandateIn(ord', row', status', tx'[w])
      <4>0. \A d \in Coid : Over(tx'[w].wrow, row')[d] = IF d = c THEN "accepted_for_routing" ELSE View(w)[d]
        BY <2>2, <3>5 DEF Over, View, Adopts, Keep
      <4>1. Goes(w) /\ tx'[w].cur = None /\ c[1] = tx[w].cur
        BY <3>5 DEF Adopts
      <4>2. c[1] # None
        BY CoidParts, ConstantsAssumption
      <4>3. status[c[1]] \in Mandated
        BY <2>6, <4>1, <4>2 DEF Mandated
      <4>4. \A d \in Coid : OpenIn(ord', Over(tx'[w].wrow, row'), d) => d = c \/ OpenIn(ord', View(w), d)
        BY <4>0 DEF OpenIn
      <4> QED BY <2>2, <2>6, <4>1, <4>3, <4>4, CoidParts DEF MandateIn
    <3>6. CASE PassStep(w) \/ Rollback(w)
      <4>1. Rollback(w) => tx[w].pc # "idle"
        BY DEF Rollback
      <4>2. PassShape(w)
        BY <2>1, <3>6, <4>1, PassShapes DEF Handles, Begins
      <4> QED BY <3>2, <3>3, <3>4, <3>5, <4>2, Zenon DEF PassShape
    <3> QED BY <1>1, <3>1, <3>6
  <2>8. \A v \in Worker : MandateIn(ord', row', status', tx'[v])
    BY <2>4, <2>7
  <2> QED BY <2>3, <2>8, MandateForms
<1>2. ASSUME NEW w \in Worker, Commit(w)
      PROVE  MandateInv'
  <2>1. tx[w].pc # "idle"
    BY <1>2 DEF Commit
  <2>2. \A v \in Worker : tx'[v] = IdleTx
    BY <1>2, <2>1, CommitShape, Alone
  <2>3. CommittedIn(ord', row', status')
    BY <1>0, <1>2, <1>v, CoidParts DEF Commit, MandateIn, CommittedIn
  <2> QED BY <2>2, <2>3, IdleMandate, MandateForms
<1>3. CASE Environment \/ UNCHANGED vars
  <2>1. /\ tx' = tx /\ row' = row /\ status' = status
        /\ \A c \in Coid : ord'[c] = "working" => ord[c] = "working"
    BY <1>3, EnvironmentShape DEF vars
  <2>2. CommittedIn(ord', row', status')
    BY <1>0, <2>1 DEF CommittedIn, OpenIn
  <2>3. ASSUME NEW w \in Worker PROVE MandateIn(ord', row, status, tx[w])
    BY <1>0, <2>1 DEF MandateIn, OpenIn
  <2> QED BY <2>1, <2>2, <2>3, MandateForms
<1> QED BY <1>1, <1>2, <1>3, Zenon DEF Next

\* Initially nothing is open.
LEMMA InitMandate == Init => MandateInv
<1> SUFFICES ASSUME Init PROVE MandateInv
  OBVIOUS
<1>1. \A w \in Worker : tx[w] = IdleTx
  BY DEF Init
<1>2. CommittedIn(ord, row, status)
  BY DEF Init, CommittedIn, OpenIn
<1> QED BY <1>1, <1>2, IdleMandate, MandateForms

\* As long as handlers do not overlap and the broker answers cancels, a recorded
\* working order belongs to an accepted, expired or filled suggestion: un-accept,
\* reset-week and manual-cancel inference take no mandate away from an open order.
THEOREM OpenOrdersMandated ==
    ASSUME "cancel" \notin Faults
    PROVE  Spec /\ []NoOverlap => []MandateInv
BY Invariance, InitMandate, NextMandate, PTL DEF Spec

\* If besides no pass has left an order behind without a row, no order works
\* between handlers that the user has not accepted or has taken back.
THEOREM NoOrderUnmandated ==
    ASSUME "cancel" \notin Faults
    PROVE  Spec /\ []NoOverlap /\ []NoLostOrder => []NoOrderWithoutMandate
<1>1. IInv /\ MandateInv /\ NoLostOrder => NoOrderWithoutMandate
  <2> SUFFICES ASSUME IInv, MandateInv, NoLostOrder, AllIdle, NEW c \in Coid, ord[c] = "working"
               PROVE  status[c[1]] \in Mandated
    BY DEF NoOrderWithoutMandate, Mandated
  <2>1. row[c] = "accepted_for_routing"
    BY DEF NoLostOrder, IInv, RowInv, Leaving
  <2> QED BY <2>1 DEF MandateInv, Open
<1> QED BY <1>1, Invariance, OpenOrdersMandated, PTL

-----------------------------------------------------------------------------
(* The hypotheses put together *)

\* If only reads of the broker fail, no cancel of a stale order raises and handlers
\* do not overlap, every order that works between handlers has a mandate and is
\* alone on its ticker: nothing else is assumed of the weeks, the cancels that
\* lose against a fill, the sweeps and the replacements in between.
THEOREM WeekWithoutOverlap ==
    ASSUME {"cancel", "submit", "readback", "abort"} \cap Faults = {}
    PROVE  Spec /\ []NoOverlap /\ NoPassRaises =>
             []NoOrderWithoutMandate /\ []OneWorkingPerTicker
<1>1. "cancel" \notin Faults /\ {"submit", "readback", "abort"} \cap Faults = {}
  OBVIOUS
<1> QED BY <1>1, OrdersAreRecorded, ReplacedPerTicker, NoOrderUnmandated, PTL

=============================================================================

------------------------ MODULE OrderLifecycle_proofs ------------------------
(***************************************************************************)
(* Theorems about OrderLifecycle, for every set of suggestions and worker  *)
(* threads, every bound and every set of failing calls.                    *)
(***************************************************************************)
EXTENDS OrderLifecycle, FiniteSetTheorems, TLAPS

RowWrites == [Coid -> (RowStatus \ {"none"}) \cup {Keep}]
SugWrites == [Suggestion -> SuggestionStatus \cup {Keep}]
NoRows == [c \in Coid |-> Keep]
NoSugs == [s \in Suggestion |-> Keep]

-----------------------------------------------------------------------------
(* Transactions and their types *)

\* The fields of a transaction have their types.
LEMMA TxFields ==
    ASSUME NEW t \in Tx
    PROVE  /\ t.pc \in {"idle", "guard", "check", "submit", "record", "kill", "commit"}
           /\ t.mode \in Mode
           /\ t.todo \in SUBSET Suggestion
           /\ t.cur \in Suggestion \cup {None}
           /\ t.idx \in Idx
           /\ t.wrow \in RowWrites
           /\ t.ins \in SUBSET Coid
           /\ t.stamp \in SUBSET Coid
           /\ t.wsug \in SugWrites
           /\ t.wmode \in Mode \cup {Keep}
           /\ t.wdry \in SUBSET Suggestion
BY DEF Tx, RowWrites, SugWrites

\* An idle transaction is well typed.
LEMMA IdleTxType == IdleTx \in Tx
BY ConstantsAssumption DEF IdleTx, Tx, Idx, Mode, Keep

\* The transaction of a handler: its row writes, inserts, stamps, suggestion
\* writes and mode.
Writes(f, i, p, g, m) ==
    [pc |-> "idle", mode |-> "OFF", todo |-> {}, cur |-> None, idx |-> 0,
     wrow |-> f, ins |-> i, stamp |-> p, wsug |-> g, wmode |-> m, wdry |-> {}]

\* The forms in which handlers give their writes.
LEMMA WritesForms ==
    ASSUME NEW f, NEW i, NEW p, NEW g, NEW m
    PROVE  /\ [IdleTx EXCEPT !.wsug = g] = Writes(NoRows, {}, {}, g, Keep)
           /\ [IdleTx EXCEPT !.wmode = m] = Writes(NoRows, {}, {}, NoSugs, m)
           /\ WriteRows(f) = Writes(f, {}, {}, NoSugs, Keep)
           /\ [WriteRows(f) EXCEPT !.wsug = g] = Writes(f, {}, {}, g, Keep)
<1> DEFINE T == [pc |-> "idle", mode |-> "OFF", todo |-> {}, cur |-> None, idx |-> 0,
                 wrow |-> NoRows, ins |-> {}, stamp |-> {},
                 wsug |-> NoSugs, wmode |-> Keep, wdry |-> {}]
<1>0. IdleTx = T
  BY Zenon DEF IdleTx, NoRows, NoSugs
<1>1. [T EXCEPT !.wsug = g] = Writes(NoRows, {}, {}, g, Keep)
  BY DEF Writes
<1>2. [T EXCEPT !.wmode = m] = Writes(NoRows, {}, {}, NoSugs, m)
  BY DEF Writes
<1>3. [T EXCEPT !.wrow = f] = Writes(f, {}, {}, NoSugs, Keep)
  BY DEF Writes
<1>4. [Writes(f, {}, {}, NoSugs, Keep) EXCEPT !.wsug = g] = Writes(f, {}, {}, g, Keep)
  BY DEF Writes
<1> HIDE DEF T
<1> QED BY <1>0, <1>1, <1>2, <1>3, <1>4, Zenon DEF WriteRows

\* The form of the reconciliation's writes.
LEMMA ReconcileForm ==
    ASSUME NEW f, NEW i, NEW p, NEW g
    PROVE  [IdleTx EXCEPT !.wrow = f, !.ins = i, !.stamp = p, !.wsug = g]
             = Writes(f, i, p, g, Keep)
<1>1. [IdleTx EXCEPT !.wrow = f] = Writes(f, {}, {}, NoSugs, Keep)
  BY WritesForms, Zenon DEF WriteRows
<1>2. [Writes(f, {}, {}, NoSugs, Keep) EXCEPT !.ins = i] = Writes(f, i, {}, NoSugs, Keep)
  BY DEF Writes
<1>3. [Writes(f, i, {}, NoSugs, Keep) EXCEPT !.stamp = p] = Writes(f, i, p, NoSugs, Keep)
  BY DEF Writes
<1>4. [Writes(f, i, p, NoSugs, Keep) EXCEPT !.wsug = g] = Writes(f, i, p, g, Keep)
  BY DEF Writes
<1> QED BY <1>1, <1>2, <1>3, <1>4, Zenon

\* A handler's transaction is well typed if its writes are.
LEMMA WritesType ==
    ASSUME NEW f \in RowWrites, NEW i \in SUBSET Coid, NEW p \in SUBSET Coid,
           NEW g \in SugWrites, NEW m \in Mode \cup {Keep}
    PROVE  Writes(f, i, p, g, m) \in Tx
BY ConstantsAssumption DEF Writes, Tx, RowWrites, SugWrites, Idx, Mode

\* The empty writes, and one status for a set of suggestions, are well typed.
LEMMA WriteSugType ==
    /\ NoRows \in RowWrites
    /\ NoSugs \in SugWrites
    /\ \A S : \A st \in SuggestionStatus : WriteSug(S, st) \in SugWrites
BY DEF WriteSug, SugWrites, NoRows, NoSugs, RowWrites

\* The rows as a transaction sees them are well typed.
LEMMA ViewType ==
    ASSUME TypeOK, NEW w \in Worker
    PROVE  View(w) \in [Coid -> RowStatus]
BY TxFields DEF View, TypeOK, RowWrites

-----------------------------------------------------------------------------
(* The broker's answers *)

\* A cancel request changes working orders only.
LEMMA CancelRequestedType ==
    ASSUME TypeOK, NEW K
    PROVE  CancelRequested(K) \in [Coid -> OrderStatus]
BY DEF CancelRequested, TypeOK, OrderStatus

\* cancel_order succeeds for a live order only.
LEMMA CancelAnswerLive ==
    ASSUME NEW c, TRUE \in CancelAnswer(c)
    PROVE  Live(c)
BY DEF CancelAnswer, Live

\* Every order cancel_order succeeded for is leaving afterwards.
LEMMA CancelSuccessLeaves ==
    ASSUME TypeOK, NEW C \in SUBSET Coid, NEW K \in SUBSET C, CancelSuccess(C, K),
           ord' = CancelRequested(K), NEW c \in K
    PROVE  Live(c) /\ Leaving(c)'
<1>1. TRUE \in CancelAnswer(c)
  <2>1. (c \in K) \in CancelAnswer(c)
    BY DEF CancelSuccess
  <2>2. (c \in K) = TRUE
    OBVIOUS
  <2> QED BY <2>1, <2>2, Zenon
<1>2. Live(c)
  BY <1>1, CancelAnswerLive
<1>3. c \in Coid
  OBVIOUS
<1> QED BY <1>2, <1>3 DEF CancelRequested, Leaving, Live

\* The status cancel_working_execution writes.
LEMMA CancelledRowType ==
    ASSUME NEW c, NEW g \in BOOLEAN, NEW k \in BOOLEAN
    PROVE  /\ CancelledRow(c, g, k) \in {"broker_cancelled", Keep}
           /\ CancelledRow(c, g, k) # Keep => \/ g /\ ~Live(c) /\ ~Filled(c)
                                              \/ k /\ CancelCalled(c, g)
BY DEF CancelledRow, CancelCalled, Keep

\* The answers are Boolean.
LEMMA AnswersBoolean ==
    ASSUME NEW c
    PROVE  GetAnswer \subseteq BOOLEAN /\ CancelAnswer(c) \subseteq BOOLEAN
BY DEF GetAnswer, CancelAnswer

-----------------------------------------------------------------------------
(* What every handler has in common *)

\* Its row writes say of leaving orders that they are gone, and filled exactly
\* of the filled ones; it marks only suggestions filled that have a filled order.
GoodWrites(f, i, g) ==
    /\ \A c \in Coid : f[c] # Keep => /\ f[c] # "accepted_for_routing"
                                      /\ Leaving(c)'
                                      /\ row[c] # "none" \/ c \in i
                                      /\ f[c] = "filled" <=> Filled(c)
    /\ \A s \in Suggestion : g[s] = "filled" => \E n \in Idx : Filled(<<s, n>>)

HandlerEffect(w) ==
    \E f \in RowWrites, i \in SUBSET Coid, p \in SUBSET Coid, g \in SugWrites,
       m \in Mode \cup {Keep}, K \in SUBSET Coid :
         /\ Handle(w, Writes(f, i, p, g, m))
         /\ ord' = CancelRequested(K)
         /\ GoodWrites(f, i, g)

\* Nothing is cancelled.
LEMMA CancelNone ==
    ASSUME TypeOK, ord' = ord
    PROVE  ord' = CancelRequested({})
BY DEF CancelRequested, TypeOK

\* Writing nothing on rows is good, and so is any other status than filled.
LEMMA GoodNoRows == 
    ASSUME NEW i, NEW g, \A s \in Suggestion : g[s] # "filled"
    PROVE  GoodWrites(NoRows, i, g)
BY DEF GoodWrites, NoRows

\* What WriteSug writes.
LEMMA WriteSugNotFilled ==
    ASSUME NEW S, NEW st, st # "filled"
    PROVE  \A s \in Suggestion : WriteSug(S, st)[s] # "filled"
BY DEF WriteSug, Keep

\* The handlers that only write suggestions.
LEMMA SugHandlerEffect ==
    ASSUME TypeOK, NEW w \in Worker, NEW S, NEW st \in SuggestionStatus, st # "filled",
           Handle(w, [IdleTx EXCEPT !.wsug = WriteSug(S, st)]), ord' = ord
    PROVE  HandlerEffect(w)
<1> DEFINE g == WriteSug(S, st)
<1>1. g \in SugWrites /\ NoRows \in RowWrites
  BY WriteSugType
<1>2. GoodWrites(NoRows, {}, g)
  BY WriteSugNotFilled, GoodNoRows
<1>3. Handle(w, Writes(NoRows, {}, {}, g, Keep))
  BY WritesForms, Zenon
<1>4. ord' = CancelRequested({})
  BY CancelNone
<1> HIDE DEF g
<1> QED BY <1>1, <1>2, <1>3, <1>4, Zenon DEF HandlerEffect

\* The rows marked broker_cancelled for the cancels that succeeded.
CancelWrites(K) == [c \in Coid |-> IF c \in K THEN "broker_cancelled" ELSE Keep]

\* The handlers that cancel a set of recorded orders and write suggestions.
LEMMA CancelHandlerEffect ==
    ASSUME TypeOK, NEW w \in Worker, NEW C \in SUBSET Coid, NEW K \in SUBSET C,
           \A c \in C : row[c] # "none",
           CancelSuccess(C, K), ord' = CancelRequested(K),
           NEW g \in SugWrites, \A s \in Suggestion : g[s] # "filled",
           Handle(w, Writes(CancelWrites(K), {}, {}, g, Keep))
    PROVE  HandlerEffect(w)
<1>1. CancelWrites(K) \in RowWrites
  BY DEF CancelWrites, RowWrites, RowStatus
<1>2. \A c \in K : Live(c) /\ Leaving(c)'
  BY CancelSuccessLeaves
<1>3. GoodWrites(CancelWrites(K), {}, g)
  BY <1>2 DEF GoodWrites, CancelWrites, Keep, Live, Filled
<1>4. K \in SUBSET Coid
  OBVIOUS
<1> QED BY <1>1, <1>3, <1>4, Zenon DEF HandlerEffect

\* unaccept_suggestion with a placed order.
LEMMA UnacceptEffect ==
    ASSUME TypeOK, RowInv, NEW w \in Worker, NEW s \in Suggestion, UnacceptPlaced(w, s)
    PROVE  HandlerEffect(w)
<1>0. PICK n \in Idx :
         /\ IsLatest(n, RowsOf(row, s))
         /\ \E h \in GetAnswer, k \in CancelAnswer(<<s, n>>) :
              /\ ord' = IF k /\ CancelCalled(<<s, n>>, h)
                          THEN CancelRequested({<<s, n>>}) ELSE ord
              /\ Handle(w, [WriteRows([d \in Coid |->
                               IF d = <<s, n>> THEN CancelledRow(<<s, n>>, h, k) ELSE Keep])
                             EXCEPT !.wsug = IF h /\ Filled(<<s, n>>)
                                               THEN WriteSug({}, "cancelled")
                                               ELSE WriteSug({s}, "cancelled")])
  BY DEF UnacceptPlaced
<1> DEFINE c == <<s, n>>
<1>1. PICK h \in GetAnswer, k \in CancelAnswer(c) :
         /\ ord' = IF k /\ CancelCalled(c, h) THEN CancelRequested({c}) ELSE ord
         /\ Handle(w, [WriteRows([d \in Coid |-> IF d = c THEN CancelledRow(c, h, k) ELSE Keep])
                        EXCEPT !.wsug = IF h /\ Filled(c) THEN WriteSug({}, "cancelled")
                                                          ELSE WriteSug({s}, "cancelled")])
  BY <1>0
<1> DEFINE f == [d \in Coid |-> IF d = c THEN CancelledRow(c, h, k) ELSE Keep]
           g == IF h /\ Filled(c) THEN WriteSug({}, "cancelled") ELSE WriteSug({s}, "cancelled")
<1>2. c \in Coid /\ row[c] # "none"
  BY <1>0 DEF Coid, IsLatest, RowsOf
<1>3. h \in BOOLEAN /\ k \in BOOLEAN
  BY AnswersBoolean
<1>4. f \in RowWrites
  BY <1>3, CancelledRowType DEF RowWrites, RowStatus
<1>5. g \in SugWrites /\ \A t \in Suggestion : g[t] # "filled"
  BY WriteSugType, WriteSugNotFilled DEF SuggestionStatus
<1>6. PICK K \in SUBSET {c} : /\ ord' = CancelRequested(K)
                              /\ k /\ CancelCalled(c, h) => K = {c}
  <2>1. CASE k /\ CancelCalled(c, h)
    BY <2>1, <1>1
  <2>2. CASE ~(k /\ CancelCalled(c, h))
    BY <2>2, <1>1, CancelNone
  <2> QED BY <2>1, <2>2
<1>7. f[c] # Keep => ~Filled(c) /\ Leaving(c)'
  <2>1. SUFFICES ASSUME CancelledRow(c, h, k) # Keep PROVE ~Filled(c) /\ Leaving(c)'
    BY <1>2
  <2>2. CASE h /\ ~Live(c) /\ ~Filled(c)
    <3>1. Leaving(c)
      BY <2>2, <1>2 DEF Leaving, Live, RowInv, TypeOK, OrderStatus
    <3> QED BY <3>1, <2>2, <1>2, <1>6 DEF Leaving, CancelRequested
  <2>3. CASE k /\ CancelCalled(c, h)
    <3>1. Live(c)
      <4>1. TRUE \in CancelAnswer(c)
        BY <2>3, <1>3
      <4> QED BY <4>1, CancelAnswerLive
    <3>2. ~Filled(c)
      BY <3>1 DEF Live, Filled
    <3> QED BY <3>1, <3>2, <2>3, <1>2, <1>6 DEF Leaving, Live, CancelRequested
  <2> QED BY <1>3, <2>1, <2>2, <2>3, CancelledRowType
<1>8. GoodWrites(f, {}, g)
  <2>1. f[c] # "accepted_for_routing" /\ f[c] # "filled"
    BY <1>2, <1>3, CancelledRowType DEF Keep
  <2>2. \A d \in Coid : d # c => f[d] = Keep
    OBVIOUS
  <2> HIDE DEF f, g, c
  <2> QED BY <2>1, <2>2, <1>2, <1>5, <1>7 DEF GoodWrites
<1>9. Handle(w, Writes(f, {}, {}, g, Keep))
  <2>1. Handle(w, [WriteRows(f) EXCEPT !.wsug = g])
    BY <1>1
  <2> HIDE DEF f, g
  <2> QED BY <2>1, WritesForms, Zenon
<1>10. K \in SUBSET Coid
  BY <1>2
<1> HIDE DEF f, g
<1> QED BY <1>4, <1>5, <1>6, <1>8, <1>9, <1>10, Zenon DEF HandlerEffect

\* POST /admin/cancel-all-orders.
LEMMA CancelAllEffect ==
    ASSUME TypeOK, NEW w \in Worker, CancelAllOrders(w)
    PROVE  HandlerEffect(w)
<1> DEFINE C == {c \in Coid : row[c] \in {"accepted_for_routing", "broker_cancelled"}}
<1>1. PICK K \in SUBSET C : /\ CancelSuccess(C, K)
                            /\ ord' = CancelRequested(K)
                            /\ Handle(w, WriteRows(CancelWrites(K)))
  BY DEF CancelAllOrders, CancelWrites
<1>2. Handle(w, Writes(CancelWrites(K), {}, {}, NoSugs, Keep))
  BY <1>1, WritesForms, Zenon
<1>3. NoSugs \in SugWrites /\ \A s \in Suggestion : NoSugs[s] # "filled"
  BY WriteSugType DEF NoSugs, Keep
<1>4. \A c \in C : row[c] # "none"
  OBVIOUS
<1>5. C \in SUBSET Coid
  OBVIOUS
<1> HIDE DEF C
<1> QED BY <1>1, <1>2, <1>3, <1>4, <1>5, CancelHandlerEffect

\* POST /admin/reset-week-suggestions.
LEMMA ResetEffect ==
    ASSUME TypeOK, NEW w \in Worker, ResetWeekSuggestions(w)
    PROVE  HandlerEffect(w)
<1>1. PICK S \in SUBSET ResettableSuggestions :
        LET C == {c \in Coid : /\ c[1] \in S
                               /\ row[c] \in {"accepted_for_routing", "broker_cancelled"}}
        IN  \E K \in SUBSET C :
               /\ CancelSuccess(C, K)
               /\ ord' = CancelRequested(K)
               /\ Handle(w, [WriteRows(CancelWrites(K)) EXCEPT !.wsug = WriteSug(S, "pending")])
  BY DEF ResetWeekSuggestions, CancelWrites
<1> DEFINE C == {c \in Coid : /\ c[1] \in S
                              /\ row[c] \in {"accepted_for_routing", "broker_cancelled"}}
           g == WriteSug(S, "pending")
<1>2. PICK K \in SUBSET C :
               /\ CancelSuccess(C, K)
               /\ ord' = CancelRequested(K)
               /\ Handle(w, [WriteRows(CancelWrites(K)) EXCEPT !.wsug = g])
  BY <1>1
<1>3. g \in SugWrites /\ \A s \in Suggestion : g[s] # "filled"
  BY WriteSugType, WriteSugNotFilled DEF SuggestionStatus
<1>4. C \in SUBSET Coid /\ \A c \in C : row[c] # "none"
  OBVIOUS
<1> HIDE DEF C, g
<1>5. Handle(w, Writes(CancelWrites(K), {}, {}, g, Keep))
  BY <1>2, WritesForms, Zenon
<1> QED BY <1>2, <1>3, <1>4, <1>5, CancelHandlerEffect

\* load_targets_into_db.
LEMMA LoadTargetsEffect ==
    ASSUME TypeOK, NEW w \in Worker, LoadTargets(w)
    PROVE  HandlerEffect(w)
<1>1. PICK T \in SUBSET Ticker :
        LET S == {s \in Suggestion : /\ status[s] = "accepted"
                                     /\ WeekOf[s] = Week
                                     /\ TickerOf[s] \in T}
            C == {c \in Coid : c[1] \in S /\ row[c] = "accepted_for_routing"}
        IN  \E K \in SUBSET C :
               /\ CancelSuccess(C, K)
               /\ ord' = CancelRequested(K)
               /\ Handle(w, [WriteRows(CancelWrites(K)) EXCEPT !.wsug = WriteSug(S, "expired")])
  BY DEF LoadTargets, CancelWrites
<1> DEFINE S == {s \in Suggestion : /\ status[s] = "accepted"
                                    /\ WeekOf[s] = Week
                                    /\ TickerOf[s] \in T}
           C == {c \in Coid : c[1] \in S /\ row[c] = "accepted_for_routing"}
           g == WriteSug(S, "expired")
<1>2. PICK K \in SUBSET C :
               /\ CancelSuccess(C, K)
               /\ ord' = CancelRequested(K)
               /\ Handle(w, [WriteRows(CancelWrites(K)) EXCEPT !.wsug = g])
  BY <1>1
<1> HIDE DEF S
<1>3. g \in SugWrites /\ \A s \in Suggestion : g[s] # "filled"
  BY WriteSugType, WriteSugNotFilled DEF SuggestionStatus
<1>4. C \in SUBSET Coid /\ \A c \in C : row[c] # "none"
  OBVIOUS
<1> HIDE DEF C, g
<1>5. Handle(w, Writes(CancelWrites(K), {}, {}, g, Keep))
  BY <1>2, WritesForms, Zenon
<1> QED BY <1>2, <1>3, <1>4, <1>5, CancelHandlerEffect

\* sweep_expired_suggestions.
LEMMA SweepEffect ==
    ASSUME TypeOK, RowInv, NEW w \in Worker, SweepExpiredSuggestions(w)
    PROVE  HandlerEffect(w)
<1> DEFINE A == StaleWith("accepted")
           P == StaleWith("pending")
           C == SweptRows(A)
           g == WriteSug(A \cup P, "expired")
<1>1. PICK G \in SUBSET C, K \in SUBSET C :
             /\ CancelSuccess(C, K)
             /\ ord' = CancelRequested({c \in K : CancelCalled(c, c \in G)})
             /\ Handle(w, [WriteRows([c \in Coid |->
                              IF c \in C THEN CancelledRow(c, c \in G, c \in K) ELSE Keep])
                            EXCEPT !.wsug = g])
  BY DEF SweepExpiredSuggestions
<1> DEFINE L == {c \in K : CancelCalled(c, c \in G)}
           f == [c \in Coid |-> IF c \in C THEN CancelledRow(c, c \in G, c \in K) ELSE Keep]
<1>2. C \in SUBSET Coid /\ \A c \in C : row[c] # "none"
  <2>1. SUFFICES ASSUME NEW c \in C PROVE c \in Coid /\ row[c] # "none"
    OBVIOUS
  <2>2. c \in Coid /\ c[2] \in Idx /\ row[<<c[1], c[2]>>] # "none"
    BY DEF SweptRows, IsFirst, RowsOf
  <2> QED BY <2>2 DEF Coid
<1>3. g \in SugWrites /\ \A s \in Suggestion : g[s] # "filled"
  BY WriteSugType, WriteSugNotFilled DEF SuggestionStatus
<1> HIDE DEF C, g
<1>4. \A c \in Coid : f[c] \in {"broker_cancelled", Keep}
  <2>1. \A c : CancelledRow(c, c \in G, c \in K) \in {"broker_cancelled", Keep}
    BY DEF CancelledRow
  <2> QED BY <2>1
<1>5. f \in RowWrites
  BY <1>4 DEF RowWrites, RowStatus
<1>6. ASSUME NEW c \in Coid, f[c] # Keep
      PROVE  ~Filled(c) /\ Leaving(c)' /\ row[c] # "none"
  <2>1. c \in C /\ row[c] # "none"
    BY <1>2, <1>6
  <2>2. CancelledRow(c, c \in G, c \in K) # Keep
    BY <1>6, <2>1
  <2>3. \/ c \in G /\ ~Live(c) /\ ~Filled(c)
        \/ c \in K /\ CancelCalled(c, c \in G)
    BY <2>2 DEF CancelledRow, CancelCalled
  <2>4. CASE ~Live(c) /\ ~Filled(c)
    <3>1. Leaving(c)
      BY <2>4, <2>1 DEF Leaving, Live, RowInv, TypeOK, OrderStatus
    <3> QED BY <3>1, <2>1, <2>4, <1>1 DEF Leaving, CancelRequested
  <2>5. CASE c \in K /\ CancelCalled(c, c \in G)
    <3>1. c \in L
      BY <2>5
    <3>2. Live(c)
      <4>1. (c \in K) \in CancelAnswer(c)
        BY <1>1, <2>1 DEF CancelSuccess
      <4>2. (c \in K) = TRUE
        BY <2>5
      <4>3. TRUE \in CancelAnswer(c)
        BY <4>1, <4>2, Zenon
      <4> QED BY <4>3, CancelAnswerLive
    <3>3. ord'[c] = IF c \in L /\ ord[c] = "working" THEN "pending_cancel" ELSE ord[c]
      BY <1>1 DEF CancelRequested
    <3>4. ord'[c] \in {"pending_cancel", "closed"}
      <4> HIDE DEF L
      <4> QED BY <3>1, <3>2, <3>3 DEF Live
    <3>5. ~Filled(c)
      BY <3>2 DEF Live, Filled
    <3> QED BY <3>4, <3>5, <2>1 DEF Leaving
  <2> QED BY <2>1, <2>3, <2>4, <2>5
<1>7. GoodWrites(f, {}, g)
  <2> HIDE DEF f
  <2> QED BY <1>3, <1>4, <1>6 DEF GoodWrites, Keep
<1>8. Handle(w, Writes(f, {}, {}, g, Keep))
  <2>1. Handle(w, [WriteRows(f) EXCEPT !.wsug = g])
    BY <1>1
  <2> HIDE DEF f
  <2> QED BY <2>1, WritesForms, Zenon
<1>9. L \in SUBSET Coid /\ ord' = CancelRequested(L)
  BY <1>1, <1>2
<1> HIDE DEF f, L
<1> QED BY <1>3, <1>5, <1>7, <1>8, <1>9, Zenon DEF HandlerEffect

\* reconcile_activities and the parts that follow it.
LEMMA ReconcileEffect ==
    ASSUME TypeOK, RowInv, NEW w \in Worker, Reconcile(w)
    PROVE  HandlerEffect(w)
<1> DEFINE v1(A) == PersistedRow(A)
           F(A) == PersistedFilled(A)
           Y(A, synced) == IF synced THEN SyncedRows(v1(A)) ELSE {}
           v2(A, synced) == [c \in Coid |-> IF c \in Y(A, synced) THEN "broker_cancelled"
                                                                  ELSE v1(A)[c]]
           X(A, synced) == {s \in InferredCancels(v2(A, synced), Y(A, synced)) :
                               status[s] = "accepted" /\ s \notin F(A)}
<1>1. PICK A \in SUBSET {c \in Coid : ord[c] = "closed" /\ qty[c] > 0},
           synced \in {TRUE} \cup (IF "get" \in Faults THEN {FALSE} ELSE {}) :
          /\ Handle(w, [IdleTx EXCEPT
                  !.wrow = [c \in Coid |-> IF c \in A \cup Y(A, synced)
                                             THEN v2(A, synced)[c] ELSE Keep],
                  !.ins = {c \in A : row[c] = "none"},
                  !.stamp = Y(A, synced),
                  !.wsug = [s \in Suggestion |->
                              IF s \in F(A) THEN "filled"
                              ELSE IF s \in X(A, synced) THEN "cancelled" ELSE Keep]])
          /\ ord' = ord
  BY Zenon DEF Reconcile
<1> DEFINE y == Y(A, synced)
           f == [c \in Coid |-> IF c \in A \cup y THEN v2(A, synced)[c] ELSE Keep]
           i == {c \in A : row[c] = "none"}
           g == [s \in Suggestion |-> IF s \in F(A) THEN "filled"
                                      ELSE IF s \in X(A, synced) THEN "cancelled" ELSE Keep]
<1>2. y \in SUBSET Coid /\ \A c \in y : /\ v1(A)[c] = "accepted_for_routing"
                                        /\ ord[c] = "closed" /\ ~Filled(c)
  BY DEF SyncedRows
<1>3. \A c \in Coid : /\ f[c] \in {"broker_cancelled", "filled", "canceled", Keep}
                      /\ f[c] # Keep => ord[c] = "closed" /\ (row[c] # "none" \/ c \in i)
                                        /\ (f[c] = "filled" <=> Filled(c))
  <2>1. SUFFICES ASSUME NEW c \in Coid
                 PROVE  /\ f[c] \in {"broker_cancelled", "filled", "canceled", Keep}
                        /\ f[c] # Keep => ord[c] = "closed" /\ (row[c] # "none" \/ c \in i)
                                          /\ (f[c] = "filled" <=> Filled(c))
    OBVIOUS
  <2>2. CASE c \in y
    <3>1. f[c] = "broker_cancelled" /\ ord[c] = "closed"
      BY <2>2, <1>2
    <3>2. row[c] # "none" \/ c \in i
      BY <2>2, <1>2 DEF PersistedRow
    <3> QED BY <3>1, <3>2, <2>2, <1>2
  <2>3. CASE c \notin y /\ c \in A
    <3>1. f[c] = ActivityStatus(c)
      BY <2>3 DEF PersistedRow
    <3>2. ord[c] = "closed" /\ (row[c] # "none" \/ c \in i)
      BY <2>3, <1>1
    <3>3. ActivityStatus(c) \in {"filled", "canceled"} /\ (ActivityStatus(c) = "filled" <=> Filled(c))
      BY DEF ActivityStatus
    <3> HIDE DEF f, i
    <3> QED BY <3>1, <3>2, <3>3
  <2>4. CASE c \notin A \cup y
    BY <2>4
  <2> QED BY <2>2, <2>3, <2>4
<1>4. f \in RowWrites
  BY <1>3 DEF RowWrites, RowStatus
<1>5. i \in SUBSET Coid
  BY <1>1
<1>6. g \in SugWrites
  BY DEF SugWrites, SuggestionStatus
<1>7. \A s \in Suggestion : g[s] = "filled" => \E n \in Idx : Filled(<<s, n>>)
  <2>1. SUFFICES ASSUME NEW s \in Suggestion, g[s] = "filled"
                 PROVE  \E n \in Idx : Filled(<<s, n>>)
    OBVIOUS
  <2>2. s \in F(A)
    BY <2>1 DEF Keep
  <2>3. PICK c \in A : c[1] = s /\ Filled(c)
    BY <2>2 DEF PersistedFilled
  <2>4. c = <<s, c[2]>> /\ c[2] \in Idx
    BY <2>3, <1>1 DEF Coid
  <2> QED BY <2>3, <2>4
<1>8. GoodWrites(f, i, g)
  <2>1. \A c \in Coid : ord[c] = "closed" => Leaving(c)'
    BY <1>1 DEF Leaving
  <2> HIDE DEF f, i, g
  <2> QED BY <1>3, <1>7, <2>1 DEF GoodWrites, Keep
<1>9. Handle(w, Writes(f, i, y, g, Keep))
  <2>1. Handle(w, [IdleTx EXCEPT !.wrow = f, !.ins = i, !.stamp = y, !.wsug = g])
    BY <1>1
  <2> HIDE DEF f, i, y, g
  <2> QED BY <2>1, ReconcileForm, Zenon
<1>10. ord' = CancelRequested({})
  BY <1>1, CancelNone
<1> HIDE DEF f, i, y, g
<1> QED BY <1>2, <1>4, <1>5, <1>6, <1>8, <1>9, <1>10, Zenon DEF HandlerEffect

\* set_mode, and the kill switch called by the emergency stop.
LEMMA ModeEffect ==
    ASSUME TypeOK, NEW w \in Worker,
           (\E m \in Mode : Promote(w, m)) \/ EmergencyStop(w)
    PROVE  HandlerEffect(w)
<1>1. PICK m \in Mode, K \in SUBSET Coid : /\ Handle(w, [IdleTx EXCEPT !.wmode = m])
                                           /\ ord' = CancelRequested(K)
  <2>1. CASE \E m \in Mode : Promote(w, m)
    BY <2>1, CancelNone DEF Promote
  <2>2. CASE EmergencyStop(w)
    <3>1. KillTargets(w) \in SUBSET Coid
      BY DEF KillTargets
    <3> QED BY <2>2, <3>1 DEF EmergencyStop, Mode
  <2> QED BY <2>1, <2>2
<1>2. Handle(w, Writes(NoRows, {}, {}, NoSugs, m))
  BY <1>1, WritesForms, Zenon
<1>3. GoodWrites(NoRows, {}, NoSugs)
  BY GoodNoRows DEF NoSugs, Keep
<1> QED BY <1>1, <1>2, <1>3, WriteSugType, Zenon DEF HandlerEffect

\* Every handler but the auto-trade pass has the common shape.
LEMMA HandlerShape ==
    ASSUME TypeOK, RowInv, NEW w \in Worker, Handler(w)
    PROVE  HandlerEffect(w) \/ BeginPass(w)
<1>1. CASE PersistSuggestions(w)
  BY <1>1, SugHandlerEffect DEF PersistSuggestions, SuggestionStatus
<1>2. ASSUME NEW s \in Suggestion, NEW st \in {"accepted", "rejected"}, ActOnSuggestion(w, s, st)
      PROVE  HandlerEffect(w)
  BY <1>2, SugHandlerEffect DEF ActOnSuggestion, SuggestionStatus
<1>3. ASSUME NEW s \in Suggestion, UnacceptUnplaced(w, s)
      PROVE  HandlerEffect(w)
  BY <1>3, SugHandlerEffect DEF UnacceptUnplaced, SuggestionStatus
<1> QED BY <1>1, <1>2, <1>3, UnacceptEffect, CancelAllEffect, ResetEffect, SweepEffect,
           LoadTargetsEffect, ReconcileEffect, ModeEffect, Zenon DEF Handler

-----------------------------------------------------------------------------
(* Type correctness *)

\* A step replaces the transaction of one worker.
LEMMA BecomesFacts ==
    ASSUME TypeOK, NEW w \in Worker, NEW t \in Tx, Becomes(w, t)
    PROVE  /\ tx' \in [Worker -> Tx]
           /\ tx'[w] = t
           /\ \A v \in Worker : v # w => tx'[v] = tx[v]
<1>1. tx \in [Worker -> Tx]
  BY DEF TypeOK
<1> QED BY <1>1 DEF Becomes

\* The fields of a transaction after each kind of step of a pass.
LEMMA PcUpdate ==
    ASSUME NEW t \in Tx, NEW q,
           NEW pc \in {"guard", "check", "submit", "record", "kill", "commit"},
           q = [t EXCEPT !.pc = pc]
    PROVE  /\ q \in Tx /\ q.pc = pc
           /\ q.todo = t.todo /\ q.cur = t.cur /\ q.idx = t.idx
           /\ q.wrow = t.wrow /\ q.ins = t.ins /\ q.wsug = t.wsug /\ q.mode = t.mode
<1>1. [t EXCEPT !.pc = pc] \in Tx
  BY DEF Tx
<1> QED BY <1>1 DEF Tx

\* The fields of a handler's transaction.
LEMMA WritesFields ==
    ASSUME NEW f, NEW i, NEW p, NEW g, NEW m
    PROVE  /\ Writes(f, i, p, g, m).todo = {}
           /\ Writes(f, i, p, g, m).cur = None
           /\ Writes(f, i, p, g, m).wrow = f
           /\ Writes(f, i, p, g, m).ins = i
           /\ Writes(f, i, p, g, m).wsug = g
BY DEF Writes

\* The transaction after BeginPass.
BeginTx(t, md, S) == [t EXCEPT !.pc = "guard", !.mode = md, !.todo = S]

\* The fields of a transaction that begins a pass.
LEMMA BeginUpdate ==
    ASSUME NEW t \in Tx, NEW q, NEW md \in Mode, NEW S \in SUBSET Suggestion,
           q = BeginTx(t, md, S)
    PROVE  /\ q \in Tx /\ q.pc = "guard" /\ q.mode = md
           /\ q.todo = S /\ q.cur = t.cur /\ q.idx = t.idx
           /\ q.wrow = t.wrow /\ q.ins = t.ins /\ q.wsug = t.wsug
<1>1. [t EXCEPT !.pc = "guard", !.mode = md, !.todo = S] \in Tx
  BY DEF Tx
<1> QED BY <1>1 DEF Tx, BeginTx

\* The transaction after Continue.
ContinueTx(t, s, f) == [t EXCEPT !.pc = "guard", !.todo = @ \ {s}, !.cur = None, !.wrow = f]

\* The fields of a transaction that goes on with the next suggestion.
LEMMA ContinueUpdate ==
    ASSUME NEW t \in Tx, NEW q, NEW s, NEW f \in RowWrites, q = ContinueTx(t, s, f)
    PROVE  /\ q \in Tx /\ q.pc = "guard"
           /\ q.todo = t.todo \ {s} /\ q.cur = None
           /\ q.wrow = f /\ q.ins = t.ins /\ q.wsug = t.wsug /\ q.mode = t.mode
<1>1. [t EXCEPT !.pc = "guard", !.todo = @ \ {s}, !.cur = None, !.wrow = f] \in Tx
  BY DEF Tx, RowWrites
<1> QED BY <1>1 DEF Tx, ContinueTx

\* The transaction after a suggestion has passed the guards.
CheckTx(t, s, f) == [t EXCEPT !.pc = "check", !.cur = s, !.todo = @ \ {s}, !.wrow = f]

\* The fields of a transaction whose suggestion has passed the guards.
LEMMA CheckUpdate ==
    ASSUME NEW t \in Tx, NEW q, NEW s \in Suggestion, NEW f \in RowWrites, q = CheckTx(t, s, f)
    PROVE  /\ q \in Tx /\ q.pc = "check"
           /\ q.todo = t.todo \ {s} /\ q.cur = s
           /\ q.wrow = f /\ q.ins = t.ins /\ q.wsug = t.wsug /\ q.mode = t.mode
<1>1. [t EXCEPT !.pc = "check", !.cur = s, !.todo = @ \ {s}, !.wrow = f] \in Tx
  BY DEF Tx, RowWrites
<1> QED BY <1>1 DEF Tx, CheckTx

\* The fields of a transaction that adds a dry_run row.
LEMMA DryRunUpdate ==
    ASSUME NEW t \in Tx, NEW q, NEW s \in Suggestion,
           q = [t EXCEPT !.todo = @ \ {s}, !.wdry = @ \cup {s}]
    PROVE  /\ q \in Tx /\ q.pc = t.pc
           /\ q.todo = t.todo \ {s} /\ q.cur = t.cur /\ q.idx = t.idx
           /\ q.wrow = t.wrow /\ q.ins = t.ins /\ q.wsug = t.wsug /\ q.mode = t.mode
<1>1. [t EXCEPT !.todo = @ \ {s}, !.wdry = @ \cup {s}] \in Tx
  BY DEF Tx
<1> QED BY <1>1 DEF Tx

\* The transaction once the client_order_id is chosen.
SubmitTx(t, n) == [t EXCEPT !.pc = "submit", !.idx = n]

\* The fields of a transaction that has chosen its client_order_id.
LEMMA SubmitUpdate ==
    ASSUME NEW t \in Tx, NEW q, NEW n \in Idx, q = SubmitTx(t, n)
    PROVE  /\ q \in Tx /\ q.pc = "submit"
           /\ q.todo = t.todo /\ q.cur = t.cur /\ q.idx = n
           /\ q.wrow = t.wrow /\ q.ins = t.ins /\ q.wsug = t.wsug /\ q.mode = t.mode
<1>1. [t EXCEPT !.pc = "submit", !.idx = n] \in Tx
  BY DEF Tx
<1> QED BY <1>1 DEF Tx, SubmitTx

\* The transaction once the order has its row.
RecordTx(t, c) == [t EXCEPT !.pc = "guard", !.cur = None, !.ins = @ \cup {c},
                            !.wrow = [@ EXCEPT ![c] = "accepted_for_routing"]]

\* The fields of a transaction that adds the row of a submitted order.
LEMMA RecordUpdate ==
    ASSUME NEW t \in Tx, NEW q, NEW c \in Coid, q = RecordTx(t, c)
    PROVE  /\ q \in Tx /\ q.pc = "guard"
           /\ q.todo = t.todo /\ q.cur = None
           /\ q.wrow = [t.wrow EXCEPT ![c] = "accepted_for_routing"]
           /\ q.ins = t.ins \cup {c} /\ q.wsug = t.wsug /\ q.mode = t.mode
<1>1. [t EXCEPT !.pc = "guard", !.cur = None, !.ins = @ \cup {c},
                !.wrow = [@ EXCEPT ![c] = "accepted_for_routing"]] \in Tx
  BY DEF Tx, RowStatus
<1> QED BY <1>1 DEF Tx, RecordTx

\* The fields of a transaction that trips the kill switch.
LEMMA KillUpdate ==
    ASSUME NEW t \in Tx, NEW q,
           q = [t EXCEPT !.pc = "commit", !.wmode = "OFF"]
    PROVE  /\ q \in Tx /\ q.pc = "commit"
           /\ q.todo = t.todo /\ q.cur = t.cur /\ q.idx = t.idx
           /\ q.wrow = t.wrow /\ q.ins = t.ins /\ q.wsug = t.wsug /\ q.mode = t.mode
<1>1. [t EXCEPT !.pc = "commit", !.wmode = "OFF"] \in Tx
  BY DEF Tx, Mode
<1> QED BY <1>1 DEF Tx

-----------------------------------------------------------------------------
(* The inductive invariant *)

\* What no step undoes: an order exists, is leaving, or has a row.
Monotone ==
    \A c \in Coid : /\ ord[c] # "none" => ord'[c] # "none"
                    /\ Leaving(c) => Leaving(c)'
                    /\ row[c] # "none" => row'[c] # "none"

\* A worker whose transaction does not change keeps its part of the invariant.
LEMMA OtherWorkers ==
    ASSUME TypeOK, Monotone, NEW v \in Worker, tx'[v] = tx[v], WriteInv(v), PassInv(v)
    PROVE  WriteInv(v)' /\ PassInv(v)'
<1> DEFINE t == tx[v]
<1>0. t \in Tx /\ t.wrow \in RowWrites /\ t.idx \in Idx
  BY TxFields DEF TypeOK
<1>1. WriteInv(v)'
  BY <1>0 DEF WriteInv, Monotone
<1>2. PassInv(v)'
  <2>1. ASSUME t.cur \in Suggestion, NEW m \in Idx
        PROVE  <<t.cur, m>> \in Coid
    BY <2>1 DEF Coid
  <2>2. t.pc = "submit" => (\/ ord[<<t.cur, t.idx>>] # "none"
                            \/ \A m \in Idx : (m < t.idx) =>
                                 (row[<<t.cur, m>>] # "none" /\ Leaving(<<t.cur, m>>)))'
    BY <1>0, <2>1 DEF PassInv, Placing, Monotone
  <2>3. t.pc = "record" => ord'[<<t.cur, t.idx>>] # "none"
    BY <1>0, <2>1 DEF PassInv, Placing, Monotone
  <2> QED BY <2>2, <2>3 DEF PassInv, Placing
<1> QED BY <1>1, <1>2

\* An idle worker's part of the invariant.
LEMMA IdleWorker ==
    ASSUME NEW v \in Worker, tx'[v] = IdleTx
    PROVE  WriteInv(v)' /\ PassInv(v)'
BY ConstantsAssumption DEF WriteInv, PassInv, IdleTx

\* The invariant, when the step of one worker keeps that worker's part.
LEMMA StepOfWorker ==
    ASSUME IInv, TypeOK', RowInv', FenceInv', Monotone, NEW w \in Worker,
           \A v \in Worker : v # w => tx'[v] = tx[v],
           WriteInv(w)', PassInv(w)'
    PROVE  IInv'
<1>1. ASSUME NEW v \in Worker, v # w PROVE WriteInv(v)' /\ PassInv(v)'
  BY <1>1, OtherWorkers DEF IInv
<1>2. \A v \in Worker : WriteInv(v)' /\ PassInv(v)'
  BY <1>1
<1> QED BY <1>2 DEF IInv

\* Steps that leave the rows alone and create no order.
LEMMA NoNewOrder ==
    ASSUME TypeOK, RowInv, FenceInv, row' = row,
           \A c \in Coid : /\ ord[c] = "none" <=> ord'[c] = "none"
                           /\ Leaving(c) => Leaving(c)'
    PROVE  Monotone /\ RowInv' /\ FenceInv'
<1>1. Monotone
  BY DEF Monotone
<1>2. RowInv'
  BY DEF RowInv
<1>3. FenceInv'
  BY DEF FenceInv, Coid
<1> QED BY <1>1, <1>2, <1>3

\* A cancel request creates no order.
LEMMA CancelCreatesNone ==
    ASSUME TypeOK, NEW K, ord' = CancelRequested(K)
    PROVE  \A c \in Coid : /\ ord[c] = "none" <=> ord'[c] = "none"
                           /\ Leaving(c) => Leaving(c)'
BY DEF CancelRequested, Leaving

\* The start of a handler.
LEMMA EffectInv ==
    ASSUME IInv, NEW w \in Worker, HandlerEffect(w)
    PROVE  IInv'
<1>1. PICK f \in RowWrites, i \in SUBSET Coid, p \in SUBSET Coid, g \in SugWrites,
           m \in Mode \cup {Keep}, K \in SUBSET Coid :
             /\ Handle(w, Writes(f, i, p, g, m))
             /\ ord' = CancelRequested(K)
             /\ GoodWrites(f, i, g)
  BY DEF HandlerEffect
<1>0. PICK q : q = [Writes(f, i, p, g, m) EXCEPT !.pc = "commit"]
  OBVIOUS
<1>2. /\ q \in Tx
      /\ q.pc = "commit" /\ q.todo = {} /\ q.cur = None
      /\ q.wrow = f /\ q.ins = i /\ q.wsug = g
  <2>1. Writes(f, i, p, g, m) \in Tx
    BY WritesType
  <2> QED BY <1>0, <2>1, PcUpdate, WritesFields
<1>3. Becomes(w, q) /\ UNCHANGED <<db, clock, lock, qty>>
  BY <1>0, <1>1, Zenon DEF Handle
<1>4. /\ tx' \in [Worker -> Tx]
      /\ tx'[w] = q
      /\ \A v \in Worker : v # w => tx'[v] = tx[v]
  BY <1>2, <1>3, BecomesFacts DEF IInv
<1>5. TypeOK'
  <2>1. ord' \in [Coid -> OrderStatus]
    BY <1>1, CancelRequestedType DEF IInv
  <2> QED BY <1>3, <1>4, <2>1 DEF IInv, TypeOK, db
<1>6. Monotone /\ RowInv' /\ FenceInv'
  BY <1>1, <1>3, CancelCreatesNone, NoNewOrder DEF IInv, db
<1>7. WriteInv(w)'
  <2>1. SUFFICES ASSUME NEW c \in Coid, f[c] # Keep
                 PROVE  /\ ord'[c] # "none"
                        /\ Leaving(c)'
                        /\ row[c] # "none" \/ c \in i
    BY <1>2, <1>3, <1>4 DEF WriteInv, db
  <2> QED BY <1>1, <2>1 DEF GoodWrites, Leaving
<1>8. PassInv(w)'
  <2>1. \A c \in i : c[1] # None
    BY ConstantsAssumption DEF Coid
  <2> QED BY <1>2, <1>4, <2>1 DEF PassInv
<1> QED BY <1>4, <1>5, <1>6, <1>7, <1>8, StepOfWorker

\* A pass begins.
LEMMA BeginPassInv ==
    ASSUME IInv, NEW w \in Worker, BeginPass(w)
    PROVE  IInv'
<1>0. PICK q : q = BeginTx(tx[w], PassMode, FetchAcceptedUnexecuted)
  OBVIOUS
<1>1. PassMode \in Mode /\ FetchAcceptedUnexecuted \in SUBSET Suggestion /\ tx[w] \in Tx
  BY DEF IInv, TypeOK, PassMode, FetchAcceptedUnexecuted
<1>2. /\ q \in Tx /\ q.pc = "guard" /\ q.cur = tx[w].cur
      /\ q.wrow = tx[w].wrow /\ q.ins = tx[w].ins
  BY <1>0, <1>1, BeginUpdate
<1>3. tx[w].cur = None /\ tx[w].wrow = NoRows /\ tx[w].ins = {}
  BY DEF BeginPass, IInv, PassInv, IdleTx, NoRows
<1>4. Becomes(w, q) /\ UNCHANGED <<db, ord, qty, clock, lock>>
  BY <1>0, Zenon DEF BeginPass, BeginTx
<1>5. /\ tx' \in [Worker -> Tx]
      /\ tx'[w] = q
      /\ \A v \in Worker : v # w => tx'[v] = tx[v]
  BY <1>2, <1>4, BecomesFacts DEF IInv
<1>6. TypeOK'
  BY <1>4, <1>5 DEF IInv, TypeOK, db
<1>7. Monotone /\ RowInv' /\ FenceInv'
  BY <1>4, NoNewOrder DEF IInv, db, Leaving
<1>8. WriteInv(w)'
  BY <1>2, <1>3, <1>5 DEF WriteInv, NoRows
<1>9. PassInv(w)'
  <2>1. None \notin q.todo
    BY <1>2, TxFields, ConstantsAssumption
  <2> QED BY <1>2, <1>3, <1>5, <2>1 DEF PassInv
<1> QED BY <1>5, <1>6, <1>7, <1>8, <1>9, StepOfWorker

\* A worker goes back to idle: rollback, conflict, uncaught exception.
LEMMA BackToIdleInv ==
    ASSUME IInv, NEW w \in Worker, Becomes(w, IdleTx), NEW K, ord' = CancelRequested(K),
           lock' \in Worker \cup {None}, UNCHANGED <<db, qty, clock>>
    PROVE  IInv'
<1>1. /\ tx' \in [Worker -> Tx]
      /\ tx'[w] = IdleTx
      /\ \A v \in Worker : v # w => tx'[v] = tx[v]
  BY IdleTxType, BecomesFacts DEF IInv
<1>2. TypeOK'
  <2>1. ord' \in [Coid -> OrderStatus]
    BY CancelRequestedType DEF IInv
  <2> QED BY <1>1, <2>1 DEF IInv, TypeOK, db
<1>3. Monotone /\ RowInv' /\ FenceInv'
  BY CancelCreatesNone, NoNewOrder DEF IInv, db
<1> QED BY <1>1, <1>2, <1>3, IdleWorker, StepOfWorker

\* A transaction commits.
LEMMA CommitInv ==
    ASSUME IInv, NEW w \in Worker, Commit(w)
    PROVE  IInv'
<1>0. /\ tx[w] \in Tx /\ tx[w].wrow \in RowWrites /\ tx[w].wsug \in SugWrites
      /\ tx[w].wmode \in Mode \cup {Keep} /\ tx[w].wdry \in SUBSET Suggestion
      /\ tx[w].stamp \in SUBSET Coid
  BY TxFields DEF IInv, TypeOK
<1>1. /\ tx' \in [Worker -> Tx]
      /\ tx'[w] = IdleTx
      /\ \A v \in Worker : v # w => tx'[v] = tx[v]
  BY IdleTxType, BecomesFacts DEF IInv, Commit
<1>2. TypeOK'
  <2>1. row' \in [Coid -> RowStatus]
    BY ViewType DEF Commit, IInv
  <2>2. status' \in [Suggestion -> SuggestionStatus]
    BY <1>0 DEF Commit, IInv, TypeOK, SugWrites
  <2>3. recent' \in SUBSET Coid /\ dry' \in SUBSET Suggestion /\ mode' \in Mode
        /\ lock' \in Worker \cup {None}
    BY <1>0 DEF Commit, IInv, TypeOK
  <2>4. cancelledAt' \in [Coid -> {"null", "fresh", "old"}]
    BY DEF Commit, IInv, TypeOK
  <2> QED BY <1>1, <2>1, <2>2, <2>3, <2>4 DEF Commit, IInv, TypeOK
<1>3. \A c \in Coid : /\ row[c] # "none" => row'[c] # "none"
                      /\ row'[c] # "none" => ord[c] # "none"
                      /\ row'[c] \notin {"none", "accepted_for_routing"} => Leaving(c)
  <2>1. SUFFICES ASSUME NEW c \in Coid
                 PROVE  /\ row[c] # "none" => row'[c] # "none"
                        /\ row'[c] # "none" => ord[c] # "none"
                        /\ row'[c] \notin {"none", "accepted_for_routing"} => Leaving(c)
    OBVIOUS
  <2>2. CASE tx[w].wrow[c] = Keep
    BY <2>2 DEF Commit, View, IInv, RowInv
  <2>3. CASE tx[w].wrow[c] # Keep
    <3>1. row'[c] = tx[w].wrow[c] /\ tx[w].wrow[c] # "none"
      BY <2>3, <1>0 DEF Commit, View, RowWrites, Keep
    <3> QED BY <2>3, <3>1 DEF IInv, WriteInv
  <2> QED BY <2>2, <2>3
<1>4. ord' = ord
  BY DEF Commit
<1>5. Monotone /\ RowInv'
  BY <1>3, <1>4 DEF Monotone, RowInv, Leaving
<1>6. FenceInv'
  BY <1>3, <1>4 DEF FenceInv, IInv, Coid, Leaving
<1> QED BY <1>1, <1>2, <1>5, <1>6, IdleWorker, StepOfWorker

\* The broker and the calendar.
LEMMA EnvironmentInv ==
    ASSUME IInv, Environment
    PROVE  IInv'
<1>1. /\ row' = row /\ tx' = tx
      /\ \A c \in Coid : /\ ord[c] = "none" <=> ord'[c] = "none"
                         /\ Leaving(c) => Leaving(c)'
  <2>1. ASSUME NEW c \in Coid, Execute(c) \/ CloseAtBroker(c)
        PROVE  /\ row' = row /\ tx' = tx
               /\ \A d \in Coid : /\ ord[d] = "none" <=> ord'[d] = "none"
                                  /\ Leaving(d) => Leaving(d)'
    BY <2>1 DEF Execute, CloseAtBroker, Live, Leaving, IInv, TypeOK, db
  <2>2. CASE NewDay \/ AdvanceClock
    BY <2>2 DEF NewDay, AdvanceClock, Leaving
  <2> QED BY <2>1, <2>2 DEF Environment
<1>2. TypeOK'
  <2>1. ASSUME NEW c \in Coid, Execute(c) \/ CloseAtBroker(c)
        PROVE  TypeOK'
    BY <2>1 DEF Execute, CloseAtBroker, IInv, TypeOK, OrderStatus, db
  <2>2. CASE NewDay \/ AdvanceClock
    <3>1. Aged \in [Coid -> {"null", "fresh", "old"}]
      BY DEF IInv, TypeOK, Aged
    <3> QED BY <2>2, <3>1 DEF NewDay, AdvanceClock, IInv, TypeOK
  <2> QED BY <2>1, <2>2 DEF Environment
<1>3. Monotone /\ RowInv' /\ FenceInv'
  BY <1>1, NoNewOrder DEF IInv
<1>4. \A v \in Worker : WriteInv(v)' /\ PassInv(v)'
  BY <1>1, <1>3, OtherWorkers DEF IInv
<1> QED BY <1>2, <1>3, <1>4 DEF IInv

\* A step of a pass that creates no order.
LEMMA QuietStep ==
    ASSUME IInv, NEW w \in Worker, NEW q \in Tx, Becomes(w, q), NEW K, ord' = CancelRequested(K),
           lock' \in Worker \cup {None}, UNCHANGED <<db, qty, clock>>,
           tx'[w] = q => WriteInv(w)' /\ PassInv(w)'
    PROVE  IInv'
<1>1. /\ tx' \in [Worker -> Tx]
      /\ tx'[w] = q
      /\ \A v \in Worker : v # w => tx'[v] = tx[v]
  BY BecomesFacts DEF IInv
<1>2. TypeOK'
  <2>1. ord' \in [Coid -> OrderStatus]
    BY CancelRequestedType DEF IInv
  <2> QED BY <1>1, <2>1 DEF IInv, TypeOK, db
<1>3. Monotone /\ RowInv' /\ FenceInv'
  BY CancelCreatesNone, NoNewOrder DEF IInv, db
<1> QED BY <1>1, <1>2, <1>3, StepOfWorker

\* Row writes stay good: the new ones are given, the old ones are kept.
GoodRows(f, ins) ==
    \A c \in Coid : f[c] # Keep => /\ ord'[c] # "none"
                                   /\ f[c] # "accepted_for_routing" => Leaving(c)'
                                   /\ row[c] # "none" \/ c \in ins

\* The writes a worker holds are good after a step that is monotone.
LEMMA OldRowsGood ==
    ASSUME IInv, NEW w \in Worker, NEW K, ord' = CancelRequested(K)
    PROVE  GoodRows(tx[w].wrow, tx[w].ins)
BY CancelCreatesNone DEF GoodRows, IInv, WriteInv

\* The suggestions of inserted rows are real ones.
LEMMA InsertedNotNone ==
    ASSUME IInv, NEW w \in Worker
    PROVE  \A c \in tx[w].ins : c[1] # None
<1>1. tx[w].ins \in SUBSET Coid
  BY TxFields DEF IInv, TypeOK
<1> QED BY <1>1, ConstantsAssumption DEF Coid

\* The pass goes on with the next suggestion.
LEMMA ContinueInv ==
    ASSUME IInv, NEW w \in Worker, NEW s, NEW f \in RowWrites, Continue(w, s, f),
           NEW K, ord' = CancelRequested(K), GoodRows(f, tx[w].ins),
           lock' \in Worker \cup {None}, UNCHANGED <<db, qty, clock>>
    PROVE  IInv'
<1>0. PICK q : q = ContinueTx(tx[w], s, f)
  OBVIOUS
<1>1. tx[w] \in Tx
  BY DEF IInv, TypeOK
<1>2. /\ q \in Tx /\ q.pc = "guard" /\ q.todo = tx[w].todo \ {s} /\ q.cur = None
      /\ q.wrow = f /\ q.ins = tx[w].ins
  BY <1>0, <1>1, ContinueUpdate
<1>3. Becomes(w, q)
  BY <1>0, Zenon DEF Continue, ContinueTx
<1>4. ASSUME tx'[w] = q PROVE WriteInv(w)' /\ PassInv(w)'
  <2>1. WriteInv(w)'
    BY <1>2, <1>4 DEF WriteInv, GoodRows, db
  <2>2. None \notin q.todo
    BY <1>2, TxFields, ConstantsAssumption
  <2>3. \A c \in q.ins : c[1] \notin q.todo \cup {None}
    BY <1>2, InsertedNotNone DEF IInv, PassInv
  <2>4. PassInv(w)'
    BY <1>2, <1>4, <2>2, <2>3 DEF PassInv
  <2> QED BY <2>1, <2>4
<1> QED BY <1>2, <1>3, <1>4, QuietStep

\* The row writes of a pass stay well typed.
LEMMA RowWritesType ==
    ASSUME TypeOK, NEW w \in Worker
    PROVE  /\ tx[w].wrow \in RowWrites
           /\ \A D : [c \in Coid |-> IF c \in D THEN "broker_cancelled" ELSE tx[w].wrow[c]]
                        \in RowWrites
           /\ \A c : [tx[w].wrow EXCEPT ![c] = "accepted_for_routing"] \in RowWrites
<1>1. tx[w].wrow \in RowWrites
  BY TxFields DEF TypeOK
<1> QED BY <1>1 DEF RowWrites, RowStatus

\* The rows that _check_stale_live_order marks belong to leaving orders.
LEMMA StaleRowsGood ==
    ASSUME IInv, NEW w \in Worker, NEW s, NEW D, D \subseteq StaleRows(View(w), s),
           ord' = CancelRequested({c \in D : Live(c)})
    PROVE  GoodRows([c \in Coid |-> IF c \in D THEN "broker_cancelled" ELSE tx[w].wrow[c]],
                    tx[w].ins)
<1> DEFINE f == [c \in Coid |-> IF c \in D THEN "broker_cancelled" ELSE tx[w].wrow[c]]
<1>1. SUFFICES ASSUME NEW c \in Coid, f[c] # Keep
               PROVE  /\ ord'[c] # "none"
                      /\ f[c] # "accepted_for_routing" => Leaving(c)'
                      /\ row[c] # "none" \/ c \in tx[w].ins
  BY DEF GoodRows
<1>2. CASE c \notin D
  <2>1. f[c] = tx[w].wrow[c]
    BY <1>2
  <2> HIDE DEF f
  <2> QED BY <1>1, <2>1, OldRowsGood DEF GoodRows
<1>3. CASE c \in D
  <2>1. View(w)[c] = "accepted_for_routing"
    BY <1>3 DEF StaleRows
  <2>2. ord[c] # "none" /\ (row[c] # "none" \/ c \in tx[w].ins)
    BY <2>1 DEF View, IInv, RowInv, WriteInv
  <2>3. ord[c] \in {"working", "pending_cancel", "closed"}
    BY <2>2 DEF IInv, TypeOK, OrderStatus
  <2>4. ord'[c] = IF Live(c) /\ ord[c] = "working" THEN "pending_cancel" ELSE ord[c]
    BY <1>3 DEF CancelRequested
  <2>5. ord'[c] \in {"pending_cancel", "closed"}
    BY <2>3, <2>4 DEF Live
  <2> QED BY <2>2, <2>5 DEF Leaving
<1> QED BY <1>2, <1>3

\* The guards in LIVE mode.
LEMMA GuardLiveInv ==
    ASSUME IInv, NEW w \in Worker, NEW s \in Suggestion, GuardLive(w, s)
    PROVE  IInv'
<1> DEFINE f(D) == [c \in Coid |-> IF c \in D THEN "broker_cancelled" ELSE tx[w].wrow[c]]
<1>1. PICK D \in SUBSET StaleRows(View(w), s), ok \in BOOLEAN :
          /\ ord' = CancelRequested({c \in D : Live(c)})
          /\ lock' = IF D # {} THEN w ELSE lock
          /\ IF ok THEN Becomes(w, [tx[w] EXCEPT !.pc = "check", !.cur = s,
                                                 !.todo = @ \ {s}, !.wrow = f(D)])
                   ELSE Continue(w, s, f(D))
  BY DEF GuardLive
<1>2. lock' \in Worker \cup {None} /\ UNCHANGED <<db, qty, clock>> /\ s \in tx[w].todo
  BY <1>1 DEF GuardLive, IInv, TypeOK
<1>3. GoodRows(f(D), tx[w].ins) /\ f(D) \in RowWrites
  BY <1>1, StaleRowsGood, RowWritesType DEF IInv
<1> HIDE DEF f
<1>4. CASE ~ok
  BY <1>1, <1>2, <1>3, <1>4, ContinueInv
<1>5. CASE ok
  <2>0. PICK q : q = CheckTx(tx[w], s, f(D))
    OBVIOUS
  <2>1. tx[w] \in Tx
    BY DEF IInv, TypeOK
  <2>2. /\ q \in Tx /\ q.pc = "check" /\ q.todo = tx[w].todo \ {s} /\ q.cur = s
        /\ q.wrow = f(D) /\ q.ins = tx[w].ins
    BY <1>3, <2>0, <2>1, CheckUpdate
  <2>3. Becomes(w, q)
    BY <1>1, <1>5, <2>0, Zenon DEF CheckTx
  <2>4. ASSUME tx'[w] = q PROVE WriteInv(w)' /\ PassInv(w)'
    <3>1. WriteInv(w)'
      BY <1>2, <1>3, <2>2, <2>4 DEF WriteInv, GoodRows, db
    <3>2. \A c \in q.ins : c[1] \notin q.todo \cup {s}
      BY <1>2, <2>2 DEF IInv, PassInv
    <3>3. PassInv(w)'
      BY <2>2, <2>4, <3>2 DEF PassInv
    <3> QED BY <3>1, <3>3
  <2> QED BY <1>1, <1>2, <2>2, <2>3, <2>4, QuietStep
<1> QED BY <1>4, <1>5

\* A guard of the DRY_RUN mode lets the suggestion pass.
LEMMA PlaceDryRunInv ==
    ASSUME IInv, NEW w \in Worker, NEW s \in Suggestion, PlaceDryRun(w, s)
    PROVE  IInv'
<1>0. PICK q : q = [tx[w] EXCEPT !.todo = @ \ {s}, !.wdry = @ \cup {s}]
  OBVIOUS
<1>1. tx[w] \in Tx /\ tx[w].pc = "guard"
  BY DEF IInv, TypeOK, PlaceDryRun
<1>2. /\ q \in Tx /\ q.pc = tx[w].pc /\ q.todo = tx[w].todo \ {s} /\ q.cur = tx[w].cur
      /\ q.wrow = tx[w].wrow /\ q.ins = tx[w].ins
  BY <1>0, <1>1, DryRunUpdate, Zenon
<1>3. /\ Becomes(w, q) /\ lock' \in Worker \cup {None} /\ UNCHANGED <<db, qty, clock>>
      /\ ord' = CancelRequested({})
  BY <1>0, CancelNone DEF PlaceDryRun, IInv
<1>4. ASSUME tx'[w] = q PROVE WriteInv(w)' /\ PassInv(w)'
  <2>1. WriteInv(w)'
    BY <1>2, <1>3, <1>4, OldRowsGood DEF WriteInv, GoodRows, db
  <2>2. PassInv(w)'
    BY <1>1, <1>2, <1>4 DEF PassInv, IInv
  <2> QED BY <2>1, <2>2
<1> QED BY <1>2, <1>3, <1>4, QuietStep

\* A cancelled order that is still live is re-adopted.
LEMMA ReAdoptInv ==
    ASSUME IInv, NEW w \in Worker, ReAdopt(w)
    PROVE  IInv'
<1> DEFINE s == tx[w].cur
<1>1. PICK n \in Idx :
         /\ IsLatest(n, WithStatus(View(w), s, "broker_cancelled"))
         /\ Continue(w, s, [tx[w].wrow EXCEPT ![<<s, n>>] = "accepted_for_routing"])
  BY DEF ReAdopt
<1> DEFINE c == <<s, n>>
           f == [tx[w].wrow EXCEPT ![c] = "accepted_for_routing"]
<1>2. /\ lock' \in Worker \cup {None} /\ UNCHANGED <<db, qty, clock>>
      /\ ord' = CancelRequested({})
  BY CancelNone DEF ReAdopt, IInv
<1>3. c \in Coid /\ View(w)[c] = "broker_cancelled"
  <2>1. s \in Suggestion
    BY DEF IInv, PassInv, ReAdopt
  <2> QED BY <1>1, <2>1 DEF Coid, IsLatest, WithStatus
<1>4. f \in RowWrites /\ tx[w].wrow \in RowWrites
  BY RowWritesType DEF IInv
<1>5. ord[c] # "none" /\ (row[c] # "none" \/ c \in tx[w].ins)
  BY <1>3 DEF View, IInv, RowInv, WriteInv
<1>6. GoodRows(f, tx[w].ins)
  <2>1. ord'[c] # "none"
    BY <1>2, <1>3, <1>5, CancelCreatesNone DEF IInv
  <2>2. \A d \in Coid : d # c => f[d] = tx[w].wrow[d]
    BY <1>4 DEF RowWrites
  <2>3. f[c] = "accepted_for_routing"
    BY <1>3, <1>4 DEF RowWrites
  <2>4. GoodRows(tx[w].wrow, tx[w].ins)
    BY <1>2, OldRowsGood
  <2> HIDE DEF f, c
  <2> QED BY <1>5, <2>1, <2>2, <2>3, <2>4 DEF GoodRows
<1> HIDE DEF f
<1>7. Continue(w, s, f)
  BY <1>1 DEF f
<1> QED BY <1>2, <1>4, <1>6, <1>7, ContinueInv

\* The chosen client_order_id is taken, or every earlier order of the
\* suggestion is recorded and leaving.
LEMMA ChosenIdFences ==
    ASSUME IInv, NEW w \in Worker, tx[w].pc = "check",
           NEW n \in Idx, n = NextClientOrderId(View(w), tx[w].cur),
           ord[<<tx[w].cur, n>>] = "none", NEW m \in Idx, m < n
    PROVE  row[<<tx[w].cur, m>>] # "none" /\ Leaving(<<tx[w].cur, m>>)
<1> DEFINE s == tx[w].cur
           B == WithStatus(View(w), s, "broker_cancelled")
<1>0. s \in Suggestion
  BY DEF IInv, PassInv
<1>1. \A k \in Idx : <<s, k>> \in Coid
  BY <1>0 DEF Coid
<1>2. \A k \in B : k \in Idx /\ ord[<<s, k>>] # "none"
  BY <1>1 DEF WithStatus, View, IInv, RowInv, WriteInv
<1>a. \A k \in Idx : k \in Nat
  BY ConstantsAssumption DEF Idx
<1>b. n \in Nat
  BY <1>a
<1> HIDE DEF B
<1>3. \A k \in B : k \in 0 .. n - 1
  <2>1. SUFFICES ASSUME NEW k \in B PROVE k \in 0 .. n - 1
    OBVIOUS
  <2>2. CASE k = n
    BY <1>2, <2>2
  <2>3. CASE n < k
    <3>1. row[<<s, n>>] # "none"
      BY <1>0, <1>2, <2>3 DEF IInv, FenceInv
    <3> QED BY <1>1, <3>1 DEF IInv, RowInv
  <2>4. k \in Nat
    BY <1>2, <1>a
  <2>5. k < n
    BY <1>b, <2>2, <2>3, <2>4
  <2> QED BY <1>b, <2>4, <2>5
<1>4. IsFiniteSet(0 .. n - 1) /\ Cardinality(0 .. n - 1) = n
  <2>2. 0 \in Int /\ n - 1 \in Int
    BY <1>b
  <2>3. IsFiniteSet(0 .. n - 1) /\ Cardinality(0 .. n - 1) = IF 0 > n - 1 THEN 0 ELSE (n - 1) - 0 + 1
    BY <2>2, FS_Interval
  <2> QED BY <1>b, <2>3
<1>5. B = 0 .. n - 1
  <2>1. B \subseteq 0 .. n - 1
    BY <1>3
  <2>2. Cardinality(B) = n
    BY DEF NextClientOrderId, B
  <2> QED BY <1>4, <2>1, <2>2, FS_Subset
<1>6. m \in B
  BY <1>5, <1>a
<1>7. View(w)[<<s, m>>] = "broker_cancelled"
  BY <1>6 DEF WithStatus, B
<1>8. Leaving(<<s, m>>)
  BY <1>1, <1>7 DEF View, IInv, RowInv, WriteInv
<1>9. <<s, m>> \notin tx[w].ins
  <2>1. \A c \in tx[w].ins : c[1] # s
    BY DEF IInv, PassInv
  <2> QED BY <2>1
<1>10. row[<<s, m>>] # "none"
  BY <1>1, <1>7, <1>9 DEF View, IInv, WriteInv
<1> QED BY <1>8, <1>10

\* ChooseClientOrderId preserves the invariant: every earlier order is recorded
\* and leaving, or the client_order_id is taken.
LEMMA ChooseInv ==
    ASSUME IInv, NEW w \in Worker, ChooseClientOrderId(w)
    PROVE  IInv'
<1> DEFINE n == NextClientOrderId(View(w), tx[w].cur)
<1>1. /\ lock' \in Worker \cup {None} /\ UNCHANGED <<db, qty, clock>>
      /\ ord' = CancelRequested({}) /\ ord' = ord
  BY CancelNone DEF ChooseClientOrderId, IInv, TypeOK
<1>2. CASE n \notin Idx
  <2>1. Continue(w, tx[w].cur, tx[w].wrow)
    BY <1>2 DEF ChooseClientOrderId
  <2> QED BY <1>1, <2>1, OldRowsGood, RowWritesType, ContinueInv DEF IInv
<1>3. CASE n \in Idx
  <2> HIDE DEF n
  <2>0. PICK q : q = SubmitTx(tx[w], n)
    OBVIOUS
  <2>1. tx[w] \in Tx /\ tx[w].pc = "check"
    BY DEF IInv, TypeOK, ChooseClientOrderId
  <2>2. /\ q \in Tx /\ q.pc = "submit" /\ q.idx = n
        /\ q.todo = tx[w].todo /\ q.cur = tx[w].cur
        /\ q.wrow = tx[w].wrow /\ q.ins = tx[w].ins
    BY <1>3, <2>0, <2>1, SubmitUpdate
  <2>3. Becomes(w, q)
    BY <1>3, <2>0, Zenon DEF ChooseClientOrderId, n, SubmitTx
  <2>4. \/ ord[<<q.cur, q.idx>>] # "none"
        \/ \A m \in Idx : (m < q.idx) => (row[<<q.cur, m>>] # "none" /\ Leaving(<<q.cur, m>>))
    BY <1>3, <2>1, <2>2, ChosenIdFences DEF n
  <2>5. ASSUME tx'[w] = q PROVE WriteInv(w)' /\ PassInv(w)'
    <3>1. WriteInv(w)'
      BY <1>1, <2>2, <2>5, OldRowsGood DEF WriteInv, GoodRows, db
    <3>2. PassInv(w)'
      BY <1>1, <2>1, <2>2, <2>4, <2>5 DEF PassInv, IInv, Placing, Leaving, db
    <3> QED BY <3>1, <3>2
  <2> QED BY <1>1, <2>2, <2>3, <2>5, QuietStep
<1> QED BY <1>2, <1>3

\* The broker takes the chosen order, and the pass moves on to pc.
LEMMA NewOrderInv ==
    ASSUME IInv, NEW w \in Worker, tx[w].pc = "submit", NEW pc \in {"record", "kill"},
           Becomes(w, [tx[w] EXCEPT !.pc = pc]),
           ord[Placing(w)] \in {"none", "working"},
           ord' = [ord EXCEPT ![Placing(w)] = "working"],
           UNCHANGED <<db, qty, clock, lock>>
    PROVE  IInv'
<1> DEFINE s == tx[w].cur
           n == tx[w].idx
           c == <<s, n>>
<1>0. PICK q : q = [tx[w] EXCEPT !.pc = pc]
  OBVIOUS
<1>1. tx[w] \in Tx
  BY DEF IInv, TypeOK
<1>2. /\ q \in Tx /\ q.pc = pc /\ q.todo = tx[w].todo /\ q.cur = s /\ q.idx = n
      /\ q.wrow = tx[w].wrow /\ q.ins = tx[w].ins
  BY <1>0, <1>1, PcUpdate
<1>3. Becomes(w, q)
  BY <1>0, Zenon
<1>4. /\ tx' \in [Worker -> Tx]
      /\ tx'[w] = q
      /\ \A v \in Worker : v # w => tx'[v] = tx[v]
  BY <1>2, <1>3, BecomesFacts DEF IInv
<1>5. s \in Suggestion /\ n \in Idx /\ c \in Coid
  BY <1>1, TxFields DEF IInv, PassInv, Coid
<1>6. /\ \A d \in Coid : ord'[d] = IF d = c THEN "working" ELSE ord[d]
      /\ ord' \in [Coid -> OrderStatus]
  BY <1>5 DEF IInv, TypeOK, OrderStatus, Placing
<1>7. TypeOK'
  BY <1>4, <1>6 DEF IInv, TypeOK, db
<1>8. Monotone
  BY <1>5, <1>6 DEF Monotone, Leaving, Placing, db
<1>9. RowInv'
  <2>1. row' = row
    BY DEF db
  <2> QED BY <1>8, <2>1 DEF RowInv, IInv, Monotone
<1>10. FenceInv'
  <2>1. SUFFICES ASSUME NEW t \in Suggestion, NEW k \in Idx, NEW m \in Idx,
                        m < k, ord'[<<t, k>>] # "none"
                 PROVE  row[<<t, m>>] # "none" /\ Leaving(<<t, m>>)'
    BY DEF FenceInv, db
  <2>2. <<t, m>> \in Coid /\ <<t, k>> \in Coid
    BY DEF Coid
  <2>3. CASE ord[<<t, k>>] # "none"
    BY <2>1, <2>2, <2>3, <1>8 DEF IInv, FenceInv, Monotone
  <2>4. CASE ord[<<t, k>>] = "none"
    <3>1. <<t, k>> = c
      BY <2>1, <2>2, <2>4, <1>6
    <3>2. t = s /\ k = n
      BY <3>1
    <3>3. row[<<t, m>>] # "none" /\ Leaving(<<t, m>>)
      BY <2>1, <2>4, <3>2 DEF IInv, PassInv, Placing
    <3> QED BY <2>2, <3>3, <1>8 DEF Monotone
  <2> QED BY <2>3, <2>4
<1>11. WriteInv(w)'
  <2>1. tx[w].wrow \in RowWrites
    BY <1>1, TxFields
  <2> QED BY <1>2, <1>4, <1>8 DEF WriteInv, IInv, Monotone
<1>12. PassInv(w)'
  <2>1. ord'[<<q.cur, q.idx>>] # "none"
    BY <1>2, <1>5, <1>6
  <2> QED BY <1>2, <1>4, <1>5, <2>1 DEF PassInv, Placing, IInv
<1> QED BY <1>4, <1>7, <1>8, <1>9, <1>10, <1>11, <1>12, StepOfWorker

\* A step of the pass that only moves on to pc, and may cancel orders.
LEMMA MoveOnInv ==
    ASSUME IInv, NEW w \in Worker, tx[w].pc # "idle", NEW pc \in {"kill", "commit"},
           NEW q, q = [tx[w] EXCEPT !.pc = pc] \/ q = [tx[w] EXCEPT !.pc = "commit", !.wmode = "OFF"],
           Becomes(w, q), NEW K, ord' = CancelRequested(K),
           lock' \in Worker \cup {None}, UNCHANGED <<db, qty, clock>>
    PROVE  IInv'
<1>1. tx[w] \in Tx
  BY DEF IInv, TypeOK
<1>2. /\ q \in Tx /\ q.pc \in {"kill", "commit"} /\ q.todo = tx[w].todo /\ q.cur = tx[w].cur
      /\ q.wrow = tx[w].wrow /\ q.ins = tx[w].ins
  <2>1. CASE q = [tx[w] EXCEPT !.pc = pc]
    BY <1>1, <2>1, PcUpdate
  <2>2. CASE q = [tx[w] EXCEPT !.pc = "commit", !.wmode = "OFF"]
    BY <1>1, <2>2, KillUpdate
  <2> QED BY <2>1, <2>2
<1>3. ASSUME tx'[w] = q PROVE WriteInv(w)' /\ PassInv(w)'
  <2>1. WriteInv(w)'
    BY <1>2, <1>3, OldRowsGood DEF WriteInv, GoodRows, db
  <2>2. PassInv(w)'
    BY <1>2, <1>3 DEF PassInv, IInv
  <2> QED BY <2>1, <2>2
<1> QED BY <1>2, <1>3, QuietStep

\* The row of a placed order is added.
LEMMA RecordInv ==
    ASSUME IInv, NEW w \in Worker, RecordExecution(w)
    PROVE  IInv'
<1> DEFINE c == Placing(w)
<1>0. PICK q : q = RecordTx(tx[w], c)
  OBVIOUS
<1>1. tx[w] \in Tx
  BY DEF IInv, TypeOK
<1>2. c \in Coid /\ c[1] = tx[w].cur /\ ord[c] # "none"
  BY <1>1, TxFields DEF RecordExecution, IInv, PassInv, Placing, Coid
<1>3. Becomes(w, q)
  BY <1>0, Zenon DEF RecordExecution, RecordTx
<1> HIDE DEF c
<1>4. /\ q \in Tx /\ q.pc = "guard" /\ q.todo = tx[w].todo /\ q.cur = None
      /\ q.wrow = [tx[w].wrow EXCEPT ![c] = "accepted_for_routing"]
      /\ q.ins = tx[w].ins \cup {c}
  BY <1>0, <1>1, <1>2, RecordUpdate
<1>5. /\ lock' \in Worker \cup {None} /\ UNCHANGED <<db, qty, clock>>
      /\ ord' = ord /\ ord' = CancelRequested({})
  BY CancelNone DEF RecordExecution, IInv
<1>6. ASSUME tx'[w] = q PROVE WriteInv(w)' /\ PassInv(w)'
  <2>1. tx[w].wrow \in RowWrites
    BY <1>1, TxFields
  <2>2. \A d \in Coid : q.wrow[d] = IF d = c THEN "accepted_for_routing" ELSE tx[w].wrow[d]
    BY <1>4, <2>1 DEF RowWrites
  <2>3. GoodRows(tx[w].wrow, tx[w].ins)
    BY <1>5, OldRowsGood
  <2>4. WriteInv(w)'
    BY <1>2, <1>4, <1>5, <1>6, <2>2, <2>3 DEF WriteInv, GoodRows, db
  <2>5. None \notin q.todo
    BY <1>4, TxFields, ConstantsAssumption
  <2>6. c[1] # None /\ c[1] \notin q.todo
    BY <1>2, <1>4, ConstantsAssumption DEF Coid, IInv, PassInv
  <2>7. \A d \in tx[w].ins : d[1] \notin q.todo \cup {None}
    BY <1>4, InsertedNotNone DEF IInv, PassInv
  <2>8. PassInv(w)'
    BY <1>4, <1>6, <2>5, <2>6, <2>7 DEF PassInv
  <2> QED BY <2>4, <2>8
<1> QED BY <1>3, <1>4, <1>5, <1>6, QuietStep

\* Every step of the auto-trade pass.
LEMMA PassStepInv ==
    ASSUME IInv, NEW w \in Worker, PassStep(w)
    PROVE  IInv'
<1>0. /\ TypeOK /\ lock \in Worker \cup {None}
      /\ ord' = ord => ord' = CancelRequested({})
  BY CancelNone DEF IInv, TypeOK
<1>1. ASSUME NEW s \in Suggestion, GuardSkips(w, s)
      PROVE  IInv'
  BY <1>0, <1>1, OldRowsGood, RowWritesType, ContinueInv DEF GuardSkips
<1>2. ASSUME NEW s \in Suggestion, GuardRaises(w, s)
      PROVE  IInv'
  <2>1. PICK K : ord' = CancelRequested(K)
    BY <1>2 DEF GuardRaises
  <2> QED BY <1>0, <1>2, <2>1, BackToIdleInv DEF GuardRaises
<1>3. CASE SubmitOrder(w)
  BY <1>3, NewOrderInv, Zenon DEF SubmitOrder
<1>4. CASE SubmitRefused(w)
  BY <1>0, <1>4, OldRowsGood, RowWritesType, ContinueInv DEF SubmitRefused
<1>5. CASE SubmitError(w)
  <2>0. PICK q : q = [tx[w] EXCEPT !.pc = "kill"]
    OBVIOUS
  <2>1. CASE ord' = ord
    BY <1>0, <1>5, <2>0, <2>1, MoveOnInv DEF SubmitError
  <2>2. CASE ord[Placing(w)] = "none" /\ ord' = [ord EXCEPT ![Placing(w)] = "working"]
    BY <1>5, <2>2, NewOrderInv, Zenon DEF SubmitError
  <2> QED BY <1>5, <2>1, <2>2 DEF SubmitError
<1>6. CASE RecordConflict(w)
  BY <1>0, <1>6, BackToIdleInv DEF RecordConflict
<1>7. CASE ReadbackFails(w)
  <2>0. PICK q : q = [tx[w] EXCEPT !.pc = "kill"]
    OBVIOUS
  <2> QED BY <1>0, <1>7, <2>0, MoveOnInv DEF ReadbackFails
<1>8. CASE TriggerKillSwitch(w)
  <2>0. PICK q : q = [tx[w] EXCEPT !.pc = "commit", !.wmode = "OFF"]
    OBVIOUS
  <2>1. PICK K : ord' = CancelRequested(K)
    BY <1>8 DEF TriggerKillSwitch
  <2> QED BY <1>0, <1>8, <2>0, <2>1, MoveOnInv DEF TriggerKillSwitch
<1>9. CASE EndPass(w)
  <2>0. PICK q : q = [tx[w] EXCEPT !.pc = "commit"]
    OBVIOUS
  <2> QED BY <1>0, <1>9, <2>0, MoveOnInv DEF EndPass
<1> QED BY <1>1, <1>2, <1>3, <1>4, <1>5, <1>6, <1>7, <1>8, <1>9, GuardLiveInv, PlaceDryRunInv,
           ReAdoptInv, ChooseInv, RecordInv, Zenon DEF PassStep

\* The initial states satisfy the invariant.
LEMMA InitInv == Init => IInv
<1> SUFFICES ASSUME Init PROVE IInv
  OBVIOUS
<1>1. TypeOK
  BY IdleTxType DEF Init, TypeOK, SuggestionStatus, RowStatus, OrderStatus
<1>2. RowInv /\ FenceInv
  BY DEF Init, RowInv, FenceInv, Coid
<1>3. ASSUME NEW w \in Worker PROVE WriteInv(w) /\ PassInv(w)
  <2>1. tx[w] = IdleTx
    BY DEF Init
  <2> QED BY <2>1, ConstantsAssumption DEF WriteInv, PassInv, IdleTx
<1> QED BY <1>1, <1>2, <1>3 DEF IInv

\* Every step preserves the invariant.
LEMMA NextInv == IInv /\ [Next]_vars => IInv'
<1> SUFFICES ASSUME IInv, [Next]_vars PROVE IInv'
  OBVIOUS
<1>1. ASSUME NEW w \in Worker, Handler(w)
      PROVE  IInv'
  BY <1>1, HandlerShape, EffectInv, BeginPassInv DEF IInv
<1>2. ASSUME NEW w \in Worker, Rollback(w)
      PROVE  IInv'
  <2>1. lock' \in Worker \cup {None} /\ ord' = CancelRequested({})
    BY <1>2, CancelNone DEF Rollback, IInv, TypeOK
  <2> QED BY <1>2, <2>1, BackToIdleInv DEF Rollback
<1>3. CASE UNCHANGED vars
  BY <1>3 DEF vars, IInv, TypeOK, RowInv, FenceInv, WriteInv, PassInv, Leaving, Placing
<1> QED BY <1>1, <1>2, <1>3, PassStepInv, CommitInv, EnvironmentInv, Zenon DEF Next

\* IInv holds in every reachable state.
THEOREM Invariance == Spec => []IInv
BY InitInv, NextInv, PTL DEF Spec

-----------------------------------------------------------------------------
(* Consequences of the invariant *)

\* Every variable keeps its type, whatever the workers and the broker do.
THEOREM TypeCorrect == Spec => []TypeOK
<1>1. IInv => TypeOK
  BY DEF IInv
<1> QED BY <1>1, Invariance, PTL

\* The client_order_id that run_auto_trade_pass derives fences submissions:
\* two orders of one suggestion are never working at the same time.
THEOREM OneWorkingOrder == Spec => []AtMostOneWorking
<1>1. IInv => AtMostOneWorking
  <2>1. SUFFICES ASSUME IInv, NEW s \in Suggestion, NEW m \in Idx, NEW n \in Idx,
                        ord[<<s, m>>] = "working", ord[<<s, n>>] = "working", m # n
                 PROVE  FALSE
    BY DEF AtMostOneWorking
  <2>2. m \in Int /\ n \in Int
    BY ConstantsAssumption DEF Idx
  <2>3. ~(m < n) /\ ~(n < m)
    BY <2>1 DEF IInv, FenceInv, Leaving
  <2> QED BY <2>1, <2>2, <2>3
<1> QED BY <1>1, Invariance, PTL

\* No row that says an order is gone hides a working order.
THEOREM TrackedWhileWorking == Spec => []WorkingOrderTracked
<1>1. IInv => WorkingOrderTracked
  BY DEF IInv, TypeOK, RowInv, Leaving, WorkingOrderTracked, RowStatus
<1> QED BY <1>1, Invariance, PTL

\* An order without a row is the next one run_auto_trade_pass would submit.
THEOREM LostOrderIsTheNext == Spec => []LostOrderIsNext
<1>1. IInv => LostOrderIsNext
  <2>1. SUFFICES ASSUME IInv, NEW s \in Suggestion, NEW n \in Idx,
                        ord[<<s, n>>] # "none", row[<<s, n>>] = "none"
                 PROVE  n = Cardinality(RowsOf(row, s))
    BY DEF LostOrderIsNext
  <2>2. \A k \in Idx : k \in Nat
    BY ConstantsAssumption DEF Idx
  <2>3. n \in Nat
    BY <2>2
  <2>4. ASSUME NEW k \in RowsOf(row, s) PROVE k \in 0 .. n - 1
    <3>1. k \in Idx /\ row[<<s, k>>] # "none" /\ <<s, k>> \in Coid
      BY DEF RowsOf, Coid
    <3>2. ord[<<s, k>>] # "none"
      BY <2>1, <3>1 DEF IInv, RowInv
    <3>3. ~(n < k)
      BY <2>1, <3>1, <3>2 DEF IInv, FenceInv
    <3>4. k # n
      BY <2>1, <3>1
    <3>5. k \in Nat
      BY <2>2, <3>1
    <3> QED BY <2>3, <3>3, <3>4, <3>5
  <2>5. ASSUME NEW k \in 0 .. n - 1 PROVE k \in RowsOf(row, s)
    <3>1. k \in Idx /\ k < n
      BY <2>3, ConstantsAssumption DEF Idx
    <3> QED BY <2>1, <3>1 DEF IInv, FenceInv, RowsOf
  <2>6. RowsOf(row, s) = 0 .. n - 1
    BY <2>4, <2>5
  <2>7. Cardinality(0 .. n - 1) = IF 0 > n - 1 THEN 0 ELSE (n - 1) - 0 + 1
    <3>1. 0 \in Int /\ n - 1 \in Int
      BY <2>3
    <3> QED BY <3>1, FS_Interval
  <2> QED BY <2>3, <2>6, <2>7
<1> QED BY <1>1, Invariance, PTL

-----------------------------------------------------------------------------
(* Fills *)

\* A transaction marks a suggestion filled only on the evidence of a fill.
FillInv ==
    /\ FilledMeansExecuted
    /\ \A w \in Worker, s \in Suggestion :
         tx[w].wsug[s] = "filled" => \E n \in Idx : Filled(<<s, n>>)

\* A cancelled or untouched order keeps its fill.
LEMMA QuietKeepsFill ==
    ASSUME NEW c \in Coid, Filled(c), NEW K, ord' = ord \/ ord' = CancelRequested(K), qty' = qty
    PROVE  Filled(c)'
BY DEF CancelRequested, Filled

\* A filled order stays filled, and only a handler's start writes suggestions.
LEMMA PassKeepsFill ==
    ASSUME IInv, NEW w \in Worker, PassStep(w)
    PROVE  /\ \A c \in Coid : Filled(c) => Filled(c)'
           /\ \A v \in Worker : tx'[v].wsug \in {tx[v].wsug, NoSugs}
<1> DEFINE P == /\ \A c \in Coid : Filled(c) => Filled(c)'
                /\ \A v \in Worker : tx'[v].wsug \in {tx[v].wsug, NoSugs}
<1>0. TypeOK /\ tx[w] \in Tx /\ tx[w].wrow \in RowWrites
  BY RowWritesType DEF IInv, TypeOK
<1>i. IdleTx \in Tx /\ IdleTx.wsug = NoSugs
  BY IdleTxType DEF IdleTx, NoSugs
<1>1. ASSUME NEW q \in Tx, Becomes(w, q), q.wsug \in {tx[w].wsug, NoSugs}
      PROVE  \A v \in Worker : tx'[v].wsug \in {tx[v].wsug, NoSugs}
  BY <1>0, <1>1, BecomesFacts
<1>2. ASSUME NEW s, NEW f \in RowWrites, Continue(w, s, f)
      PROVE  \A v \in Worker : tx'[v].wsug \in {tx[v].wsug, NoSugs}
  <2>0. PICK q : q = ContinueTx(tx[w], s, f)
    OBVIOUS
  <2>1. q \in Tx /\ q.wsug = tx[w].wsug
    BY <1>0, <2>0, ContinueUpdate
  <2>2. Becomes(w, q)
    BY <1>2, <2>0, Zenon DEF Continue, ContinueTx
  <2> QED BY <1>1, <2>1, <2>2
<1>3. ASSUME NEW pc \in {"guard", "check", "submit", "record", "kill", "commit"},
             Becomes(w, [tx[w] EXCEPT !.pc = pc])
      PROVE  \A v \in Worker : tx'[v].wsug \in {tx[v].wsug, NoSugs}
  <2>0. PICK q : q = [tx[w] EXCEPT !.pc = pc]
    OBVIOUS
  <2>1. q \in Tx /\ q.wsug = tx[w].wsug
    BY <1>0, <2>0, PcUpdate
  <2> QED BY <1>1, <1>3, <2>0, <2>1
<1>4. ASSUME NEW c \in Coid, ord[c] # "closed",
             ord' = [ord EXCEPT ![c] = "working"], qty' = qty
      PROVE  \A d \in Coid : Filled(d) => Filled(d)'
  BY <1>0, <1>4 DEF Filled, TypeOK
<1>5. ASSUME NEW s \in Suggestion, GuardSkips(w, s)
      PROVE  P
  BY <1>0, <1>2, <1>5, QuietKeepsFill DEF GuardSkips
<1>6. ASSUME NEW s \in Suggestion, GuardLive(w, s)
      PROVE  P
  <2> DEFINE f(D) == [c \in Coid |-> IF c \in D THEN "broker_cancelled" ELSE tx[w].wrow[c]]
  <2>1. PICK D \in SUBSET StaleRows(View(w), s), ok \in BOOLEAN :
          /\ ord' = CancelRequested({c \in D : Live(c)})
          /\ IF ok THEN Becomes(w, [tx[w] EXCEPT !.pc = "check", !.cur = s,
                                                 !.todo = @ \ {s}, !.wrow = f(D)])
                   ELSE Continue(w, s, f(D))
    BY <1>6 DEF GuardLive
  <2>2. f(D) \in RowWrites /\ qty' = qty
    BY <1>0, <1>6, RowWritesType DEF GuardLive
  <2> HIDE DEF f
  <2>3. CASE ok
    <3>0. PICK q : q = CheckTx(tx[w], s, f(D))
      OBVIOUS
    <3>1. q \in Tx /\ q.wsug = tx[w].wsug
      BY <1>0, <2>2, <3>0, CheckUpdate
    <3>2. Becomes(w, q)
      BY <2>1, <2>3, <3>0, Zenon DEF CheckTx
    <3> QED BY <1>1, <2>1, <2>2, <3>1, <3>2, QuietKeepsFill
  <2>4. CASE ~ok
    BY <1>2, <2>1, <2>2, <2>4, QuietKeepsFill
  <2> QED BY <2>3, <2>4
<1>7. ASSUME NEW s \in Suggestion, GuardRaises(w, s)
      PROVE  P
  BY <1>1, <1>7, <1>i, QuietKeepsFill DEF GuardRaises
<1>8. ASSUME NEW s \in Suggestion, PlaceDryRun(w, s)
      PROVE  P
  <2>0. PICK q : q = [tx[w] EXCEPT !.todo = @ \ {s}, !.wdry = @ \cup {s}]
    OBVIOUS
  <2>1. q \in Tx /\ q.wsug = tx[w].wsug
    BY <1>0, <2>0, DryRunUpdate
  <2> QED BY <1>1, <1>8, <2>0, <2>1, QuietKeepsFill DEF PlaceDryRun
<1>9. CASE ReAdopt(w)
  BY <1>0, <1>2, <1>9, RowWritesType, QuietKeepsFill DEF ReAdopt
<1>10. CASE ChooseClientOrderId(w)
  <2> DEFINE n == NextClientOrderId(View(w), tx[w].cur)
  <2>1. CASE n \in Idx
    <3> HIDE DEF n
    <3>0. PICK q : q = SubmitTx(tx[w], n)
      OBVIOUS
    <3>1. q \in Tx /\ q.wsug = tx[w].wsug
      BY <1>0, <2>1, <3>0, SubmitUpdate
    <3>2. Becomes(w, q) /\ ord' = ord /\ qty' = qty
      BY <1>10, <2>1, <3>0, Zenon DEF ChooseClientOrderId, n, SubmitTx
    <3> QED BY <1>1, <3>1, <3>2, QuietKeepsFill
  <2>2. CASE n \notin Idx
    BY <1>0, <1>2, <1>10, <2>2, QuietKeepsFill DEF ChooseClientOrderId
  <2> QED BY <2>1, <2>2
<1>p. tx[w].pc = "submit" \/ tx[w].pc = "record" => Placing(w) \in Coid
  BY <1>0, TxFields DEF IInv, PassInv, Placing, Coid
<1>11. CASE SubmitOrder(w)
  BY <1>3, <1>4, <1>11, <1>p DEF SubmitOrder
<1>12. CASE SubmitRefused(w)
  BY <1>0, <1>2, <1>12, QuietKeepsFill DEF SubmitRefused
<1>13. CASE SubmitError(w)
  BY <1>3, <1>4, <1>13, <1>p, QuietKeepsFill DEF SubmitError
<1>14. CASE RecordExecution(w)
  <2>0. PICK q : q = RecordTx(tx[w], Placing(w))
    OBVIOUS
  <2>1. q \in Tx /\ q.wsug = tx[w].wsug
    BY <1>0, <1>14, <1>p, <2>0, RecordUpdate DEF RecordExecution
  <2>2. Becomes(w, q) /\ ord' = ord /\ qty' = qty
    BY <1>14, <2>0, Zenon DEF RecordExecution, RecordTx
  <2> QED BY <1>1, <2>1, <2>2, QuietKeepsFill
<1>15. CASE RecordConflict(w)
  BY <1>1, <1>15, <1>i, QuietKeepsFill DEF RecordConflict
<1>16. CASE ReadbackFails(w)
  BY <1>3, <1>16, QuietKeepsFill DEF ReadbackFails
<1>17. CASE TriggerKillSwitch(w)
  <2>0. PICK q : q = [tx[w] EXCEPT !.pc = "commit", !.wmode = "OFF"]
    OBVIOUS
  <2>1. q \in Tx /\ q.wsug = tx[w].wsug
    BY <1>0, <2>0, KillUpdate
  <2>2. Becomes(w, q) /\ qty' = qty /\ \E K : ord' = CancelRequested(K)
    BY <1>17, <2>0 DEF TriggerKillSwitch
  <2> QED BY <1>1, <2>1, <2>2, QuietKeepsFill
<1>18. CASE EndPass(w)
  BY <1>3, <1>18, QuietKeepsFill DEF EndPass
<1> QED BY <1>5, <1>6, <1>7, <1>8, <1>9, <1>10, <1>11, <1>12, <1>13, <1>14, <1>15, <1>16,
           <1>17, <1>18, Zenon DEF PassStep

\* Every step preserves FillInv.
LEMMA NextFill == IInv /\ FillInv /\ [Next]_vars => FillInv'
<1> SUFFICES ASSUME IInv, FillInv, [Next]_vars PROVE FillInv'
  OBVIOUS
<1>c. \A s \in Suggestion, n \in Idx : <<s, n>> \in Coid
  BY DEF Coid
<1>1. ASSUME \A c \in Coid : Filled(c) => Filled(c)', status' = status,
             \A v \in Worker : tx'[v].wsug \in {tx[v].wsug, NoSugs}
      PROVE  FillInv'
  BY <1>1, <1>c DEF FillInv, FilledMeansExecuted, NoSugs, Keep
<1>2. ASSUME NEW w \in Worker, HandlerEffect(w)
      PROVE  FillInv'
  <2>1. PICK f \in RowWrites, i \in SUBSET Coid, p \in SUBSET Coid, g \in SugWrites,
             m \in Mode \cup {Keep}, K \in SUBSET Coid :
               /\ Handle(w, Writes(f, i, p, g, m))
               /\ ord' = CancelRequested(K)
               /\ GoodWrites(f, i, g)
    BY <1>2 DEF HandlerEffect
  <2>2. PICK q : q = [Writes(f, i, p, g, m) EXCEPT !.pc = "commit"]
    OBVIOUS
  <2>3. q \in Tx /\ q.wsug = g
    <3>1. Writes(f, i, p, g, m) \in Tx
      BY WritesType
    <3> QED BY <2>2, <3>1, PcUpdate, WritesFields
  <2>4. Becomes(w, q) /\ UNCHANGED <<db, clock, lock, qty>>
    BY <2>1, <2>2, Zenon DEF Handle
  <2>5. tx'[w].wsug = g /\ \A v \in Worker : v # w => tx'[v] = tx[v]
    BY <2>3, <2>4, BecomesFacts DEF IInv
  <2>6. \A c \in Coid : Filled(c) => Filled(c)'
    BY <2>1, <2>4, QuietKeepsFill
  <2>7. \A s \in Suggestion : g[s] = "filled" => \E n \in Idx : Filled(<<s, n>>)
    BY <2>1 DEF GoodWrites
  <2>8. status' = status
    BY <2>4 DEF db
  <2> QED BY <2>5, <2>6, <2>7, <2>8, <1>c DEF FillInv, FilledMeansExecuted
<1>3. ASSUME NEW w \in Worker, Handler(w)
      PROVE  FillInv'
  <2>1. CASE BeginPass(w)
    <3>0. PICK q : q = BeginTx(tx[w], PassMode, FetchAcceptedUnexecuted)
      OBVIOUS
    <3>1. PassMode \in Mode /\ FetchAcceptedUnexecuted \in SUBSET Suggestion /\ tx[w] \in Tx
      BY DEF IInv, TypeOK, PassMode, FetchAcceptedUnexecuted
    <3>2. q \in Tx /\ q.wsug = tx[w].wsug
      BY <3>0, <3>1, BeginUpdate
    <3>3. Becomes(w, q) /\ UNCHANGED <<db, ord, qty, clock, lock>>
      BY <2>1, <3>0, Zenon DEF BeginPass, BeginTx
    <3>4. \A v \in Worker : tx'[v].wsug = tx[v].wsug
      BY <3>2, <3>3, BecomesFacts DEF IInv
    <3> QED BY <1>1, <3>3, <3>4, QuietKeepsFill DEF db
  <2> QED BY <1>2, <1>3, <2>1, HandlerShape DEF IInv
<1>i. IdleTx \in Tx /\ IdleTx.wsug = NoSugs
  BY IdleTxType DEF IdleTx, NoSugs
<1>4. ASSUME NEW w \in Worker, PassStep(w)
      PROVE  FillInv'
  <2>1. status' = status
    BY <1>4 DEF PassStep, GuardSkips, GuardLive, GuardRaises, PlaceDryRun, ReAdopt,
                ChooseClientOrderId, SubmitOrder, SubmitRefused, SubmitError, RecordExecution,
                RecordConflict, ReadbackFails, TriggerKillSwitch, EndPass, db
  <2> QED BY <1>1, <1>4, <2>1, PassKeepsFill
<1>5. ASSUME NEW w \in Worker, Rollback(w)
      PROVE  FillInv'
  <2>1. \A v \in Worker : tx'[v].wsug \in {tx[v].wsug, NoSugs}
    BY <1>5, <1>i, BecomesFacts DEF Rollback, IInv
  <2> QED BY <1>1, <1>5, <2>1, QuietKeepsFill DEF Rollback, db
<1>6. ASSUME NEW w \in Worker, Commit(w)
      PROVE  FillInv'
  <2>1. \A v \in Worker : tx'[v].wsug \in {tx[v].wsug, NoSugs}
    BY <1>6, <1>i, BecomesFacts DEF Commit, IInv
  <2>2. \A c \in Coid : Filled(c) => Filled(c)'
    BY <1>6, QuietKeepsFill DEF Commit
  <2>3. \A s \in Suggestion : status'[s] = "filled" =>
            status[s] = "filled" \/ tx[w].wsug[s] = "filled"
    BY <1>6 DEF Commit
  <2> QED BY <2>1, <2>2, <2>3, <1>c DEF FillInv, FilledMeansExecuted, NoSugs, Keep
<1>7. CASE Environment
  <2>1. status' = status /\ tx' = tx
    BY <1>7 DEF Environment, Execute, CloseAtBroker, NewDay, AdvanceClock, db
  <2>2. ASSUME NEW c \in Coid, Execute(c) \/ CloseAtBroker(c)
        PROVE  \A d \in Coid : Filled(d) => Filled(d)'
    BY <2>2 DEF Execute, CloseAtBroker, Live, Filled, IInv, TypeOK
  <2>3. ASSUME NewDay \/ AdvanceClock
        PROVE  \A d \in Coid : Filled(d) => Filled(d)'
    BY <2>3 DEF NewDay, AdvanceClock, Filled
  <2>4. \A d \in Coid : Filled(d) => Filled(d)'
    BY <1>7, <2>2, <2>3 DEF Environment
  <2> QED BY <1>1, <2>1, <2>4
<1>8. CASE UNCHANGED vars
  BY <1>8 DEF vars, FillInv, FilledMeansExecuted, Filled
<1> QED BY <1>3, <1>4, <1>5, <1>6, <1>7, <1>8, Zenon DEF Next

\* A suggestion is marked filled only after one of its orders was executed in
\* full, although handlers read the database before they overwrite it.
THEOREM FilledOnEvidence == Spec => []FilledMeansExecuted
<1>1. Init => FillInv
  <2>1. Init => \A w \in Worker : tx[w] = IdleTx
    BY DEF Init
  <2>2. \A s \in Suggestion : IdleTx.wsug[s] # "filled"
    BY DEF IdleTx, Keep
  <2> QED BY <2>1, <2>2 DEF Init, FillInv, FilledMeansExecuted
<1>2. FillInv => FilledMeansExecuted
  BY DEF FillInv
<1> QED BY <1>1, <1>2, Invariance, NextFill, PTL DEF Spec

=============================================================================

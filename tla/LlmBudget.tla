----------------------------- MODULE LlmBudget -----------------------------
(***************************************************************************)
(* The LLM client and the threads that share it: one client per process,   *)
(* used by the pool that scores levels in parallel (score_all_tickers_     *)
(* parallel) and by the nodes of the graphs (llm_node_call).  A call reads *)
(* the date, rolls the counter over, checks the cap, asks the API with     *)
(* retries, adds its cost and validates the answer.                        *)
(*                                                                         *)
(* Grain: CPython may switch threads after any call, so reading the date,  *)
(* acting on it, checking the cap and paying are steps of their own; the   *)
(* two assignments of the roll-over and the += of the cost contain no call *)
(* and are atomic.  The agent SDK's client reads the date a second time    *)
(* when it rolls over; for the rest both backends follow this course.      *)
(* What scoring writes to sr_level is data and left out.                   *)
(***************************************************************************)
EXTENDS Integers, FiniteSets

CONSTANTS
    Thread,        \* threads that use the client at once
    Tasks,         \* bound: number of tasks (a ticker's levels, a graph node)
    Cap,           \* daily_cost_cap_usd, in some unit of money
    MaxCost,       \* what one request costs at most
    MaxAttempts,   \* requests of a call: _RETRY_MAX_ATTEMPTS, times the SDK's own
    LastDay        \* bound on the calendar

ASSUME BudgetAssumption ==
    /\ IsFiniteSet(Thread)
    /\ Tasks \in Nat
    /\ Cap \in Nat \ {0}
    /\ MaxCost \in Nat
    /\ MaxAttempts \in Nat \ {0}
    /\ LastDay \in Nat

VARIABLES
    backend,    \* make_llm_client: the backend of this process
    spent,      \* _spent_today
    day,        \* _today of the API client, _spent_date of the SDK's
    clock,      \* date.today()
    pc,         \* where each thread is
    seen,       \* the date it read
    attempt,    \* attempts of its call
    taken,      \* how many tasks the threads have taken from the queue
    bill,       \* history: what the calls admitted on a calendar day were billed
    uncounted,  \* history: requests of that day, billed and never added to spent
    admitted,   \* history: the day a thread's call was admitted
    setBack     \* history: how often an earlier date cleared spent or became day

thread == <<pc, seen, attempt>>
costs  == <<bill, uncounted>>
ghost  == <<costs, admitted, setBack>>
vars   == <<backend, spent, day, clock, thread, taken, ghost>>

Day == 0 .. LastDay
Pc  == {"idle", "date", "roll", "redate", "store", "check", "calling",
        "answered", "raised"}

Init ==
    /\ backend \in {"anthropic_api", "agent_sdk"}
    /\ spent = 0 /\ day = 0 /\ clock = 0
    /\ pc = [t \in Thread |-> "idle"]
    /\ seen = [t \in Thread |-> 0]
    /\ attempt = [t \in Thread |-> 0]
    /\ taken = 0
    /\ bill = [d \in Day |-> 0]
    /\ uncounted = [d \in Day |-> 0]
    /\ admitted = [t \in Thread |-> 0]
    /\ setBack = 0

Goto(t, from, to) == pc[t] = from /\ pc' = [pc EXCEPT ![t] = to]

\* A thread takes the next task: the executor's queue, or the step of a job.
Take(t) ==
    /\ Goto(t, "idle", "date")
    /\ taken < Tasks
    /\ taken' = taken + 1
    /\ UNCHANGED <<backend, spent, day, clock, seen, attempt, ghost>>

\* date.today() at the head of the roll-over.
ReadDate(t) ==
    /\ Goto(t, "date", "roll")
    /\ seen' = [seen EXCEPT ![t] = clock]
    /\ UNCHANGED <<backend, spent, day, clock, attempt, taken, ghost>>

\* A mutant of RollOver: the date is not stored, so that every call of the
\* new day clears the counter.
RollOverForgetsDate(t) ==
    /\ backend = "anthropic_api"
    /\ Goto(t, "roll", "check")
    /\ spent' = IF seen[t] # day THEN 0 ELSE spent
    /\ UNCHANGED <<backend, day, clock, seen, attempt, taken, ghost>>

\* _reset_if_new_day of the API client: any other date clears the counter, an
\* earlier one too, and becomes the client's.
RollOver(t) ==
    /\ backend = "anthropic_api"
    /\ Goto(t, "roll", "check")
    /\ spent' = IF seen[t] # day THEN 0 ELSE spent
    /\ day' = seen[t]
    /\ setBack' = setBack + (IF seen[t] < day THEN 1 ELSE 0)
    /\ seen' = [seen EXCEPT ![t] = 0]
    /\ UNCHANGED <<backend, clock, attempt, taken, costs, admitted>>

\* _roll_day_if_needed of the agent SDK's client: any other date clears the
\* counter, and the client asks for the date once more ...
RollClears(t) ==
    /\ backend = "agent_sdk"
    /\ Goto(t, "roll", IF seen[t] # day THEN "redate" ELSE "check")
    /\ spent' = IF seen[t] # day THEN 0 ELSE spent
    /\ setBack' = setBack + (IF seen[t] < day THEN 1 ELSE 0)
    /\ seen' = [seen EXCEPT ![t] = 0]
    /\ UNCHANGED <<backend, day, clock, attempt, taken, costs, admitted>>

ReadDateAgain(t) ==
    /\ Goto(t, "redate", "store")
    /\ seen' = [seen EXCEPT ![t] = clock]
    /\ UNCHANGED <<backend, spent, day, clock, attempt, taken, ghost>>

\* ... which it then stores.
StoreDate(t) ==
    /\ Goto(t, "store", "check")
    /\ day' = seen[t]
    /\ setBack' = setBack + (IF seen[t] < day THEN 1 ELSE 0)
    /\ seen' = [seen EXCEPT ![t] = 0]
    /\ UNCHANGED <<backend, spent, clock, attempt, taken, costs, admitted>>

\* A mutant of CheckCap: the cap itself is still admitted.
CheckCapInclusive(t) ==
    /\ spent <= Cap
    /\ Goto(t, "check", "calling")
    /\ attempt' = [attempt EXCEPT ![t] = 1]
    /\ admitted' = [admitted EXCEPT ![t] = clock]
    /\ UNCHANGED <<backend, spent, day, clock, seen, taken, costs, setBack>>

\* The cap is not reached: the call is made.
CheckCap(t) ==
    /\ spent < Cap
    /\ Goto(t, "check", "calling")
    /\ attempt' = [attempt EXCEPT ![t] = 1]
    /\ admitted' = [admitted EXCEPT ![t] = clock]
    /\ UNCHANGED <<backend, spent, day, clock, seen, taken, costs, setBack>>

\* A mutant of CapReached: the call waits for the next day instead.
CapReachedWaits(t) ==
    /\ spent >= Cap
    /\ Goto(t, "check", "date")
    /\ UNCHANGED <<backend, spent, day, clock, seen, attempt, taken, ghost>>

\* "daily LLM cost cap reached".
CapReached(t) ==
    /\ spent >= Cap
    /\ Goto(t, "check", "raised")
    /\ UNCHANGED <<backend, spent, day, clock, seen, attempt, taken, ghost>>

\* The request of t fails; it may have been billed all the same: the answer came
\* too late, or had no text block, or _calc_cost has no rates for its model.
BilledUncounted(t, cost) ==
    /\ bill' = [bill EXCEPT ![admitted[t]] = @ + cost]
    /\ uncounted' = [uncounted EXCEPT ![admitted[t]] = @ + (IF cost > 0 THEN 1 ELSE 0)]
    /\ UNCHANGED <<backend, spent, day, clock, seen, taken, admitted, setBack>>

\* A mutant of Retry: one attempt too many.
RetryOnceMore(t, cost) ==
    /\ pc[t] = "calling"
    /\ attempt[t] <= MaxAttempts
    /\ attempt' = [attempt EXCEPT ![t] = @ + 1]
    /\ BilledUncounted(t, cost)
    /\ UNCHANGED pc

\* A transient error with attempts left: sleep and try again.
Retry(t, cost) ==
    /\ pc[t] = "calling"
    /\ attempt[t] < MaxAttempts
    /\ attempt' = [attempt EXCEPT ![t] = @ + 1]
    /\ BilledUncounted(t, cost)
    /\ UNCHANGED pc

\* The last attempt fails, or the error is not transient: the client raises
\* before it adds the cost.
CallFails(t, cost) ==
    /\ Goto(t, "calling", "raised")
    /\ BilledUncounted(t, cost)
    /\ UNCHANGED attempt

\* The API answers and the cost is added; whether the text satisfies the caller's
\* schema changes nothing for the client.
Answer(t, cost) ==
    /\ Goto(t, "calling", "answered")
    /\ spent' = spent + cost
    /\ bill' = [bill EXCEPT ![admitted[t]] = @ + cost]
    /\ UNCHANGED <<backend, day, clock, seen, attempt, taken, uncounted, admitted, setBack>>

\* The caller of the task has what it gets: an answer, the fallback of
\* score_levels_for_ticker or of a node's factory, or the exception.
Done(t) ==
    /\ pc[t] \in {"answered", "raised"}
    /\ pc' = [pc EXCEPT ![t] = "idle"]
    /\ attempt' = [attempt EXCEPT ![t] = 0]
    /\ admitted' = [admitted EXCEPT ![t] = 0]
    /\ UNCHANGED <<backend, spent, day, clock, seen, taken, costs, setBack>>

Midnight ==
    /\ clock < LastDay
    /\ clock' = clock + 1
    /\ UNCHANGED <<backend, spent, day, thread, taken, ghost>>

Call(t) ==
    \/ ReadDate(t) \/ RollOver(t) \/ RollClears(t) \/ ReadDateAgain(t) \/ StoreDate(t)
    \/ CheckCap(t) \/ CapReached(t)
    \/ \E cost \in 0 .. MaxCost :
           Retry(t, cost) \/ CallFails(t, cost) \/ Answer(t, cost)
    \/ Done(t)

Next ==
    \/ \E t \in Thread : Call(t) \/ Take(t)
    \/ Midnight

Spec == Init /\ [][Next]_vars

\* A thread that has begun a task goes on with it: the API's time-outs and the
\* bounded retries end every call, and the executor starts what was submitted.
FairSpec ==
    /\ Spec
    /\ \A t \in Thread : WF_vars(Call(t)) /\ WF_vars(Take(t))

----------------------------------------------------------------------------

TypeOK ==
    /\ backend \in {"anthropic_api", "agent_sdk"}
    /\ spent \in Nat /\ day \in Day /\ clock \in Day
    /\ pc \in [Thread -> Pc]
    /\ seen \in [Thread -> Day]
    /\ attempt \in [Thread -> 0 .. MaxAttempts]
    /\ taken \in 0 .. Tasks
    /\ bill \in [Day -> Nat] /\ uncounted \in [Day -> Nat]
    /\ admitted \in [Thread -> Day]
    /\ setBack \in Nat

Calling == {t \in Thread : pc[t] = "calling"}

\* The most one filling of the counter can hold: the last admitted call found
\* it one unit below the cap, and every thread had a call open.
Overshoot == Cap - 1 + MaxCost * Cardinality(Thread)

\* The counter, and the calls in flight if each costs the most, never exceed
\* the cap by more than one call per thread: call() checks the cap long before
\* it pays, and nothing reserves the money in between.
OvershootBounded == spent + MaxCost * Cardinality(Calling) <= Overshoot

\* What the calls admitted on a calendar day are billed: one filling of the
\* counter, plus one call of every thread that had begun before midnight and
\* checked after it, and as much again for each time a thread that had read the
\* old date cleared the counter or set the date back: the calls that are then past
\* their roll-over meet an empty counter, and the next roll-over empties it once
\* more.  The failed requests that the provider bills come on top: the client
\* raises before it counts them, so the cap does not see them.
DayCostBounded ==
    \A d \in Day :
        bill[d] <= (1 + setBack) * (Overshoot + MaxCost * Cardinality(Thread))
                     + MaxCost * uncounted[d]

\* The pool ends with a result for every task, whatever fails: no call is
\* retried for ever and a reached cap is an answer too.
EveryTaskEnds == <>(taken = Tasks /\ \A t \in Thread : pc[t] = "idle")

\* The client keeps the promise of the daily budget.
Budget == INSTANCE DailyBudget WITH Caller <- Thread, open <- Calling

\* Every step of a thread is a step of the abstract budget or leaves counter and
\* open calls alone: no path of the client adds a cost it did not admit or
\* admits a call at a full counter.
BudgetKept == Budget!Spec

----------------------------------------------------------------------------
\* The inductive invariants behind DayCostBounded.

\* Nobody is ahead of the calendar.
DateInv ==
    /\ day <= clock
    /\ \A t \in Thread : seen[t] <= clock /\ admitted[t] <= clock
    /\ \A d \in Day : d > clock => bill[d] = 0 /\ uncounted[d] = 0

\* The bill of a day without the requests the counter has missed, as far as it
\* can be told from their number.
Counted(d) == bill[d] - MaxCost * uncounted[d]

\* The calls in flight that were admitted on day d.
CallingOf(d) == {t \in Calling : admitted[t] = d}

\* The threads that can still be admitted without another look at the date.
Admissible ==
    {t \in Thread : pc[t] = "check" \/ (pc[t] \in {"roll", "store"} /\ seen[t] < clock)}

\* What a call of each of these threads costs at most, and what a change of the
\* client's date does.
Worst(S) == MaxCost * Cardinality(S)
PerDay   == Overshoot + Worst(Thread)

\* What today's calls have cost and may still cost: while the client's date is
\* the calendar's, the counter has seen it since the last roll-over; while it is
\* behind, every thread is admitted once at most.
TodayInv ==
    /\ day = clock => Counted(clock) <= setBack * PerDay + Worst(Thread) + spent
    /\ day < clock => Counted(clock) + Worst(CallingOf(clock)) + Worst(Admissible)
                        <= setBack * PerDay + Worst(Thread)

\* The same of the days gone by.
PastInv ==
    \A d \in Day : d < clock => Counted(d) + Worst(CallingOf(d)) <= setBack * PerDay + PerDay

=============================================================================

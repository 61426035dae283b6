---------------------------- MODULE DailyBudget ----------------------------
(***************************************************************************)
(* What the daily cost cap of the LLM client promises, without threads,    *)
(* retries or a calendar: a call is admitted while the day's counter is    *)
(* below the cap, an admitted call adds what it cost or fails, and the     *)
(* counter may be cleared.  The promise is about the calls that are open   *)
(* at once, because each of them was admitted before the others had paid.  *)
(***************************************************************************)
EXTENDS Integers, FiniteSets

CONSTANTS Caller, Cap, MaxCost

VARIABLES
    spent,   \* what the counter says
    open     \* callers with an admitted call that has not paid yet

Init == spent = 0 /\ open = {}

Admit(c) ==
    /\ spent < Cap
    /\ open' = open \cup {c}
    /\ UNCHANGED spent

Pay(c, cost) ==
    /\ c \in open
    /\ spent' = spent + cost
    /\ open' = open \ {c}

Fail(c) ==
    /\ c \in open
    /\ open' = open \ {c}
    /\ UNCHANGED spent

NewDay ==
    /\ spent' = 0
    /\ UNCHANGED open

Next ==
    \/ \E c \in Caller : Admit(c) \/ Fail(c) \/ \E cost \in 0 .. MaxCost : Pay(c, cost)
    \/ NewDay

Spec == Init /\ [][Next]_<<spent, open>>

=============================================================================

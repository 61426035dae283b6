-------------------------- MODULE MCOrderLifecycle --------------------------
(***************************************************************************)
(* Small instances of OrderLifecycle: one ticker, one or two suggestions   *)
(* of it, one or two worker threads.                                       *)
(***************************************************************************)
EXTENDS OrderLifecycle, TLC

CONSTANTS AAA, s1, s2, w1, w2

OneTicker == [s \in Suggestion |-> AAA]

\* Both suggestions in week 0 (a buy and a sell), or one week after the other.
SameWeek  == [s \in Suggestion |-> 0]
TwoWeeks  == s1 :> 0 @@ s2 :> 1

AllFaults == FaultKind

\* The scheduler's thread and a web thread; both may run a pass, the web
\* thread through POST /admin/run-auto-trade.
Cron == {"generate", "pass", "reconcile"}
Web  == {"act", "unaccept", "pass", "cancel_all", "reset", "stop"}
CronAndWeb == w1 :> Cron @@ w2 :> Web

\* The same with the jobs that settle things.
SettlingCronAndWeb == w1 :> Cron \cup {"sweep"} @@ w2 :> Web

\* One thread runs every handler, one after the other.
Serial == w1 :> Job

\* The same without the handlers that matter to one suggestion only.
Replacing == w1 :> {"generate", "act", "pass", "cancel_all", "sweep", "reconcile"}

=============================================================================

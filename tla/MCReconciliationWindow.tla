----------------------- MODULE MCReconciliationWindow -----------------------
(***************************************************************************)
(* Small instances of ReconciliationWindow.  A unit of time is a few       *)
(* hours, so that the overlap is one unit; the cap MaxLookback is reached  *)
(* within MaxTime, and every order may be submitted at a different time.   *)
(***************************************************************************)
EXTENDS ReconciliationWindow

\* The rows may be rolled back, cancelled and cleared.
AllEvents == {"rollback", "cancel", "clear"}

=============================================================================

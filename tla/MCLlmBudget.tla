---------------------------- MODULE MCLlmBudget ----------------------------
(***************************************************************************)
(* Two threads of the pool, five tasks (tickers, graph nodes), one         *)
(* midnight.                                                               *)
(* A cap of 1 with calls of cost 0 or 1 is reached by the first paying     *)
(* call, so that overshoot, roll-over and a late call all happen.          *)
(***************************************************************************)
EXTENDS LlmBudget

=============================================================================

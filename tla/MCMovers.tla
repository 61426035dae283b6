------------------------------ MODULE MCMovers ------------------------------
(***************************************************************************)
(* One ticker, two runners (the cron and the admin endpoint), moves of up  *)
(* to two tiers either way, one change of week.                            *)
(***************************************************************************)
EXTENDS Movers

=============================================================================

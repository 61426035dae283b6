-------------------------- MODULE MCBrokerAccounts --------------------------
(***************************************************************************)
(* One account with a balance of 3 and a position of 1, transfers of 2     *)
(* into it, a position worth 1 or 2, and the threads that may sync it: the *)
(* scheduler's and the one of POST /admin/run-sync.                        *)
(***************************************************************************)
EXTENDS BrokerAccounts, TLC

\* The two threads do the same.
Syncers == Permutations(Syncer)

=============================================================================

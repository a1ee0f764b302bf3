------------------------ MODULE MCPendingTransactions ------------------------
(* A list of two entries, four pushes of two ids, two verdicts each: enough *)
(* for an eviction after a restart and for an id that is listed twice.      *)
EXTENDS PendingTransactions, TLC

Symmetric == Permutations(MessageIds)
=============================================================================

----------------------------- MODULE MCSessions -----------------------------
(* Two workers log in concurrently; see the configurations for the names,   *)
(* groups, passwords and addresses.                                         *)
EXTENDS Sessions
=============================================================================

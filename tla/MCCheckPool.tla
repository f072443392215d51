---------------------------- MODULE MCCheckPool -----------------------------
(***************************************************************************)
(* CheckPool for TLC: two workers and three proxies.                       *)
(***************************************************************************)
EXTENDS CheckPool

=============================================================================

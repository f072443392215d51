---------------------------- MODULE MCHealthScan ----------------------------
(***************************************************************************)
(* HealthScan for TLC: two handlers and a few ports.  The handlers are     *)
(* interchangeable; the symmetry is used only for safety.                  *)
(***************************************************************************)
EXTENDS HealthScan, TLC

HandlerSymmetry == Permutations(Req)
=============================================================================

---------------------------- MODULE MCSocksCheck ----------------------------
(***************************************************************************)
(* SocksCheck for TLC: one listener with one slot, a check, another client.*)
(***************************************************************************)
EXTENDS SocksCheck
=============================================================================

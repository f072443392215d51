--------------------------- MODULE MCConfigApply ----------------------------
(***************************************************************************)
(* ConfigApply for TLC.  The proxies in the prefix are interchangeable.    *)
(***************************************************************************)
EXTENDS ConfigApply, TLC

ProxySymmetry == Permutations(Proxy \ Outside)
=============================================================================

-------------------------- MODULE ConfigRefinement --------------------------
(***************************************************************************)
(* ConfigApply implements AtomicApply.  While a request runs the           *)
(* configuration in force is the one it found; the step that answers it    *)
(* decides.  A rollback whose own steps fail is excluded: its errors are   *)
(* ignored by the code, and it may leave the candidate in state.json.      *)
(***************************************************************************)
EXTENDS ConfigApply

CONSTANT NoConfig   \* no request is running

ASSUME RefinementAssumption == NoConfig \notin Config

Atomic == INSTANCE AtomicApply WITH
  config  <- IF At("idle") THEN saved ELSE op.orig,
  target  <- IF At("idle") THEN NoConfig ELSE op.cand,
  outcome <- IF At("idle") THEN op.outcome ELSE "none"

\* Every request is all or nothing, and says which, in spite of a cancelled
\* context, failing commands and writes, an engine that dies and a reboot.
ImplementsAtomicApply == Atomic!ASpec
=============================================================================

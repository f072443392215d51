----------------------------- MODULE ProbeRound -----------------------------
(***************************************************************************)
(* What one round of probes promises to the scan that runs it: a result    *)
(* for every proxy, or none at all when the scan was cancelled before the  *)
(* last one came in, and a second chance for a small tail of failures.     *)
(* These are the steps Probe and Retry of HealthScan.                      *)
(***************************************************************************)
EXTENDS Naturals, FiniteSets

CONSTANTS
  N,          \* the proxies are 1..N
  RetryLimit  \* the failure tail that is probed again (1000 in the code)

VARIABLES
  phase,      \* probe, retry; apply: there are results to save; dropped: none
  res,        \* the result of every proxy
  ctx         \* the context of the scan

vars == <<phase, res, ctx>>

Proxy == 1..N
Failures(r) == {p \in Proxy : r[p] = "err"}

Init ==
  /\ phase = "probe" /\ ctx = "open"
  /\ res = [p \in Proxy |-> "none"]

\* The workers have drained; the context is consulted here and only here.
Probe ==
  /\ phase = "probe"
  /\ \/ ctx = "cancelled" /\ phase' = "dropped" /\ UNCHANGED res
     \/ /\ ctx = "open"
        /\ res' \in [Proxy -> {"ok", "err"}]
        /\ phase' = IF Failures(res') # {} /\ Cardinality(Failures(res')) <= RetryLimit
                    THEN "retry" ELSE "apply"
  /\ UNCHANGED ctx

\* The failures, and only they, may turn into successes.
Retry ==
  /\ phase = "retry"
  /\ phase' = "apply"
  /\ \E good \in SUBSET Failures(res) :
       res' = [p \in Proxy |-> IF p \in good THEN "ok" ELSE res[p]]
  /\ UNCHANGED ctx

Cancel == ctx = "open" /\ ctx' = "cancelled" /\ UNCHANGED <<phase, res>>

Next == Probe \/ Retry \/ Cancel

Spec == Init /\ [][Next]_vars /\ WF_vars(Probe \/ Retry)
=============================================================================

---------------------------- MODULE AtomicApply -----------------------------
(***************************************************************************)
(* What a configuration request promises: the saved proxies change from    *)
(* one configuration to another in a single step, or not at all, and the   *)
(* outcome the request reports says which.  A crash of the dashboard or of *)
(* the host may leave either of the two configurations, and no outcome.    *)
(***************************************************************************)
CONSTANTS
  Config,     \* the configurations (sets of proxies with their modes)
  NoConfig    \* the value of target when no request is running, not in Config

VARIABLES
  config,     \* the configuration in force
  target,     \* the configuration a running request wants, or NoConfig
  outcome     \* what the last request reported

Outcome == {"none", "ok", "failed", "restored", "crashed"}

AInit == config \in Config /\ target = NoConfig /\ outcome = "none"

\* A request begins; its target may be the present configuration (a repair).
Request(c) ==
  /\ target = NoConfig
  /\ target' = c
  /\ outcome' = "none"
  /\ UNCHANGED config

\* The request succeeds: the target is in force.
Commit == target # NoConfig /\ config' = target /\ target' = NoConfig /\ outcome' = "ok"

\* The request fails: nothing has changed.
Abort ==
  /\ target # NoConfig
  /\ target' = NoConfig
  /\ outcome' \in {"failed", "restored"}
  /\ UNCHANGED config

\* The process dies in the middle: old or new, and nobody is told.
Crash ==
  /\ target # NoConfig
  /\ config' \in {config, target}
  /\ target' = NoConfig
  /\ outcome' = "crashed"

ANext == (\E c \in Config : Request(c)) \/ Commit \/ Abort \/ Crash

ASpec == AInit /\ [][ANext]_<<config, target, outcome>>
=============================================================================

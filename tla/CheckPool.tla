----------------------------- MODULE CheckPool ------------------------------
(***************************************************************************)
(* The goroutines of one health scan in CheckAll: the workers, the feeder  *)
(* and the collector, which meet on unbuffered channels, and the retry     *)
(* pass.  A single check is Check of SocksCheck: it comes to some result,  *)
(* whether the scan has been cancelled or not.                             *)
(***************************************************************************)
EXTENDS Naturals, FiniteSets

CONSTANTS
  N,           \* the enabled proxies of the snapshot are 1..N
  Worker,      \* the worker goroutines
  Main,        \* the goroutine of CheckAll, which collects and checks again
  RetryLimit   \* the failure tail that is checked again (1000 in the code)

ASSUME PoolAssumption ==
  /\ N \in Nat /\ RetryLimit \in Nat
  /\ Main \notin Worker /\ IsFiniteSet(Worker) /\ Worker # {}

VARIABLES
  ctx,         \* the context of the scan
  pool,        \* where CheckAll stands
  next,        \* the proxy the feeder sends next; N + 1: jobs is closed
  chk,         \* what the goroutines are doing
  checks,      \* the map the results are collected in
  tail         \* retryIndexes: the failures that are checked again

vars == <<ctx, pool, next, chk, checks, tail>>

Proxy == 1..N
Goroutine == Worker \union {Main}
Check == [pc : {"idle", "check", "send", "gone"}, p : 0..N, res : {"ok", "err"}]

Idle == [pc |-> "idle", p |-> 0, res |-> "err"]
Given(p) == [pc |-> "check", p |-> p, res |-> "err"]   \* about to check p

Init ==
  /\ ctx = "open" /\ pool = "probe" /\ next = 1
  /\ chk = [k \in Goroutine |-> Idle]
  /\ checks = [p \in Proxy |-> "none"] /\ tail = {}

\* Check returns.
Checked(k) ==
  /\ chk[k].pc = "check"
  /\ \E r \in {"ok", "err"} : chk' = [chk EXCEPT ![k].pc = "send", ![k].res = r]
  /\ UNCHANGED <<ctx, pool, next, checks, tail>>

(***************************************************************************)
(* CheckAll: the channels jobs and results, the collector, the retry pass. *)
(***************************************************************************)
\* Mutant of Hand: the workers share a counter that they read and advance unlocked.
HandUnlocked(k) ==
  /\ next <= N /\ chk[k].pc = "idle"
  /\ next' \in {next, next + 1}
  /\ chk' = [chk EXCEPT ![k] = Given(next)]
  /\ UNCHANGED <<ctx, pool, checks, tail>>

\* The feeder hands the next proxy to a worker that is ready to receive.
Hand(k) ==
  /\ next <= N /\ chk[k].pc = "idle"
  /\ next' = next + 1
  /\ chk' = [chk EXCEPT ![k] = Given(next)]
  /\ UNCHANGED <<ctx, pool, checks, tail>>

\* jobs is closed and empty.
WorkerEnds(k) ==
  /\ next = N + 1 /\ chk[k].pc = "idle"
  /\ chk' = [chk EXCEPT ![k].pc = "gone"]
  /\ UNCHANGED <<ctx, pool, next, checks, tail>>

\* A worker meets the collector on results.
Collect(k) ==
  /\ pool = "probe" /\ chk[k].pc = "send"
  /\ checks' = [checks EXCEPT ![chk[k].p] = chk[k].res]
  /\ chk' = [chk EXCEPT ![k] = Idle]
  /\ UNCHANGED <<ctx, pool, next, tail>>

FailuresOf(r) == {p \in Proxy : r[p] = "err"}

\* The context is consulted once; a small tail of failures is checked again.
Conclude ==
  /\ pool = "probe"
  /\ LET failures == FailuresOf(checks)
         retries  == ctx = "open" /\ failures # {} /\ Cardinality(failures) <= RetryLimit
     IN /\ pool' = IF ctx = "cancelled" THEN "dropped" ELSE IF retries THEN "retry" ELSE "apply"
        /\ tail' = IF retries THEN failures ELSE {}
  /\ UNCHANGED <<ctx, next, chk, checks>>

\* Mutant of Drained: the range over results ends with the first worker.
DrainedEarly == Conclude /\ \E k \in Worker : chk[k].pc = "gone"

\* results is closed when every worker has ended (wg.Wait).
Drained == Conclude /\ \A k \in Worker : chk[k].pc = "gone"

\* Those of the tail that Main has not come to.
Ahead == {p \in tail : p > chk[Main].p}

\* Main checks the next of the failures again, in order.
Recheck ==
  /\ pool = "retry" /\ chk[Main].pc = "idle"
  /\ \E p \in Ahead :
       /\ \A q \in Ahead : p <= q
       /\ chk' = [chk EXCEPT ![Main] = Given(p)]
  /\ UNCHANGED <<ctx, pool, next, checks, tail>>

\* The second result replaces the first; the last one ends the pass.
Rechecked ==
  /\ pool = "retry" /\ chk[Main].pc = "send"
  /\ checks' = [checks EXCEPT ![chk[Main].p] = chk[Main].res]
  /\ chk' = [chk EXCEPT ![Main].pc = "idle"]
  /\ pool' = IF Ahead = {} THEN "apply" ELSE "retry"
  /\ UNCHANGED <<ctx, next, tail>>

Cancel == ctx = "open" /\ ctx' = "cancelled" /\ UNCHANGED <<pool, next, chk, checks, tail>>

Rest == pool \in {"apply", "dropped"} /\ UNCHANGED vars

Next ==
  \/ \E k \in Goroutine : Checked(k)
  \/ \E k \in Worker : Hand(k) \/ WorkerEnds(k) \/ Collect(k)
  \/ Drained \/ Recheck \/ Rechecked \/ Cancel \/ Rest

Spec == Init /\ [][Next]_vars

\* The scheduler runs what can run, and every check ends.
FairSpec ==
  /\ Spec
  /\ \A k \in Goroutine : WF_vars(Checked(k))
  /\ \A k \in Worker : WF_vars(Hand(k) \/ WorkerEnds(k) \/ Collect(k))
  /\ WF_vars(Drained \/ Recheck \/ Rechecked)

-----------------------------------------------------------------------------
(***************************************************************************)
(* Properties                                                              *)
(***************************************************************************)
\* Every variable keeps its type, and a proxy that was handed out and has not been
\* collected is with exactly one worker, any other with none.
TypeOK ==
  /\ ctx \in {"open", "cancelled"}
  /\ pool \in {"probe", "retry", "apply", "dropped"}
  /\ next \in 1..(N + 1)
  /\ chk \in [Goroutine -> Check]
  /\ checks \in [Proxy -> {"none", "ok", "err"}]
  /\ tail \subseteq Proxy
  /\ \A p \in Proxy :
       Cardinality({k \in Worker : chk[k].p = p}) =
         IF p < next /\ checks[p] = "none" THEN 1 ELSE 0

\* What a round has found so far, as far as the scan is concerned.
Outcome ==
  [p \in Proxy |-> IF pool \in {"probe", "dropped"} THEN "none"
                   ELSE IF pool = "retry" /\ p \in tail THEN "err" ELSE checks[p]]

Round == INSTANCE ProbeRound WITH phase <- pool, res <- Outcome

\* A round of checks is what ProbeRound says: one result for every proxy, never
\* half of them, and it ends, cancelled or not.
ImplementsProbe == Round!Spec
=============================================================================

-------------------------- MODULE CheckPoolProofs ---------------------------
(***************************************************************************)
(* Proofs about CheckPool, for any number of proxies and workers: every    *)
(* proxy that was handed out is with one worker or has its result, and the *)
(* steps of the pool are those of ProbeRound.                              *)
(***************************************************************************)
EXTENDS CheckPool, FiniteSetTheorems, TLAPS

Results == {"none", "ok", "err"}

Types ==
  /\ ctx \in {"open", "cancelled"}
  /\ pool \in {"probe", "retry", "apply", "dropped"}
  /\ next \in 1..(N + 1)
  /\ chk \in [Goroutine -> Check]
  /\ checks \in [Proxy -> Results]
  /\ tail \subseteq Proxy

\* A worker has a proxy while it checks it or offers its result, and no other
\* worker has it.
Owned ==
  \A k \in Worker :
    /\ chk[k].p = 0 <=> chk[k].pc \in {"idle", "gone"}
    /\ chk[k].p # 0 => chk[k].p < next /\ checks[chk[k].p] = "none"
    /\ \A l \in Worker : chk[k].p # 0 /\ chk[k].p = chk[l].p => k = l

\* A proxy without a result has not been handed out, or is with a worker.
Pending ==
  \A p \in Proxy :
    /\ p < next /\ checks[p] = "none" => \E k \in Worker : chk[k].p = p
    /\ p >= next => checks[p] = "none"

\* Workers leave when everything is handed out, and CheckAll goes on without them.
Phases ==
  /\ \A k \in Worker : chk[k].pc = "gone" => next = N + 1
  /\ pool # "probe" => \A k \in Worker : chk[k].pc = "gone"
  /\ pool = "probe" => chk[Main] = Idle /\ tail = {}

\* The retry pass is about failures, and everything else has succeeded.
Retries ==
  /\ pool = "retry" => \A p \in Proxy \ tail : checks[p] = "ok"
  /\ chk[Main].pc # "idle" => chk[Main].p \in tail

PoolInv == Types /\ Owned /\ Pending /\ Phases /\ Retries

LEMMA Constants ==
  /\ N \in Nat /\ Main \notin Worker /\ Worker # {} /\ IsFiniteSet(Worker)
  /\ Idle \in Check /\ Idle.p = 0 /\ Idle.pc = "idle"
BY PoolAssumption DEF Idle, Check

LEMMA InitInv == Init => PoolInv
<1> SUFFICES ASSUME Init PROVE PoolInv
  OBVIOUS
<1>1. Types
  BY Constants DEF Init, Types, Results, Proxy
<1>2. Owned /\ Phases /\ Retries
  BY Constants DEF Init, Owned, Phases, Retries, Goroutine
<1>3. Pending
  BY Constants DEF Init, Pending, Proxy
<1> QED BY <1>1, <1>2, <1>3 DEF PoolInv

\* All workers gone: every proxy has its result.
LEMMA AllCollected ==
  ASSUME PoolInv, \A k \in Worker : chk[k].pc = "gone"
  PROVE  next = N + 1 /\ \A p \in Proxy : checks[p] \in {"ok", "err"}
<1>1. next = N + 1
  BY Constants DEF PoolInv, Phases
<1>2. \A k \in Worker : chk[k].p = 0
  BY DEF PoolInv, Owned
<1>3. \A p \in Proxy : checks[p] # "none"
  BY <1>1, <1>2, Constants DEF PoolInv, Pending, Proxy
<1> QED BY <1>1, <1>3 DEF PoolInv, Types, Results

LEMMA CheckedInv ==
  ASSUME PoolInv, NEW k \in Goroutine, Checked(k)
  PROVE  PoolInv'
<1> USE DEF PoolInv
<1>1. PICK r \in {"ok", "err"} : chk' = [chk EXCEPT ![k].pc = "send", ![k].res = r]
  BY DEF Checked
<1>2. Types'
  BY <1>1 DEF Checked, Types, Check
<1>3. /\ \A g \in Goroutine : chk'[g].p = chk[g].p
      /\ \A g \in Goroutine \ {k} : chk'[g] = chk[g]
      /\ chk'[k].pc = "send" /\ chk[k].pc = "check"
  BY <1>1 DEF Checked, Types, Check
<1>a. /\ next' = next /\ checks' = checks
      /\ \A g \in Worker : chk'[g].p = chk[g].p
      /\ \A g \in Worker : chk'[g].pc = chk[g].pc \/ (chk'[g].pc = "send" /\ chk[g].pc = "check")
  BY <1>3 DEF Checked, Goroutine
<1>4. Owned'
  <2> SUFFICES ASSUME NEW l \in Worker
               PROVE  /\ chk'[l].p = 0 <=> chk'[l].pc \in {"idle", "gone"}
                      /\ chk'[l].p # 0 => chk'[l].p < next' /\ checks'[chk'[l].p] = "none"
                      /\ \A m \in Worker : chk'[l].p # 0 /\ chk'[l].p = chk'[m].p => l = m
    BY DEF Owned
  <2>1. chk'[l].p = chk[l].p /\ (chk'[l].pc = chk[l].pc \/ (chk'[l].pc = "send" /\ chk[l].pc = "check"))
    BY <1>a
  <2>2. chk'[l].p = 0 <=> chk'[l].pc \in {"idle", "gone"}
    BY <2>1 DEF Owned
  <2>3. chk'[l].p # 0 => chk'[l].p < next' /\ checks'[chk'[l].p] = "none"
    BY <2>1, <1>a DEF Owned
  <2>4. \A m \in Worker : chk'[l].p # 0 /\ chk'[l].p = chk'[m].p => l = m
    BY <1>a DEF Owned
  <2> QED BY <2>2, <2>3, <2>4
<1>5. Pending'
  BY <1>a DEF Pending
<1>6. Phases'
  BY <1>3, Constants DEF Checked, Phases, Goroutine
<1>7. Retries'
  BY <1>3 DEF Checked, Retries, Goroutine
<1> QED BY <1>2, <1>4, <1>5, <1>6, <1>7

LEMMA HandInv ==
  ASSUME PoolInv, NEW k \in Worker, Hand(k)
  PROVE  PoolInv'
<1> USE DEF PoolInv
<1>1. next \in Proxy /\ next' = next + 1
  BY Constants DEF Hand, Types, Proxy
<1>2. /\ chk'[k].p = next /\ chk'[k].pc = "check" /\ chk'[k] \in Check
      /\ \A g \in Goroutine \ {k} : chk'[g] = chk[g]
  <2>1. next \in 0..N
    BY <1>1, Constants DEF Proxy
  <2>2. Given(next) \in Check /\ Given(next).p = next /\ Given(next).pc = "check"
    BY <2>1 DEF Given, Check
  <2> QED BY <2>2 DEF Hand, Types, Goroutine
<1>3. Types'
  BY <1>1, <1>2, Constants DEF Hand, Types, Goroutine, Proxy
<1>4. Owned'
  <2> SUFFICES ASSUME NEW l \in Worker
               PROVE  /\ chk'[l].p = 0 <=> chk'[l].pc \in {"idle", "gone"}
                      /\ chk'[l].p # 0 => chk'[l].p < next' /\ checks'[chk'[l].p] = "none"
                      /\ \A m \in Worker : chk'[l].p # 0 /\ chk'[l].p = chk'[m].p => l = m
    BY DEF Owned
  <2>1. checks'[next] = "none" /\ next # 0
    BY <1>1, Constants DEF Hand, Pending, Types, Proxy
  <2>2. \A m \in Worker \ {k} : chk'[m] = chk[m] /\ chk[m].p # next
    BY <1>1, <1>2, <2>1, Constants DEF Owned, Types, Goroutine, Check, Proxy
  <2>3. \A m \in Worker : chk[m].p \in 0..N
    BY DEF Types, Goroutine, Check
  <2> QED BY <1>1, <1>2, <2>1, <2>2, <2>3, Constants DEF Owned, Hand, Proxy
<1>5. Pending'
  <2>1. \A m \in Worker : chk[m].p # 0 => m # k
    BY DEF Hand, Owned
  <2> QED BY <1>1, <1>2, <2>1, Constants DEF Hand, Pending, Proxy, Types, Goroutine
<1>6. Phases' /\ Retries'
  BY <1>1, <1>2, Constants DEF Hand, Phases, Retries, Goroutine, Types, Proxy
<1> QED BY <1>3, <1>4, <1>5, <1>6

LEMMA WorkerEndsInv ==
  ASSUME PoolInv, NEW k \in Worker, WorkerEnds(k)
  PROVE  PoolInv'
<1> USE DEF PoolInv
<1>1. /\ chk'[k].p = chk[k].p /\ chk'[k].pc = "gone" /\ chk[k].pc = "idle" /\ chk'[k] \in Check
      /\ \A g \in Goroutine \ {k} : chk'[g] = chk[g]
  BY DEF WorkerEnds, Types, Check, Goroutine
<1>2. Types'
  BY <1>1 DEF WorkerEnds, Types, Goroutine
<1>3. Owned' /\ Pending'
  BY <1>1 DEF WorkerEnds, Owned, Pending, Goroutine
<1>4. Phases' /\ Retries'
  BY <1>1, Constants DEF WorkerEnds, Phases, Retries, Goroutine
<1> QED BY <1>2, <1>3, <1>4

LEMMA CollectInv ==
  ASSUME PoolInv, NEW k \in Worker, Collect(k)
  PROVE  PoolInv'
<1> USE DEF PoolInv
<1>1. chk[k].p \in Proxy /\ chk[k].p < next /\ chk[k].res \in {"ok", "err"}
  BY Constants DEF Collect, Owned, Types, Check, Goroutine, Proxy
<1>2. /\ chk'[k] = Idle /\ \A g \in Goroutine \ {k} : chk'[g] = chk[g]
      /\ checks'[chk[k].p] = chk[k].res
      /\ \A p \in Proxy \ {chk[k].p} : checks'[p] = checks[p]
  BY <1>1 DEF Collect, Types, Goroutine
<1>3. Types'
  BY <1>1, <1>2, Constants DEF Collect, Types, Goroutine, Results
<1>4. Owned'
  BY <1>1, <1>2, Constants DEF Collect, Owned, Types, Goroutine, Check, Proxy
<1>5. Pending'
  BY <1>1, <1>2, Constants DEF Collect, Pending, Types, Goroutine, Proxy
<1>6. Phases' /\ Retries'
  BY <1>1, <1>2, Constants DEF Collect, Phases, Retries, Goroutine
<1> QED BY <1>3, <1>4, <1>5, <1>6

LEMMA DrainedInv ==
  ASSUME PoolInv, Drained
  PROVE  PoolInv'
<1> USE DEF PoolInv
<1>1. pool' \in {"dropped", "retry", "apply"} /\ tail' \subseteq Proxy
  BY DEF Drained, Conclude, FailuresOf
<1>2. Types' /\ Owned' /\ Pending'
  BY <1>1 DEF Drained, Conclude, Types, Owned, Pending
<1>3. Phases'
  BY <1>1 DEF Drained, Conclude, Phases
<1>4. pool' = "retry" => tail' = FailuresOf(checks)
  BY DEF Drained, Conclude
<1>5. Retries'
  BY <1>4, AllCollected, Constants DEF Drained, Conclude, FailuresOf, Retries, Phases
<1> QED BY <1>2, <1>3, <1>5

LEMMA RecheckInv ==
  ASSUME PoolInv, Recheck
  PROVE  PoolInv'
<1> USE DEF PoolInv
<1>1. PICK p \in tail : chk' = [chk EXCEPT ![Main] = Given(p)]
  BY DEF Recheck, Ahead
<1>2. p \in Proxy /\ p \in 0..N
  BY Constants DEF Types, Proxy
<1>3. /\ chk'[Main].p = p /\ chk'[Main] \in Check
      /\ \A g \in Worker : chk'[g] = chk[g]
  BY <1>1, <1>2, Constants DEF Types, Goroutine, Given, Check
<1>4. Types'
  BY <1>1, <1>3 DEF Recheck, Types, Goroutine
<1>5. Owned' /\ Pending' /\ Phases'
  BY <1>3 DEF Recheck, Owned, Pending, Phases
<1>6. Retries'
  BY <1>3 DEF Recheck, Retries
<1> QED BY <1>4, <1>5, <1>6

LEMMA RecheckedInv ==
  ASSUME PoolInv, Rechecked
  PROVE  PoolInv'
<1> USE DEF PoolInv
<1>1. chk[Main].p \in tail /\ chk[Main].p \in Proxy /\ chk[Main].res \in {"ok", "err"}
  BY DEF Rechecked, Retries, Types, Goroutine, Check
<1>2. /\ chk'[Main].pc = "idle" /\ chk'[Main] \in Check
      /\ \A g \in Worker : chk'[g] = chk[g]
      /\ checks'[chk[Main].p] = chk[Main].res
      /\ \A p \in Proxy \ {chk[Main].p} : checks'[p] = checks[p]
  BY <1>1, Constants DEF Rechecked, Types, Goroutine, Check
<1>3. \A k \in Worker : chk[k].pc = "gone" /\ chk[k].p = 0
  BY DEF Rechecked, Phases, Owned
<1>4. Types'
  BY <1>1, <1>2 DEF Rechecked, Types, Goroutine, Results
<1>5. Owned'
  BY <1>2, <1>3 DEF Owned
<1>6. Pending'
  <2>1. next = N + 1 /\ \A p \in Proxy : checks[p] \in {"ok", "err"}
    BY <1>3, AllCollected
  <2> QED BY <1>1, <1>2, <2>1, Constants DEF Rechecked, Pending, Proxy
<1>7. Phases' /\ Retries'
  BY <1>1, <1>2, <1>3 DEF Rechecked, Phases, Retries
<1> QED BY <1>4, <1>5, <1>6, <1>7

LEMMA NextInv == PoolInv /\ [Next]_vars => PoolInv'
<1> SUFFICES ASSUME PoolInv, [Next]_vars PROVE PoolInv'
  OBVIOUS
<1>1. ASSUME NEW k \in Goroutine, Checked(k) PROVE PoolInv'
  BY <1>1, CheckedInv
<1>2. ASSUME NEW k \in Worker, Hand(k) \/ WorkerEnds(k) \/ Collect(k) PROVE PoolInv'
  BY <1>2, HandInv, WorkerEndsInv, CollectInv
<1>3. CASE Drained \/ Recheck \/ Rechecked
  BY <1>3, DrainedInv, RecheckInv, RecheckedInv
<1>4. CASE Cancel
  BY <1>4 DEF Cancel, PoolInv, Types, Owned, Pending, Phases, Retries
<1>5. CASE UNCHANGED vars
  BY <1>5 DEF vars, PoolInv, Types, Owned, Pending, Phases, Retries
<1> QED BY <1>1, <1>2, <1>3, <1>4, <1>5 DEF Next, Rest

LEMMA InvType == PoolInv => TypeOK
<1> SUFFICES ASSUME PoolInv, NEW p \in Proxy
             PROVE  Cardinality({k \in Worker : chk[k].p = p}) =
                      IF p < next /\ checks[p] = "none" THEN 1 ELSE 0
  BY DEF PoolInv, Types, Results, TypeOK
<1> USE DEF PoolInv
<1> DEFINE H == {k \in Worker : chk[k].p = p}
<1>1. p # 0
  BY Constants DEF Proxy
<1>2. CASE p < next /\ checks[p] = "none"
  <2>1. PICK k \in Worker : chk[k].p = p
    BY <1>2 DEF Pending
  <2>2. H = {k}
    BY <1>1, <2>1 DEF Owned
  <2> QED BY <1>2, <2>2, FS_Singleton
<1>3. CASE ~(p < next /\ checks[p] = "none")
  <2>1. H = {}
    BY <1>1, <1>3 DEF Owned
  <2> QED BY <1>3, <2>1, FS_EmptySet
<1> QED BY <1>2, <1>3

\* However the goroutines interleave, a proxy that was handed out and not yet
\* collected is with exactly one worker, and any other with none (CheckAll).
THEOREM TypeCorrect == Spec => []TypeOK
<1>1. Spec => []PoolInv
  BY InitInv, NextInv, PTL DEF Spec
<1> QED BY <1>1, InvType, PTL

-----------------------------------------------------------------------------
(***************************************************************************)
(* The steps of the pool are those of ProbeRound.                          *)
(***************************************************************************)
roundVars == <<pool, Outcome, ctx>>

LEMMA InitRound == Init => Round!Init
BY DEF Init, Round!Init, Outcome, Proxy, Round!Proxy

LEMMA DrainedRound ==
  ASSUME PoolInv, Drained
  PROVE  Round!Probe
<1>1. pool = "probe" /\ ctx' = ctx /\ checks' = checks
  BY DEF Drained, Conclude
<1>2. checks \in [Proxy -> {"ok", "err"}]
  BY AllCollected DEF Drained, PoolInv, Types
<1>3. CASE ctx = "cancelled"
  <2>1. pool' = "dropped"
    BY <1>3 DEF Drained, Conclude
  <2>2. Outcome' = Outcome
    BY <1>1, <2>1 DEF Outcome
  <2> QED BY <1>1, <1>3, <2>1, <2>2 DEF Round!Probe
<1>4. CASE ctx = "open"
  <2>1. /\ pool' = IF FailuresOf(checks) # {} /\ Cardinality(FailuresOf(checks)) <= RetryLimit
                   THEN "retry" ELSE "apply"
        /\ pool' = "retry" => tail' = FailuresOf(checks)
    BY <1>4 DEF Drained, Conclude
  <2>2. Outcome' = checks
    BY <1>1, <1>2, <2>1 DEF Outcome, FailuresOf
  <2>3. Round!Failures(Outcome') = FailuresOf(checks) /\ Round!Proxy = Proxy
    BY <2>2 DEF Round!Failures, FailuresOf, Round!Proxy, Proxy
  <2>4. Round!Cardinality(FailuresOf(checks)) = Cardinality(FailuresOf(checks))
    BY Zenon DEF Round!Cardinality, Cardinality, Round!IsFiniteSet, IsFiniteSet
  <2>5. Outcome' \in [Proxy -> {"ok", "err"}]
    BY <1>2, <2>2
  <2> QED BY <1>1, <1>4, <2>1, <2>3, <2>4, <2>5 DEF Round!Probe
<1> QED BY <1>3, <1>4 DEF PoolInv, Types

LEMMA RecheckedRound ==
  ASSUME PoolInv, Rechecked
  PROVE  Round!Retry \/ UNCHANGED roundVars
<1>1. /\ pool = "retry" /\ ctx' = ctx /\ tail' = tail
      /\ chk[Main].p \in tail /\ tail \subseteq Proxy
      /\ chk[Main].res \in {"ok", "err"}
  BY DEF Rechecked, PoolInv, Retries, Types, Goroutine, Check
<1>2. \A p \in Proxy \ tail : checks'[p] = checks[p] /\ checks[p] = "ok"
  BY <1>1 DEF Rechecked, PoolInv, Retries, Types
<1>3. CASE pool' = "retry"
  <2>1. Outcome' = Outcome
    BY <1>1, <1>2, <1>3 DEF Outcome
  <2> QED BY <1>1, <1>3, <2>1 DEF roundVars
<1>4. CASE pool' = "apply"
  <2> DEFINE good == {p \in tail : checks'[p] = "ok"}
  <2>1. \A p \in Proxy : checks[p] \in {"ok", "err"}
    BY <1>1, AllCollected DEF PoolInv, Phases
  <2>2. \A p \in Proxy : checks'[p] \in {"ok", "err"}
    BY <1>1, <2>1 DEF Rechecked, PoolInv, Types
  <2>3. Round!Failures(Outcome) = tail /\ Round!Proxy = Proxy
    BY <1>1, <1>2 DEF Round!Failures, Round!Proxy, Proxy, Outcome
  <2>4. Outcome' = [p \in Proxy |-> IF p \in good THEN "ok" ELSE Outcome[p]]
    BY <1>1, <1>2, <1>4, <2>2 DEF Outcome
  <2> QED BY <1>1, <1>4, <2>3, <2>4 DEF Round!Retry
<1> QED BY <1>3, <1>4 DEF Rechecked

LEMMA NextRound ==
  ASSUME PoolInv, [Next]_vars
  PROVE  [Round!Next]_roundVars
<1> USE DEF Round!Next
<1>1. ASSUME NEW k \in Goroutine, Checked(k) PROVE UNCHANGED roundVars
  BY <1>1 DEF Checked, roundVars, Outcome
<1>2. ASSUME NEW k \in Worker, Hand(k) \/ WorkerEnds(k) PROVE UNCHANGED roundVars
  BY <1>2 DEF Hand, WorkerEnds, roundVars, Outcome
<1>3. ASSUME NEW k \in Worker, Collect(k) PROVE UNCHANGED roundVars
  BY <1>3 DEF Collect, roundVars, Outcome
<1>4. CASE Drained
  BY <1>4, DrainedRound
<1>5. CASE Recheck
  BY <1>5 DEF Recheck, roundVars, Outcome
<1>6. CASE Rechecked
  BY <1>6, RecheckedRound
<1>7. CASE Cancel
  <2>1. Outcome' = Outcome
    BY <1>7 DEF Cancel, Outcome
  <2> QED BY <1>7, <2>1 DEF Cancel, Round!Cancel
<1>8. CASE UNCHANGED vars
  BY <1>8 DEF vars, roundVars, Outcome
<1> QED BY <1>1, <1>2, <1>3, <1>4, <1>5, <1>6, <1>7, <1>8 DEF Next, Rest

\* With any number of workers and proxies, a scan sees its pool take the steps of
\* ProbeRound: every proxy has its result before one of them is used, the context
\* is consulted at that point, and the retry pass changes only failures.
THEOREM RoundImplemented == Spec => Round!Init /\ [][Round!Next]_roundVars
<1>1. Spec => []PoolInv
  BY InitInv, NextInv, PTL DEF Spec
<1> QED BY <1>1, InitRound, NextRound, PTL DEF Spec
=============================================================================

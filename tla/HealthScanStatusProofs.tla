----------------------- MODULE HealthScanStatusProofs -----------------------
(***************************************************************************)
(* Proofs about the statuses HealthScan saves, for any number of handlers, *)
(* ports, scans, requests, restarts and faults: what a status says of a    *)
(* proxy is true of it, whichever requests the scan raced with.            *)
(***************************************************************************)
EXTENDS HealthScanProofs

Busy == {"probe", "retry", "apply"}

\* The ports whose "checking" has an explanation.
Explained == cut \union {p \in Port : \E s \in Scan : p \in scan[s].snap /\ scan[s].pc \in Busy}

\* A state whose statuses are right, when the checks of the ports in P have once
\* succeeded and those in E may be "checking".
Good(st, P, E) ==
  \A p \in Port :
    /\ st.mode[p] = "disabled" <=> st.status[p] = "disabled"
    /\ st.mode[p] = "absent" <=> st.status[p] = "none"
    /\ st.status[p] = "live" => p \in P
    /\ st.status[p] = "checking" => p \in E

\* What a rollback would restore is right as well; mu keeps scans from writing
\* their results, so that what explained the original still does.
OriginalsGood ==
  \A r \in Req : req[r].pc \in Holding => Good(req[r].orig, passed, Explained)

\* A scan has evidence, in P, for what it is going to write, and once its pool
\* has drained a result for every proxy it marked.
Evidenced(sc, P) ==
  /\ \A p \in Port : sc.res[p] = "ok" => p \in P
  /\ sc.live \subseteq P
  /\ sc.pc \in {"retry", "apply"} => \A p \in sc.snap : sc.res[p] # "none"

ResultsGood == \A s \in Scan : Evidenced(scan[s], passed)

StatusInv ==
  /\ LockInv
  /\ Good(state, passed, Explained)
  /\ liveList \subseteq passed
  /\ OriginalsGood /\ ResultsGood

(***************************************************************************)
(* Lemmas about states.                                                    *)
(***************************************************************************)
LEMMA GoodMonotone ==
  ASSUME NEW st, NEW P, NEW Q, NEW E, NEW F, Good(st, P, E), P \subseteq Q, E \subseteq F
  PROVE  Good(st, Q, F)
BY DEF Good

LEMMA GoodChange ==
  ASSUME NEW st \in State, NEW P, NEW E, NEW S, Good(st, P, E),
         NEW m \in Mode, NEW t \in Status,
         <<m, t>> \in {<<"enabled", "pending">>, <<"disabled", "disabled">>, <<"absent", "none">>}
  PROVE  Good(WithProxies(st, S, m, t), P, E)
<1>1. \/ m = "enabled" /\ t = "pending"
      \/ m = "disabled" /\ t = "disabled"
      \/ m = "absent" /\ t = "none"
  OBVIOUS
<1>2. \A p \in Port :
        /\ WithProxies(st, S, m, t).mode[p] = IF p \in S THEN m ELSE st.mode[p]
        /\ WithProxies(st, S, m, t).status[p] = IF p \in S THEN t ELSE st.status[p]
  BY DEF WithProxies, State
<1> QED BY <1>1, <1>2 DEF Good

LEMMA GoodInit == Good(InitState, {}, {})
<1>1. Blank \in State
  BY BoundsAssumption DEF Blank, State, Mode, Status, Port
<1>2. Good(Blank, {}, {})
  BY DEF Good, Blank
<1> QED BY <1>1, <1>2, GoodChange DEF InitState, Mode, Status

LEMMA GoodCandidate ==
  ASSUME NEW st \in State, NEW P, NEW E, Good(st, P, E),
         NEW op \in Mutations, NEW c \in Candidates(op, st)
  PROVE  Good(c, P, E)
<1> USE DEF Mode, Status
<1>1. CASE op = "create"
  <2>1. PICK n \in 1..MaxBatch :
          c = [WithProxies(st, st.next..(st.next + n - 1), "enabled", "pending")
                 EXCEPT !.next = st.next + n]
    BY <1>1 DEF Candidates, CreateCandidates
  <2> DEFINE w == WithProxies(st, st.next..(st.next + n - 1), "enabled", "pending")
  <2>2. Good(w, P, E) /\ w \in State
    BY GoodChange, WithProxiesType
  <2>3. c.mode = w.mode /\ c.status = w.status
    BY <2>1, <2>2 DEF State
  <2> HIDE DEF w
  <2> QED BY <2>2, <2>3 DEF Good
<1>2. CASE op = "enable"
  BY <1>2, GoodChange DEF Candidates
<1>3. CASE op = "disable"
  BY <1>3, GoodChange DEF Candidates
<1>4. CASE op = "delete"
  BY <1>4, GoodChange DEF Candidates
<1>5. CASE op = "repair"
  BY <1>5 DEF Candidates
<1> QED BY <1>1, <1>2, <1>3, <1>4, <1>5 DEF Mutations

\* Marking the enabled proxies, which are the ones the scan will report on.
LEMMA GoodMarked ==
  ASSUME NEW st \in State, NEW P, NEW E, Good(st, P, E)
  PROVE  Good([st EXCEPT !.status =
                 [p \in Port |-> IF p \in Enabled(st) THEN "checking" ELSE @[p]]],
              P, E \union Enabled(st))
<1> DEFINE n == [st EXCEPT !.status =
                   [p \in Port |-> IF p \in Enabled(st) THEN "checking" ELSE @[p]]]
<1>1. \A p \in Port : /\ n.mode[p] = st.mode[p]
                      /\ n.status[p] = IF p \in Enabled(st) THEN "checking" ELSE st.status[p]
  BY DEF State
<1>2. \A p \in Enabled(st) : st.mode[p] = "enabled"
  BY DEF Enabled
<1> HIDE DEF n
<1>3. Good(n, P, E \union Enabled(st))
  BY <1>1, <1>2 DEF Good
<1> QED BY <1>3 DEF n

\* Results by port: whoever has one is not "checking" any more.
LEMMA GoodResults ==
  ASSUME NEW st \in State, NEW P, NEW E, Good(st, P, E), NEW res \in [Port -> Result],
         \A p \in Port : res[p] = "ok" => p \in P
  PROVE  Good(WithResults(st, res), P, {p \in E : res[p] = "none"})
<1> DEFINE w == WithResults(st, res)
<1>1. \A p \in Port :
        /\ w.mode[p] = st.mode[p]
        /\ w.status[p] = CASE st.mode[p] = "disabled" -> "disabled"
                           [] st.mode[p] = "enabled" /\ res[p] = "ok"  -> "live"
                           [] st.mode[p] = "enabled" /\ res[p] = "err" -> "failed"
                           [] OTHER -> st.status[p]
  BY DEF WithResults, State
<1>2. \A p \in Port : st.mode[p] \in Mode /\ res[p] \in Result
  BY DEF State
<1> HIDE DEF w
<1>3. Good(w, P, {p \in E : res[p] = "none"})
  BY <1>1, <1>2 DEF Good, Mode, Result
<1> QED BY <1>3 DEF w

\* A scan at its end, or not yet begun, writes nothing.
LEMMA BlankEvidenced ==
  ASSUME NEW sc \in ScanRecord, NEW P
  PROVE  /\ Evidenced(NoScan, P) /\ Evidenced(AtEnd(sc), P)
         /\ \A n \in Nat : Evidenced([NoScan EXCEPT !.pc = "mark", !.id = n], P)
BY DEF Evidenced, NoScan, AtEnd

LEMMA LiveOfGood ==
  ASSUME NEW st, NEW P, NEW E, Good(st, P, E)
  PROVE  LiveOf(st) \subseteq P
BY DEF Good, LiveOf

(***************************************************************************)
(* Lemmas about steps.                                                     *)
(***************************************************************************)
\* A step of a scan that goes on with the proxies it marked, if it marked any,
\* takes no explanation away.
LEMMA ExplainedGrows ==
  ASSUME TypeOK, NEW s \in Scan, scan' = [scan EXCEPT ![s] = scan'[s]], cut \subseteq cut',
         scan[s].pc \in Busy => scan'[s].pc \in Busy /\ scan'[s].snap = scan[s].snap
  PROVE  Explained \subseteq Explained'
<1>1. \A x \in Scan \ {s} : scan'[x] = scan[x]
  BY DEF TypeOK
<1> QED BY <1>1 DEF Explained

\* The evidence of the scans that take no step stays good.
LEMMA EvidenceGrows ==
  ASSUME TypeOK, ResultsGood, NEW s \in Scan, scan' = [scan EXCEPT ![s] = scan'[s]],
         passed \subseteq passed', Evidenced(scan'[s], passed')
  PROVE  ResultsGood'
<1>1. \A x \in Scan \ {s} : scan'[x] = scan[x]
  BY DEF TypeOK
<1>2. \A x \in Scan \ {s} : Evidenced(scan[x], passed')
  BY DEF ResultsGood, Evidenced
<1> QED BY <1>1, <1>2 DEF ResultsGood

\* What a step that leaves the saved state and the requests alone has to keep.
LEMMA StateFrame ==
  ASSUME StatusInv, LockInv', UNCHANGED <<state, req>>,
         passed \subseteq passed', Explained \subseteq Explained',
         liveList' \subseteq passed', ResultsGood'
  PROVE  StatusInv'
<1>1. Good(state', passed', Explained')
  BY GoodMonotone DEF StatusInv
<1>2. OriginalsGood'
  BY GoodMonotone DEF StatusInv, OriginalsGood
<1> QED BY <1>1, <1>2 DEF StatusInv

\* A scan that goes to its end keeps the evidence good.
LEMMA EndKeepsEvidence ==
  ASSUME StatusInv, NEW s \in Scan, scan' = [scan EXCEPT ![s] = AtEnd(scan[s])],
         UNCHANGED passed
  PROVE  /\ scan' = [scan EXCEPT ![s] = scan'[s]] /\ scan'[s] = AtEnd(scan[s])
         /\ ResultsGood'
<1>1. TypeOK /\ ResultsGood /\ scan[s] \in ScanRecord
  BY DEF StatusInv, LockInv, TypeOK
<1>2. scan' = [scan EXCEPT ![s] = scan'[s]] /\ scan'[s] = AtEnd(scan[s])
  BY <1>1 DEF TypeOK
<1>3. Evidenced(scan'[s], passed')
  BY <1>1, <1>2, BlankEvidenced
<1> QED BY <1>1, <1>2, <1>3, EvidenceGrows

LEMMA CutShortKeeps ==
  ASSUME StatusInv, LockInv', NEW s \in Scan, CutShort(s),
         UNCHANGED <<state, req, liveList, passed>>
  PROVE  StatusInv'
<1>1. scan' = [scan EXCEPT ![s] = AtEnd(scan[s])] /\ cut' = cut \union scan[s].snap
  BY DEF CutShort, GoToEnd
<1>2. scan' = [scan EXCEPT ![s] = scan'[s]] /\ ResultsGood'
  BY <1>1, EndKeepsEvidence
<1>3. TypeOK /\ cut \subseteq cut' /\ scan[s].snap \subseteq cut'
  BY <1>1 DEF StatusInv, LockInv
<1>4. Explained \subseteq Explained'
  <2>1. \A x \in Scan \ {s} : scan'[x] = scan[x]
    BY <1>2, <1>3 DEF TypeOK
  <2> QED BY <1>3, <2>1 DEF Explained
<1>5. liveList' \subseteq passed' /\ passed \subseteq passed'
  BY DEF StatusInv
<1> QED BY <1>2, <1>4, <1>5, StateFrame

LEMMA MarkCheckingKeeps ==
  ASSUME StatusInv, LockInv', NEW s \in Scan, MarkChecking(s)
  PROVE  StatusInv'
<1>0. TypeOK /\ ResultsGood /\ scan[s] \in ScanRecord
  BY DEF StatusInv, LockInv, TypeOK
<1>1. scan[s].pc = "mark" /\ UNCHANGED <<req, liveList, passed>>
  BY DEF MarkChecking, listVars
<1>2. CASE CutShort(s) /\ UNCHANGED state
  BY <1>1, <1>2, CutShortKeeps
<1>3. CASE /\ state' = [state EXCEPT !.status =
                  [p \in Port |-> IF p \in Enabled(state) THEN "checking" ELSE @[p]]]
           /\ scan' = [scan EXCEPT ![s].pc = "probe", ![s].snap = Enabled(state)]
           /\ UNCHANGED cut
  <2>1. /\ scan' = [scan EXCEPT ![s] = scan'[s]]
        /\ scan'[s] = [scan[s] EXCEPT !.pc = "probe", !.snap = Enabled(state)]
    BY <1>0, <1>3 DEF TypeOK
  <2>2. /\ scan'[s].pc = "probe" /\ scan'[s].snap = Enabled(state)
        /\ scan'[s].res = scan[s].res /\ scan'[s].live = scan[s].live
    BY <1>0, <2>1 DEF ScanRecord
  <2>3. ResultsGood'
    <3>1. Evidenced(scan[s], passed)
      BY <1>0 DEF ResultsGood
    <3>2. Evidenced(scan'[s], passed')
      BY <1>1, <2>2, <3>1 DEF Evidenced
    <3> QED BY <1>0, <1>1, <2>1, <3>2, EvidenceGrows
  <2>4. Explained \subseteq Explained'
    BY <1>0, <1>1, <1>3, <2>1, ExplainedGrows DEF Busy
  <2>5. Enabled(state) \subseteq Explained'
    BY <2>2 DEF Explained, Busy, Enabled
  <2>6. Good(state', passed, Explained \union Enabled(state))
    BY <1>0, <1>3, GoodMarked DEF StatusInv, TypeOK
  <2>7. Good(state', passed', Explained')
    BY <1>1, <2>4, <2>5, <2>6, GoodMonotone
  <2>8. OriginalsGood'
    BY <1>1, <2>4, GoodMonotone DEF StatusInv, OriginalsGood
  <2> QED BY <1>1, <2>3, <2>7, <2>8 DEF StatusInv
<1> QED BY <1>2, <1>3 DEF MarkChecking

\* A round of checks reports on every proxy it checked and forgets no result.
LEMMA OutcomesReport ==
  ASSUME NEW S, NEW res \in [Port -> Result], NEW out \in Outcomes(S, res)
  PROVE  /\ \A p \in Port \cap S : out[p] \in {"ok", "err"}
         /\ \A p \in Port \ S : out[p] = res[p]
BY DEF Outcomes

\* A round that is over: the scan keeps its snapshot and has all its results.
LEMMA RoundKeeps ==
  ASSUME StatusInv, LockInv', NEW s \in Scan, scan[s].pc \in Busy,
         NEW res \in [Port -> Result], NEW next \in {"retry", "apply"},
         scan' = [scan EXCEPT ![s].res = res, ![s].pc = next],
         passed' = passed \union Passed(res),
         \A p \in scan[s].snap : res[p] # "none",
         UNCHANGED <<state, req, liveList, cut>>
  PROVE  StatusInv'
<1>0. TypeOK /\ ResultsGood /\ scan[s] \in ScanRecord
  BY DEF StatusInv, LockInv, TypeOK
<1>1. /\ scan' = [scan EXCEPT ![s] = scan'[s]]
      /\ scan'[s] = [scan[s] EXCEPT !.res = res, !.pc = next]
  BY <1>0 DEF TypeOK
<1> DEFINE new == [scan[s] EXCEPT !.res = res, !.pc = next]
<1>a. new.pc = next /\ new.snap = scan[s].snap /\ new.res = res /\ new.live = scan[s].live
  BY <1>0 DEF ScanRecord
<1> HIDE DEF new
<1>2. /\ scan'[s].pc = next /\ scan'[s].snap = scan[s].snap
      /\ scan'[s].res = res /\ scan'[s].live = scan[s].live
  BY <1>1, <1>a DEF new
<1>3. ResultsGood'
  <2>1. Evidenced(scan[s], passed)
    BY <1>0 DEF ResultsGood
  <2>2. Evidenced(scan'[s], passed')
    BY <1>2, <2>1 DEF Evidenced, Passed
  <2> QED BY <1>0, <1>1, <2>2, EvidenceGrows
<1>4. Explained \subseteq Explained'
  BY <1>0, <1>1, <1>2, ExplainedGrows DEF Busy
<1> QED BY <1>3, <1>4, StateFrame DEF StatusInv

LEMMA ProbeKeeps ==
  ASSUME StatusInv, LockInv', NEW s \in Scan, Probe(s)
  PROVE  StatusInv'
<1>0. TypeOK /\ scan[s] \in ScanRecord
  BY DEF StatusInv, LockInv, TypeOK
<1>1. scan[s].pc = "probe" /\ UNCHANGED <<state, req, liveList>>
  BY DEF Probe, listVars
<1>2. CASE CutShort(s) /\ UNCHANGED passed
  BY <1>1, <1>2, CutShortKeeps
<1>3. ASSUME NEW res \in Outcomes(scan[s].snap, scan[s].res),
             scan' = [scan EXCEPT ![s].res = res,
                                  ![s].pc = IF Retries(res) THEN "retry" ELSE "apply"],
             passed' = passed \union Passed(res), UNCHANGED cut
      PROVE  StatusInv'
  <2>1. scan[s].snap \subseteq Port /\ scan[s].res \in [Port -> Result]
    BY <1>0 DEF ScanRecord
  <2>2. res \in [Port -> Result] /\ \A p \in scan[s].snap : res[p] # "none"
    BY <2>1, OutcomesType, OutcomesReport
  <2>3. (IF Retries(res) THEN "retry" ELSE "apply") \in {"retry", "apply"}
    OBVIOUS
  <2> QED BY <1>1, <1>3, <2>2, <2>3, RoundKeeps DEF Busy
<1> QED BY <1>2, <1>3 DEF Probe

LEMMA RetryKeeps ==
  ASSUME StatusInv, LockInv', NEW s \in Scan, Retry(s)
  PROVE  StatusInv'
<1>0. TypeOK /\ ResultsGood /\ scan[s] \in ScanRecord
  BY DEF StatusInv, LockInv, TypeOK
<1>1. scan[s].pc = "retry" /\ UNCHANGED <<state, req, liveList, cut>>
  BY DEF Retry, listVars
<1>2. PICK res \in Outcomes(Failed(scan[s].res), scan[s].res) :
        /\ scan' = [scan EXCEPT ![s].res = res, ![s].pc = "apply"]
        /\ passed' = passed \union Passed(res)
  BY DEF Retry
<1>3. scan[s].snap \subseteq Port /\ scan[s].res \in [Port -> Result]
  BY <1>0 DEF ScanRecord
<1>4. \A p \in scan[s].snap : scan[s].res[p] # "none"
  BY <1>0, <1>1 DEF ResultsGood, Evidenced
<1>5. res \in [Port -> Result] /\ \A p \in scan[s].snap : res[p] # "none"
  BY <1>3, <1>4, OutcomesType, OutcomesReport
<1> QED BY <1>1, <1>2, <1>5, RoundKeeps DEF Busy

\* The results of a scan are about every proxy it marked, so that none of them
\* is left "checking" without an explanation.
LEMMA ApplyResultsKeeps ==
  ASSUME StatusInv, LockInv', NEW s \in Scan, ApplyResults(s)
  PROVE  StatusInv'
<1>0. TypeOK /\ ResultsGood /\ scan[s] \in ScanRecord
  BY DEF StatusInv, LockInv, TypeOK
<1>1. scan[s].pc = "apply" /\ mu = NoReq /\ UNCHANGED <<req, liveList, passed>>
  BY DEF ApplyResults, listVars
<1>2. CASE CutShort(s) /\ UNCHANGED state
  BY <1>1, <1>2, CutShortKeeps
<1>3. CASE SaveResults(s, WithResults(state, scan[s].res))
  <2> DEFINE st  == WithResults(state, scan[s].res)
             end == [AtEnd(scan[s]) EXCEPT !.pc = "full", !.full = FullOf(st), !.live = LiveOf(st)]
  <2>1. scan[s].res \in [Port -> Result] /\ scan[s].snap \subseteq Port
    BY <1>0 DEF ScanRecord
  <2>2. Evidenced(scan[s], passed)
    BY <1>0 DEF ResultsGood
  <2>3. Good(st, passed, {p \in Explained : scan[s].res[p] = "none"})
    BY <1>0, <2>1, <2>2, GoodResults DEF StatusInv, TypeOK, Evidenced
  <2>4. LiveOf(st) \subseteq passed
    BY <2>3, LiveOfGood
  <2>5. /\ end.pc = "full" /\ end.res = NoScan.res /\ end.snap = {}
        /\ end.live = LiveOf(st)
    BY <1>0, AtEndType DEF AtEnd, NoScan, ScanRecord
  <2>6. state' = st /\ scan' = [scan EXCEPT ![s] = end]
        /\ cut' = cut \ {p \in Port : scan[s].res[p] # "none"}
    BY <1>3 DEF SaveResults
  <2> HIDE DEF st, end
  <2>7. scan' = [scan EXCEPT ![s] = scan'[s]] /\ scan'[s] = end
    BY <1>0, <2>6 DEF TypeOK
  <2>8. ResultsGood'
    <3>1. Evidenced(end, passed)
      BY <2>4, <2>5 DEF Evidenced, NoScan
    <3> QED BY <1>0, <1>1, <2>7, <3>1, EvidenceGrows
  <2>9. {p \in Explained : scan[s].res[p] = "none"} \subseteq Explained'
    <3>1. \A x \in Scan \ {s} : scan'[x] = scan[x]
      BY <1>0, <2>6 DEF TypeOK
    <3>2. \A p \in scan[s].snap : scan[s].res[p] # "none"
      BY <1>1, <2>2 DEF Evidenced
    <3> QED BY <2>6, <3>1, <3>2 DEF Explained
  <2>10. Good(state', passed', Explained')
    BY <1>1, <2>3, <2>6, <2>9, GoodMonotone
  <2>11. OriginalsGood'
    BY <1>1, BoundsAssumption DEF StatusInv, LockInv, HolderInv, OriginalsGood
  <2> QED BY <1>1, <2>8, <2>10, <2>11 DEF StatusInv
<1> QED BY <1>2, <1>3 DEF ApplyResults

\* A scan that has written its results holds no mark.
LEMMA EndKeepsExplained ==
  ASSUME TypeOK, NEW s \in Scan, scan[s].pc \notin Busy, UNCHANGED cut,
         scan' = [scan EXCEPT ![s] = scan'[s]]
  PROVE  Explained \subseteq Explained'
BY ExplainedGrows

LEMMA ScanWritesFullKeeps ==
  ASSUME StatusInv, LockInv', NEW s \in Scan, ScanWritesFull(s)
  PROVE  StatusInv'
<1>0. TypeOK /\ ResultsGood /\ scan[s] \in ScanRecord
  BY DEF StatusInv, LockInv, TypeOK
<1>1. scan[s].pc = "full" /\ UNCHANGED <<state, req, liveList, passed, cut>>
  BY DEF ScanWritesFull, history
<1>2. scan' = [scan EXCEPT ![s] = scan'[s]] /\ ResultsGood'
  <2>1. CASE GoTo(s, "live")
    <3>1. /\ scan' = [scan EXCEPT ![s] = scan'[s]]
          /\ scan'[s] = [scan[s] EXCEPT !.pc = "live"]
      BY <1>0, <2>1 DEF GoTo, TypeOK
    <3>2. /\ scan'[s].pc = "live" /\ scan'[s].snap = scan[s].snap
          /\ scan'[s].res = scan[s].res /\ scan'[s].live = scan[s].live
      BY <1>0, <3>1 DEF ScanRecord
    <3>3. Evidenced(scan'[s], passed')
      BY <1>0, <1>1, <3>2 DEF ResultsGood, Evidenced
    <3> QED BY <1>0, <1>1, <3>1, <3>3, EvidenceGrows
  <2>2. CASE GoToEnd(s)
    BY <1>1, <2>2, EndKeepsEvidence DEF GoToEnd
  <2> QED BY <2>1, <2>2 DEF ScanWritesFull
<1>3. Explained \subseteq Explained'
  BY <1>0, <1>1, <1>2, EndKeepsExplained DEF Busy
<1> QED BY <1>1, <1>2, <1>3, StateFrame DEF StatusInv

LEMMA ScanWritesLiveKeeps ==
  ASSUME StatusInv, LockInv', NEW s \in Scan, ScanWritesLive(s)
  PROVE  StatusInv'
<1>0. TypeOK /\ ResultsGood
  BY DEF StatusInv, LockInv
<1>1. scan[s].pc = "live" /\ GoToEnd(s) /\ UNCHANGED <<state, req, passed, cut>>
  BY DEF ScanWritesLive, history
<1>2. scan' = [scan EXCEPT ![s] = scan'[s]] /\ ResultsGood'
  BY <1>1, EndKeepsEvidence DEF GoToEnd
<1>3. Explained \subseteq Explained'
  BY <1>0, <1>1, <1>2, EndKeepsExplained DEF Busy
<1>4. liveList' \subseteq passed'
  BY <1>0, <1>1 DEF ScanWritesLive, StatusInv, ResultsGood, Evidenced
<1> QED BY <1>1, <1>2, <1>3, <1>4, StateFrame

LEMMA FinishKeepsStatus ==
  ASSUME StatusInv, LockInv', NEW s \in Scan, Finish(s)
  PROVE  StatusInv'
<1>0. TypeOK /\ ResultsGood /\ scan[s] \in ScanRecord
  BY DEF StatusInv, LockInv, TypeOK
<1>1. /\ scan[s].pc = "finish" /\ scan' = [scan EXCEPT ![s] = NoScan]
      /\ UNCHANGED <<state, req, liveList, passed, cut>>
  BY DEF Finish, listVars, history
<1>2. scan' = [scan EXCEPT ![s] = scan'[s]] /\ scan'[s] = NoScan
  BY <1>0, <1>1 DEF TypeOK
<1>3. ResultsGood'
  BY <1>0, <1>1, <1>2, BlankEvidenced, EvidenceGrows
<1>4. Explained \subseteq Explained'
  BY <1>0, <1>1, <1>2, EndKeepsExplained DEF Busy
<1> QED BY <1>1, <1>3, <1>4, StateFrame DEF StatusInv

LEMMA ScanStepKeepsStatus ==
  ASSUME StatusInv, LockInv', NEW s \in Scan, ScanStep(s)
  PROVE  StatusInv'
BY MarkCheckingKeeps, ProbeKeeps, RetryKeeps, ApplyResultsKeeps, ScanWritesFullKeeps,
   ScanWritesLiveKeeps, FinishKeepsStatus DEF ScanStep

\* What a step of a request has to keep.
LEMMA RequestFrame ==
  ASSUME StatusInv, LockInv', UNCHANGED <<scan, cut, passed>>,
         Good(state', passed, Explained), liveList' \subseteq passed,
         \A r \in Req : req'[r].pc \in Holding => Good(req'[r].orig, passed, Explained)
  PROVE  StatusInv'
<1>1. Explained' = Explained
  BY DEF Explained
<1>2. ResultsGood'
  BY DEF StatusInv, ResultsGood
<1> QED BY <1>1, <1>2 DEF StatusInv, OriginalsGood

\* A step of request r that gives it a good original, or none.
LEMMA OriginalsKept ==
  ASSUME StatusInv, NEW r \in Req, NEW q, req' = [req EXCEPT ![r] = q],
         q.pc \in Holding => Good(q.orig, passed, Explained)
  PROVE  \A x \in Req : req'[x].pc \in Holding => Good(req'[x].orig, passed, Explained)
BY DEF StatusInv, LockInv, TypeOK, OriginalsGood

LEMMA ReqStepKeepsStatus ==
  ASSUME StatusInv, LockInv', NEW r \in Req, ReqStep(r), ~Reply(r)
  PROVE  StatusInv'
<1> DEFINE Orig == \A x \in Req : req'[x].pc \in Holding => Good(req'[x].orig, passed, Explained)
<1>0. /\ req[r] \in ReqRecord /\ state \in State
      /\ Good(state, passed, Explained) /\ liveList \subseteq passed
  BY DEF StatusInv, LockInv, TypeOK
<1>1. UNCHANGED <<scan, cut, passed>>
  BY DEF ReqStep, BadList, Refuse, SaveCandidate, SaveFails, CommitFull, CommitLive, Rollback,
         RollbackFull, RollbackLive, checkVars, history
<1>a. ASSUME req' = [req EXCEPT ![r] = NoRequest] PROVE Orig
  <2>1. NoRequest.pc \notin Holding
    BY DEF NoRequest, Holding
  <2> QED BY <1>a, <2>1, OriginalsKept
<1>b. ASSUME NEW pc \in Holding, req' = [req EXCEPT ![r].pc = pc, ![r].orig = state] PROVE Orig
  <2> DEFINE q == [req[r] EXCEPT !.pc = pc, !.orig = state]
  <2>1. q.orig = state
    BY <1>0 DEF ReqRecord
  <2>2. req' = [req EXCEPT ![r] = q]
    BY <1>b
  <2> HIDE DEF q
  <2> QED BY <1>0, <2>1, <2>2, OriginalsKept
<1>c. ASSUME NEW pc, req' = [req EXCEPT ![r].pc = pc], req[r].pc \in Holding PROVE Orig
  <2> DEFINE q == [req[r] EXCEPT !.pc = pc]
  <2>1. q.orig = req[r].orig
    BY <1>0 DEF ReqRecord
  <2>2. req' = [req EXCEPT ![r] = q]
    BY <1>c
  <2>3. Good(q.orig, passed, Explained)
    BY <1>c, <2>1 DEF StatusInv, OriginalsGood
  <2> HIDE DEF q
  <2> QED BY <2>2, <2>3, OriginalsKept
<1>d. req[r].pc \in Holding => /\ Good(req[r].orig, passed, Explained)
                              /\ LiveOf(req[r].orig) \subseteq passed
  BY LiveOfGood DEF StatusInv, OriginalsGood
<1>e. LiveOf(state) \subseteq passed
  BY <1>0, LiveOfGood
<1> HIDE DEF Orig
<1>f. ASSUME Good(state', passed, Explained), liveList' \subseteq passed, Orig PROVE StatusInv'
  BY <1>1, <1>f, RequestFrame DEF Orig
<1>2. CASE BadList(r)
  BY <1>0, <1>2, <1>a, <1>f DEF BadList, listVars
<1>3. CASE Refuse(r)
  BY <1>0, <1>3, <1>a, <1>f DEF Refuse, listVars
<1>4. CASE SaveCandidate(r)
  <2>1. Good(state', passed, Explained)
    BY <1>0, <1>4, GoodCandidate DEF SaveCandidate, ReqRecord
  <2> QED BY <1>0, <1>4, <1>b, <1>f, <2>1 DEF SaveCandidate, listVars, Holding
<1>5. CASE SaveFails(r)
  BY <1>0, <1>5, <1>b, <1>f DEF SaveFails, listVars, Holding
<1>6. CASE CommitFull(r)
  BY <1>0, <1>6, <1>c, <1>f DEF CommitFull, Holding
<1>7. CASE CommitLive(r)
  <2>1. [NoRequest EXCEPT !.pc = "reply", !.op = req[r].op].pc \notin Holding
    BY DEF NoRequest, Holding
  <2>2. Orig
    BY <1>7, <2>1, OriginalsKept DEF CommitLive, Orig
  <2> QED BY <1>0, <1>7, <1>e, <1>f, <2>2 DEF CommitLive
<1>8. CASE Rollback(r)
  BY <1>0, <1>8, <1>c, <1>d, <1>f DEF Rollback, listVars, Holding
<1>9. CASE RollbackFull(r)
  BY <1>0, <1>9, <1>a, <1>c, <1>f DEF RollbackFull, Holding
<1>10. CASE RollbackLive(r)
  BY <1>0, <1>10, <1>a, <1>d, <1>f DEF RollbackLive, Holding
<1> QED BY <1>2, <1>3, <1>4, <1>5, <1>6, <1>7, <1>8, <1>9, <1>10 DEF ReqStep

\* The scans that were running keep what they know; a new one knows nothing.
LEMMA BookkeepingKeepsScans ==
  ASSUME TypeOK, StartCheck \/ StopCheck, NEW s \in Scan
  PROVE  \/ /\ scan'[s].pc = scan[s].pc /\ scan'[s].snap = scan[s].snap
            /\ scan'[s].res = scan[s].res /\ scan'[s].live = scan[s].live
         \/ /\ scan[s].pc = "idle"
            /\ \E n \in Nat : scan'[s] = [NoScan EXCEPT !.pc = "mark", !.id = n]
<1>0. scan \in [Scan -> ScanRecord] /\ checkID + 1 \in Nat
  BY DEF TypeOK
<1>1. /\ CancelRegistered[s].pc = scan[s].pc /\ CancelRegistered[s].snap = scan[s].snap
      /\ CancelRegistered[s].res = scan[s].res /\ CancelRegistered[s].live = scan[s].live
  BY <1>0 DEF CancelRegistered, ScanRecord
<1>2. CASE StopCheck
  BY <1>1, <1>2 DEF StopCheck
<1>3. CASE StartCheck
  <2> DEFINE new   == CHOOSE x \in Free : TRUE
             fresh == [NoScan EXCEPT !.pc = "mark", !.id = checkID + 1]
  <2>1. new \in Scan /\ scan[new].pc = "idle"
    BY <1>3 DEF StartCheck, Free
  <2>2. scan' = [CancelRegistered EXCEPT ![new] = fresh]
    BY <1>3 DEF StartCheck
  <2>3. DOMAIN CancelRegistered = Scan
    BY DEF CancelRegistered
  <2> HIDE DEF new
  <2>4. CASE s = new
    BY <1>0, <2>1, <2>2, <2>3, <2>4
  <2>5. CASE s # new
    <3>1. scan'[s] = CancelRegistered[s]
      BY <2>2, <2>3, <2>5
    <3> QED BY <1>1, <3>1
  <2> QED BY <2>4, <2>5
<1> QED BY <1>2, <1>3

LEMMA BookkeepingKeeps ==
  ASSUME StatusInv, LockInv', StartCheck \/ StopCheck,
         UNCHANGED <<state, liveList, passed, cut>>,
         \A r \in Req : req'[r].pc \in Holding => req'[r] = req[r]
  PROVE  StatusInv'
<1>0. TypeOK /\ ResultsGood
  BY DEF StatusInv, LockInv
<1>1. Explained \subseteq Explained'
  BY <1>0, BookkeepingKeepsScans DEF Explained, Busy
<1>2. ResultsGood'
  <2> SUFFICES ASSUME NEW s \in Scan PROVE Evidenced(scan'[s], passed')
    BY DEF ResultsGood
  <2>1. Evidenced(scan[s], passed)
    BY <1>0 DEF ResultsGood
  <2>2. CASE /\ scan'[s].pc = scan[s].pc /\ scan'[s].snap = scan[s].snap
             /\ scan'[s].res = scan[s].res /\ scan'[s].live = scan[s].live
    BY <2>1, <2>2 DEF Evidenced
  <2>3. CASE \E n \in Nat : scan'[s] = [NoScan EXCEPT !.pc = "mark", !.id = n]
    BY <2>3, BlankEvidenced, NoScanType
  <2> QED BY <1>0, <2>2, <2>3, BookkeepingKeepsScans
<1>3. Good(state', passed', Explained')
  BY <1>1, GoodMonotone DEF StatusInv
<1>4. OriginalsGood'
  BY <1>1, GoodMonotone DEF StatusInv, OriginalsGood
<1> QED BY <1>2, <1>3, <1>4 DEF StatusInv

\* The process dies: every scan is cut short and no request holds mu any more.
LEMMA RestartKeeps ==
  ASSUME StatusInv, LockInv', Restart
  PROVE  StatusInv'
<1>1. /\ scan' = [s \in Scan |-> NoScan] /\ req' = [r \in Req |-> NoRequest]
      /\ cut' = cut \union UNION {scan[s].snap : s \in Scan}
      /\ UNCHANGED <<state, liveList, passed>>
  BY DEF Restart, listVars
<1>2. Explained \subseteq Explained'
  BY <1>1 DEF Explained
<1>3. ResultsGood'
  BY <1>1, BlankEvidenced, NoScanType DEF ResultsGood
<1>4. OriginalsGood'
  BY <1>1 DEF OriginalsGood, NoRequest, Holding
<1>5. Good(state', passed', Explained')
  BY <1>1, <1>2, GoodMonotone DEF StatusInv
<1> QED BY <1>1, <1>3, <1>4, <1>5 DEF StatusInv

LEMMA InitStatus == Init => StatusInv
<1> SUFFICES ASSUME Init PROVE StatusInv
  OBVIOUS
<1>1. LockInv
  BY InitType, InitHolder DEF LockInv
<1>2. Good(InitState, {}, {})
  BY GoodInit
<1>3. Good(state, passed, Explained)
  BY <1>2, GoodMonotone DEF Init
<1>4. liveList \subseteq passed
  BY <1>2, LiveOfGood DEF Init
<1>5. ResultsGood
  BY BlankEvidenced, NoScanType DEF Init, ResultsGood
<1>6. OriginalsGood
  BY DEF Init, OriginalsGood, NoRequest, Holding
<1> QED BY <1>1, <1>3, <1>4, <1>5, <1>6 DEF StatusInv

LEMMA NextStatus == StatusInv /\ [Next]_vars => StatusInv'
<1> SUFFICES ASSUME StatusInv, [Next]_vars PROVE StatusInv'
  OBVIOUS
<1>0. LockInv'
  BY NextType, NextHolder DEF StatusInv, LockInv
<1>1. req \in [Req -> ReqRecord]
  BY DEF StatusInv, LockInv, TypeOK
<1>a. ASSUME UNCHANGED vars PROVE StatusInv'
  <2>1. UNCHANGED <<state, req, liveList, passed, scan, cut>>
    BY <1>a DEF vars, listVars, checkVars, history
  <2>2. Explained' = Explained /\ ResultsGood'
    BY <2>1 DEF Explained, StatusInv, ResultsGood
  <2> QED BY <1>0, <2>1, <2>2, StateFrame DEF StatusInv
<1>2. ASSUME NEW s \in Scan, ScanStep(s) PROVE StatusInv'
  BY <1>0, <1>2, ScanStepKeepsStatus
<1>3. ASSUME NEW r \in Req, PostCheck(r) PROVE StatusInv'
  BY <1>0, <1>3, BookkeepingKeeps DEF PostCheck, listVars, history
<1>4. ASSUME NEW r \in Req, BeginMutation(r) PROVE StatusInv'
  <2>1. PICK op \in Mutations : req' = [req EXCEPT ![r].pc = "stopped", ![r].op = op]
    BY <1>4 DEF BeginMutation
  <2>2. \A x \in Req : req'[x].pc \in Holding => req'[x] = req[x]
    BY <1>1, <2>1 DEF ReqRecord, Holding
  <2> QED BY <1>0, <1>4, <2>2, BookkeepingKeeps DEF BeginMutation, listVars, history
<1>5. ASSUME NEW r \in Req, ReqStep(r) PROVE StatusInv'
  <2>1. CASE Reply(r)
    <3>1. \A x \in Req : req'[x].pc \in Holding => req'[x] = req[x]
      BY <1>1, <2>1 DEF Reply, NoRequest, Holding
    <3>2. CASE StartCheck
      BY <1>0, <2>1, <3>1, <3>2, BookkeepingKeeps DEF Reply, listVars, history
    <3>3. CASE UNCHANGED checkVars
      <4>1. UNCHANGED <<scan, cut, passed, state, liveList>>
        BY <2>1, <3>3 DEF Reply, checkVars, listVars, history
      <4>2. \A x \in Req : req'[x].pc \in Holding => Good(req'[x].orig, passed, Explained)
        BY <3>1 DEF StatusInv, OriginalsGood
      <4> QED BY <1>0, <4>1, <4>2, RequestFrame DEF StatusInv
    <3> QED BY <2>1, <3>2, <3>3 DEF Reply
  <2>2. CASE ~Reply(r)
    BY <1>0, <1>5, <2>2, ReqStepKeepsStatus
  <2> QED BY <2>1, <2>2
<1>6. CASE StartupCheck
  <2>1. UNCHANGED <<state, req, liveList, passed, cut>>
    BY <1>6 DEF StartupCheck, listVars, history
  <2>2. CASE StartCheck
    BY <1>0, <2>1, <2>2, BookkeepingKeeps
  <2>3. CASE UNCHANGED checkVars
    <3>1. Explained' = Explained /\ ResultsGood'
      BY <2>1, <2>3 DEF Explained, StatusInv, ResultsGood, checkVars
    <3> QED BY <1>0, <2>1, <3>1, StateFrame DEF StatusInv
  <2> QED BY <1>6, <2>2, <2>3 DEF StartupCheck
<1>7. CASE Restart
  BY <1>0, <1>7, RestartKeeps
<1>8. CASE Rest
  BY <1>8, <1>a DEF Rest
<1> QED BY <1>a, <1>2, <1>3, <1>4, <1>5, <1>6, <1>7, <1>8 DEF Next

LEMMA StatusInvariant == Spec => []StatusInv
BY InitStatus, NextStatus, PTL DEF Spec

-----------------------------------------------------------------------------
\* However scans race with disables, enables, deletes and rollbacks, a proxy is
\* saved as disabled exactly when its status says so: the results of CheckAll
\* are merged into the latest state by mode, and a rollback restores a state of
\* which this was true.
THEOREM StatusAgrees == Spec => []StatusAgreesWithMode
<1>1. StatusInv => StatusAgreesWithMode
  BY DEF StatusInv, Good, StatusAgreesWithMode
<1> QED BY <1>1, StatusInvariant, PTL

\* A proxy is shown live, or listed as live, only after a check of it succeeded,
\* even when the list is written from a rolled-back state or by a scan that has
\* been replaced.
THEOREM LiveEvidence == Spec => []LiveIsEvidenced
<1>1. StatusInv => LiveIsEvidenced
  BY DEF StatusInv, Good, LiveIsEvidenced
<1> QED BY <1>1, StatusInvariant, PTL

\* A proxy saved as "checking" has a scan that is still going to report on it, or
\* was left behind by a scan that was cut short; a request that holds mu keeps
\* the scans from writing, so that a rollback brings back no unexplained mark.
THEOREM CheckingIsExplained == Spec => []CheckingExplained
<1>1. StatusInv => CheckingExplained
  BY DEF StatusInv, Good, Explained, Busy, CheckingExplained
<1> QED BY <1>1, StatusInvariant, PTL
=============================================================================

-------------------------- MODULE HealthScanProofs --------------------------
(***************************************************************************)
(* Proofs about HealthScan, for any number of handlers, ports, scans,      *)
(* requests, restarts and faults: the type invariant, and that the scan    *)
(* bookkeeping is never confused about which scan is current.              *)
(***************************************************************************)
EXTENDS HealthScan, TLAPS

(***************************************************************************)
(* Lemmas about the operators the actions are built from.                  *)
(***************************************************************************)
\* Changing the mode and status of some proxies keeps a saved state well-formed.
LEMMA WithProxiesType ==
  ASSUME NEW st \in State, NEW S, NEW m \in Mode, NEW t \in Status
  PROVE  WithProxies(st, S, m, t) \in State
BY DEF WithProxies, State

\* The state bootstrap leaves behind is well-formed.
LEMMA InitStateType == InitState \in State
<1>1. Blank \in State
  BY BoundsAssumption DEF Blank, State, Mode, Status, Port
<1> QED BY <1>1, WithProxiesType DEF InitState, Mode, Status

\* Allocate keeps NextPort within one of the last port.
LEMMA CreateType ==
  ASSUME NEW st \in State, NEW c \in CreateCandidates(st)
  PROVE  c \in State
<1>1. PICK n \in 1..MaxBatch :
        /\ st.next + n - 1 <= MaxPort
        /\ c = [WithProxies(st, st.next..(st.next + n - 1), "enabled", "pending")
                  EXCEPT !.next = st.next + n]
  BY DEF CreateCandidates
<1>2. WithProxies(st, st.next..(st.next + n - 1), "enabled", "pending") \in State
  BY WithProxiesType DEF Mode, Status
<1>3. st.next + n \in 1..(MaxPort + 1)
  BY <1>1, BoundsAssumption DEF State
<1> QED BY <1>1, <1>2, <1>3 DEF State

\* Whatever a request computes from a saved state is a well-formed state.
LEMMA CandidateType ==
  ASSUME NEW st \in State, NEW op \in Mutations, NEW c \in Candidates(op, st)
  PROVE  c \in State
<1>1. CASE op = "create"
  BY <1>1, CreateType DEF Candidates
<1>2. CASE op = "enable"
  <2>1. PICK S \in Matches(st) : c = WithProxies(st, S, "enabled", "pending")
    BY <1>2 DEF Candidates
  <2> QED BY <2>1, WithProxiesType DEF Mode, Status
<1>3. CASE op = "disable"
  <2>1. PICK S \in Matches(st) : c = WithProxies(st, S, "disabled", "disabled")
    BY <1>3 DEF Candidates
  <2> QED BY <2>1, WithProxiesType DEF Mode, Status
<1>4. CASE op = "delete"
  <2>1. PICK S \in Matches(st) : c = WithProxies(st, S, "absent", "none")
    BY <1>4 DEF Candidates
  <2> QED BY <2>1, WithProxiesType DEF Mode, Status
<1>5. CASE op = "repair"
  BY <1>5 DEF Candidates
<1> QED BY <1>1, <1>2, <1>3, <1>4, <1>5 DEF Mutations

\* Writing results into a saved state keeps it well-formed.
LEMMA WithResultsType ==
  ASSUME NEW st \in State, NEW res \in [Port -> Result]
  PROVE  WithResults(st, res) \in State
<1> DEFINE f == [p \in Port |->
     CASE st.mode[p] = "disabled" -> "disabled"
       [] st.mode[p] = "enabled" /\ res[p] = "ok"  -> "live"
       [] st.mode[p] = "enabled" /\ res[p] = "err" -> "failed"
       [] OTHER -> st.status[p]]
<1>1. f \in [Port -> Status]
  BY DEF State, Status
<1>2. WithResults(st, res) = [st EXCEPT !.status = f]
  BY DEF WithResults
<1> HIDE DEF f
<1> QED BY <1>1, <1>2 DEF State

\* A round of checks reports one result per proxy.
LEMMA OutcomesType ==
  ASSUME NEW S, NEW res \in [Port -> Result], NEW out \in Outcomes(S, res)
  PROVE  out \in [Port -> Result]
BY DEF Outcomes, Result

LEMMA NoScanType == NoScan \in ScanRecord
BY DEF NoScan, ScanRecord, ScanPCs, Result, Port

LEMMA NoRequestType == NoRequest \in ReqRecord
BY InitStateType DEF NoRequest, ReqRecord, ReqPCs, Mutations

LEMMA AtEndType ==
  ASSUME NEW sc \in ScanRecord
  PROVE  /\ AtEnd(sc) \in ScanRecord
         /\ AtEnd(sc).pc = "finish" /\ AtEnd(sc).id = sc.id /\ AtEnd(sc).ctx = sc.ctx
BY NoScanType DEF AtEnd, NoScan, ScanRecord, ScanPCs

LEMMA ListsType ==
  ASSUME NEW st
  PROVE  FullOf(st) \in SUBSET Port /\ LiveOf(st) \in SUBSET Port
         /\ Enabled(st) \in SUBSET Port
BY DEF FullOf, LiveOf, Enabled

-----------------------------------------------------------------------------
(***************************************************************************)
(* Type correctness.                                                       *)
(***************************************************************************)
LEMMA InitType == Init => TypeOK
<1> SUFFICES ASSUME Init PROVE TypeOK
  OBVIOUS
<1>1. scan \in [Scan -> ScanRecord]
  BY NoScanType DEF Init
<1>2. req \in [Req -> ReqRecord]
  BY NoRequestType DEF Init
<1>3. state \in State /\ fullList \in SUBSET Port /\ liveList \in SUBSET Port
  BY InitStateType, ListsType DEF Init
<1>4. /\ mu \in Req \union {NoReq} /\ startup \in BOOLEAN
      /\ checkID \in Nat /\ cancel \in Scan \union {0} /\ checking \in BOOLEAN
      /\ ops \in Nat /\ faults \in Nat
      /\ passed \in SUBSET Port /\ cut \in SUBSET Port
  BY DEF Init
<1> QED BY <1>1, <1>2, <1>3, <1>4 DEF TypeOK

\* stopCheck and StartCheck keep the scan bookkeeping well-typed.
LEMMA CancelRegisteredType ==
  ASSUME TypeOK
  PROVE  CancelRegistered \in [Scan -> ScanRecord]
<1> SUFFICES ASSUME NEW s \in Scan
             PROVE  [scan[s] EXCEPT !.ctx = "cancelled"] \in ScanRecord /\ scan[s] \in ScanRecord
  BY DEF CancelRegistered
<1> QED BY DEF TypeOK, ScanRecord

LEMMA FreshScanType ==
  ASSUME NEW n \in Nat
  PROVE  [NoScan EXCEPT !.pc = "mark", !.id = n] \in ScanRecord
BY NoScanType DEF NoScan, ScanRecord, ScanPCs

LEMMA StopCheckType ==
  ASSUME TypeOK, StopCheck
  PROVE  /\ checkID' \in Nat /\ cancel' \in Scan \union {0} /\ checking' \in BOOLEAN
         /\ scan' \in [Scan -> ScanRecord]
<1>1. checkID \in Nat
  BY DEF TypeOK
<1>2. scan' = CancelRegistered /\ cancel' = 0 /\ checkID' = checkID + 1 /\ checking' = FALSE
  BY DEF StopCheck
<1>3. scan' \in [Scan -> ScanRecord]
  BY <1>2, CancelRegisteredType, Zenon
<1>4. checkID' \in Nat /\ cancel' \in Scan \union {0}
  BY <1>1, <1>2
<1>5. checking' \in BOOLEAN
  BY <1>2, Zenon
<1> QED BY <1>3, <1>4, <1>5

LEMMA StartCheckType ==
  ASSUME TypeOK, StartCheck
  PROVE  /\ checkID' \in Nat /\ cancel' \in Scan \union {0} /\ checking' \in BOOLEAN
         /\ scan' \in [Scan -> ScanRecord]
<1> DEFINE new == CHOOSE s \in Free : TRUE
<1>1. new \in Scan
  BY DEF StartCheck, Free
<1>2. checkID + 1 \in Nat
  BY DEF TypeOK
<1>3. scan' = [CancelRegistered EXCEPT ![new] = [NoScan EXCEPT !.pc = "mark", !.id = checkID + 1]]
  BY DEF StartCheck
<1>4. cancel' = new /\ checkID' = checkID + 1 /\ checking' = TRUE
  BY DEF StartCheck
<1> HIDE DEF new
<1>5. [NoScan EXCEPT !.pc = "mark", !.id = checkID + 1] \in ScanRecord
  BY <1>2, FreshScanType
<1> QED BY <1>1, <1>2, <1>3, <1>4, <1>5, CancelRegisteredType

LEMMA FaultType ==
  ASSUME TypeOK, Fault
  PROVE  faults' \in Nat
BY DEF TypeOK, Fault

\* Every step of a scan keeps every variable's type.
LEMMA ScanStepType ==
  ASSUME TypeOK, NEW s \in Scan, ScanStep(s)
  PROVE  TypeOK'
<1> USE DEF TypeOK
<1>0. scan[s] \in ScanRecord
  OBVIOUS
<1>a. ASSUME NEW pc \in ScanPCs, GoTo(s, pc)
      PROVE  scan' \in [Scan -> ScanRecord]
  BY <1>0, <1>a DEF GoTo, ScanRecord
<1>b. ASSUME GoToEnd(s)
      PROVE  scan' \in [Scan -> ScanRecord]
  BY <1>0, <1>b, AtEndType DEF GoToEnd
<1>c. ASSUME CutShort(s)
      PROVE  scan' \in [Scan -> ScanRecord] /\ cut' \in SUBSET Port
  <2>1. scan[s].snap \in SUBSET Port
    BY <1>0 DEF ScanRecord
  <2> QED BY <1>b, <1>c, <2>1 DEF CutShort
<1>1. CASE MarkChecking(s)
  <2>1. CASE /\ state' = [state EXCEPT !.status =
                    [p \in Port |-> IF p \in Enabled(state) THEN "checking" ELSE @[p]]]
             /\ scan' = [scan EXCEPT ![s].pc = "probe", ![s].snap = Enabled(state)]
             /\ UNCHANGED <<faults, cut>>
    <3>1. [p \in Port |-> IF p \in Enabled(state) THEN "checking" ELSE state.status[p]]
            \in [Port -> Status]
      BY DEF State, Status
    <3>2. state' \in State
      BY <2>1, <3>1 DEF State
    <3>3. scan' \in [Scan -> ScanRecord]
      BY <2>1, <1>0, ListsType DEF ScanRecord, ScanPCs
    <3> QED BY <1>1, <2>1, <3>2, <3>3 DEF MarkChecking, listVars
  <2>2. CASE Fault /\ CutShort(s) /\ UNCHANGED state
    BY <1>1, <2>2, <1>c, FaultType DEF MarkChecking, listVars
  <2> QED BY <1>1, <2>1, <2>2 DEF MarkChecking
<1>2. CASE Probe(s)
  <2>1. CASE scan[s].ctx = "cancelled" /\ CutShort(s) /\ UNCHANGED passed
    BY <1>2, <2>1, <1>c DEF Probe, listVars, boundVars
  <2>2. ASSUME NEW res \in Outcomes(scan[s].snap, scan[s].res),
               scan' = [scan EXCEPT ![s].res = res,
                                    ![s].pc = IF Retries(res) THEN "retry" ELSE "apply"],
               passed' = passed \union Passed(res), UNCHANGED cut
        PROVE  TypeOK'
    <3>1. scan[s].res \in [Port -> Result]
      BY <1>0 DEF ScanRecord
    <3>2. res \in [Port -> Result]
      BY <3>1, OutcomesType
    <3>3. scan' \in [Scan -> ScanRecord]
      BY <1>0, <2>2, <3>2 DEF ScanRecord, ScanPCs
    <3>4. passed' \in SUBSET Port
      BY <2>2 DEF Passed
    <3> QED BY <1>2, <2>2, <3>3, <3>4 DEF Probe, listVars, boundVars
  <2> QED BY <1>2, <2>1, <2>2 DEF Probe
<1>3. CASE Retry(s)
  <2>1. PICK res \in Outcomes(Failed(scan[s].res), scan[s].res) :
          /\ scan' = [scan EXCEPT ![s].res = res, ![s].pc = "apply"]
          /\ passed' = passed \union Passed(res)
    BY <1>3 DEF Retry
  <2>2. scan[s].res \in [Port -> Result]
    BY <1>0 DEF ScanRecord
  <2>3. res \in [Port -> Result]
    BY <2>2, OutcomesType
  <2>4. scan' \in [Scan -> ScanRecord]
    BY <1>0, <2>1, <2>3 DEF ScanRecord, ScanPCs
  <2>5. passed' \in SUBSET Port
    BY <2>1 DEF Passed
  <2> QED BY <1>3, <2>4, <2>5 DEF Retry, listVars, boundVars
<1>4. CASE ApplyResults(s)
  <2>1. CASE SaveResults(s, WithResults(state, scan[s].res)) /\ UNCHANGED faults
    <3>1. scan[s].res \in [Port -> Result]
      BY <1>0 DEF ScanRecord
    <3>2. WithResults(state, scan[s].res) \in State
      BY <3>1, WithResultsType
    <3>3. scan' \in [Scan -> ScanRecord]
      <4>1. [AtEnd(scan[s]) EXCEPT !.pc = "full",
                                   !.full = FullOf(WithResults(state, scan[s].res)),
                                   !.live = LiveOf(WithResults(state, scan[s].res))]
              \in ScanRecord
        BY <1>0, AtEndType, ListsType DEF ScanRecord, ScanPCs
      <4> QED BY <2>1, <4>1 DEF SaveResults
    <3>4. cut' \in SUBSET Port
      BY <2>1 DEF SaveResults
    <3> QED BY <1>4, <2>1, <3>2, <3>3, <3>4 DEF ApplyResults, SaveResults, listVars
  <2>2. CASE Fault /\ CutShort(s) /\ UNCHANGED state
    BY <1>4, <2>2, <1>c, FaultType DEF ApplyResults, listVars
  <2> QED BY <1>4, <2>1, <2>2 DEF ApplyResults
<1>5. CASE ScanWritesFull(s)
  <2>1. scan[s].full \in SUBSET Port
    BY <1>0 DEF ScanRecord
  <2>2. CASE fullList' = scan[s].full /\ GoTo(s, "live") /\ UNCHANGED faults
    <3>1. scan' \in [Scan -> ScanRecord]
      BY <2>2, <1>a DEF ScanPCs
    <3> QED BY <1>5, <2>1, <2>2, <3>1 DEF ScanWritesFull, history
  <2>3. CASE Fault /\ GoToEnd(s) /\ UNCHANGED fullList
    BY <1>5, <2>3, <1>b, FaultType DEF ScanWritesFull, history
  <2> QED BY <1>5, <2>2, <2>3 DEF ScanWritesFull
<1>6. CASE ScanWritesLive(s)
  <2>1. scan[s].live \in SUBSET Port
    BY <1>0 DEF ScanRecord
  <2>2. faults' \in Nat /\ liveList' \in SUBSET Port
    BY <1>6, <2>1, FaultType DEF ScanWritesLive
  <2> QED BY <1>6, <2>2, <1>b DEF ScanWritesLive, history
<1>7. CASE Finish(s)
  BY <1>7, NoScanType DEF Finish, listVars, boundVars, history
<1> QED BY <1>1, <1>2, <1>3, <1>4, <1>5, <1>6, <1>7 DEF ScanStep

\* Every step of a request keeps every variable's type.
LEMMA ReqStepType ==
  ASSUME TypeOK, NEW r \in Req, ReqStep(r)
  PROVE  TypeOK'
<1> USE DEF TypeOK
<1>0. req[r] \in ReqRecord
  OBVIOUS
<1>a. ASSUME req' = [req EXCEPT ![r] = NoRequest]
      PROVE  req' \in [Req -> ReqRecord]
  BY <1>a, NoRequestType
<1>b. req[r].orig \in State /\ req[r].op \in Mutations
  BY <1>0 DEF ReqRecord
<1>c. ASSUME NEW pc \in ReqPCs, NEW st \in State, req' = [req EXCEPT ![r].pc = pc, ![r].orig = st]
      PROVE  req' \in [Req -> ReqRecord]
  BY <1>0, <1>c DEF ReqRecord
<1>d. ASSUME NEW pc \in ReqPCs, req' = [req EXCEPT ![r].pc = pc]
      PROVE  req' \in [Req -> ReqRecord]
  BY <1>0, <1>d DEF ReqRecord
<1>1. CASE BadList(r)
  BY <1>1, <1>a DEF BadList, listVars, checkVars, boundVars, history
<1>2. CASE Refuse(r)
  BY <1>2, <1>a DEF Refuse, listVars, checkVars, boundVars, history
<1>3. CASE SaveCandidate(r)
  <2>1. state' \in State
    BY <1>3, <1>b, CandidateType DEF SaveCandidate
  <2>2. req' \in [Req -> ReqRecord]
    BY <1>3, <1>c DEF SaveCandidate, ReqPCs
  <2> QED BY <1>3, <2>1, <2>2 DEF SaveCandidate, listVars, checkVars, boundVars, history
<1>4. CASE SaveFails(r)
  <2>1. req' \in [Req -> ReqRecord]
    BY <1>4, <1>c DEF SaveFails, ReqPCs
  <2> QED BY <1>4, <2>1, FaultType DEF SaveFails, listVars, checkVars, history
<1>5. CASE CommitFull(r)
  <2>1. req' \in [Req -> ReqRecord]
    BY <1>5, <1>d DEF CommitFull, ReqPCs
  <2> QED BY <1>5, <2>1, ListsType DEF CommitFull, checkVars, boundVars, history
<1>6. CASE CommitLive(r)
  <2>1. [NoRequest EXCEPT !.pc = "reply", !.op = req[r].op] \in ReqRecord
    BY <1>b, NoRequestType DEF NoRequest, ReqRecord, ReqPCs
  <2>2. req' \in [Req -> ReqRecord]
    BY <1>6, <2>1 DEF CommitLive
  <2> QED BY <1>6, <2>2, ListsType DEF CommitLive, checkVars, boundVars, history
<1>7. CASE Rollback(r)
  <2>1. req' \in [Req -> ReqRecord]
    BY <1>7, <1>d DEF Rollback, ReqPCs
  <2>2. state' \in State /\ faults' \in Nat
    BY <1>7, <1>b, FaultType DEF Rollback
  <2> QED BY <1>7, <2>1, <2>2 DEF Rollback, listVars, checkVars, history
<1>8. CASE RollbackFull(r)
  <2>1. req' \in [Req -> ReqRecord]
    BY <1>8, <1>a, <1>d DEF RollbackFull, ReqPCs
  <2>2. fullList' \in SUBSET Port /\ faults' \in Nat /\ mu' \in Req \union {NoReq}
    BY <1>8, ListsType, FaultType DEF RollbackFull
  <2> QED BY <1>8, <2>1, <2>2 DEF RollbackFull, checkVars, history
<1>9. CASE RollbackLive(r)
  <2>1. liveList' \in SUBSET Port /\ faults' \in Nat
    BY <1>9, ListsType, FaultType DEF RollbackLive
  <2> QED BY <1>9, <1>a, <2>1 DEF RollbackLive, checkVars, history
<1>10. CASE Reply(r)
  <2>1. /\ checkID' \in Nat /\ cancel' \in Scan \union {0} /\ checking' \in BOOLEAN
        /\ scan' \in [Scan -> ScanRecord]
    BY <1>10, StartCheckType DEF Reply, checkVars
  <2> QED BY <1>10, <1>a, <2>1 DEF Reply, listVars, boundVars, history
<1> QED BY <1>1, <1>2, <1>3, <1>4, <1>5, <1>6, <1>7, <1>8, <1>9, <1>10 DEF ReqStep

\* Every step of the program keeps every variable's type.
LEMMA NextType == TypeOK /\ [Next]_vars => TypeOK'
<1> SUFFICES ASSUME TypeOK, [Next]_vars PROVE TypeOK'
  OBVIOUS
<1> USE DEF TypeOK
<1>1. ASSUME NEW s \in Scan, ScanStep(s) PROVE TypeOK'
  BY <1>1, ScanStepType
<1>2. ASSUME NEW r \in Req, PostCheck(r) PROVE TypeOK'
  BY <1>2, StartCheckType DEF PostCheck, Accept, listVars, history
<1>3. ASSUME NEW r \in Req, BeginMutation(r) PROVE TypeOK'
  <2>1. req' \in [Req -> ReqRecord]
    <3>1. PICK m \in Mutations : req' = [req EXCEPT ![r].pc = "stopped", ![r].op = m]
      BY <1>3 DEF BeginMutation
    <3>2. [req[r] EXCEPT !.pc = "stopped", !.op = m] \in ReqRecord
      BY DEF ReqRecord, ReqPCs
    <3> QED BY <3>1, <3>2
  <2> QED BY <1>3, <2>1, StopCheckType DEF BeginMutation, Accept, listVars, history
<1>4. ASSUME NEW r \in Req, ReqStep(r) PROVE TypeOK'
  BY <1>4, ReqStepType
<1>5. CASE StartupCheck
  BY <1>5, StartCheckType DEF StartupCheck, listVars, checkVars, boundVars, history
<1>6. CASE Restart
  <2>1. \A s \in Scan : scan[s].snap \in SUBSET Port
    BY DEF ScanRecord
  <2>2. cut' \in SUBSET Port
    BY <1>6, <2>1 DEF Restart
  <2>3. scan' \in [Scan -> ScanRecord] /\ req' \in [Req -> ReqRecord]
    BY <1>6, NoScanType, NoRequestType DEF Restart
  <2>4. faults' \in Nat /\ checkID' \in Nat
    BY <1>6 DEF Restart, Fault
  <2> QED BY <1>6, <2>2, <2>3, <2>4 DEF Restart, listVars
<1>7. CASE Rest
  BY <1>7 DEF Rest, vars, listVars, checkVars, boundVars, history
<1>8. CASE UNCHANGED vars
  BY <1>8 DEF vars, listVars, checkVars, boundVars, history
<1> QED BY <1>1, <1>2, <1>3, <1>4, <1>5, <1>6, <1>7, <1>8 DEF Next

\* Every variable of the dashboard process keeps its type: in particular every
\* candidate, rolled-back and scanned state is well-formed and NextPort stays
\* within one of the last port.
THEOREM TypeCorrect == Spec => []TypeOK
BY InitType, NextType, PTL DEF Spec

-----------------------------------------------------------------------------
(***************************************************************************)
(* The scan bookkeeping.  ScanControl is not inductive: a scan that ends   *)
(* deregisters whatever is registered when the numbers agree, so the       *)
(* numbers of the running scans have to be related to checkID as well.     *)
(***************************************************************************)
IDsOrdered ==
  \A s \in Scan : Active(s) => scan[s].id <= checkID /\ (scan[s].id = checkID => s = cancel)

ScanInv == TypeOK /\ ScanControl /\ IDsOrdered

LEMMA InitScan == Init => ScanControl /\ IDsOrdered
BY DEF Init, ScanControl, IDsOrdered, Active, NoScan, Scan

\* A step of a running scan that stays running and keeps its number and its
\* context, while nothing else of the bookkeeping changes.
LEMMA AdvanceKeeps ==
  ASSUME ScanInv, NEW s \in Scan, Active(s), Active(s)',
         scan' = [scan EXCEPT ![s] = scan'[s]],
         scan'[s].id = scan[s].id, scan'[s].ctx = scan[s].ctx,
         UNCHANGED <<checkID, cancel, checking>>
  PROVE  ScanControl' /\ IDsOrdered'
<1>1. \A x \in Scan : /\ Active(x)' = Active(x)
                      /\ scan'[x].id = scan[x].id /\ scan'[x].ctx = scan[x].ctx
  BY DEF ScanInv, TypeOK, Active
<1> QED BY <1>1 DEF ScanInv, ScanControl, IDsOrdered, Active, TypeOK

LEMMA IdleKeeps ==
  ASSUME ScanInv, UNCHANGED checkVars
  PROVE  ScanControl' /\ IDsOrdered'
BY DEF ScanInv, ScanControl, IDsOrdered, Active, checkVars

LEMMA StopCheckKeeps ==
  ASSUME ScanInv, StopCheck
  PROVE  ScanControl' /\ IDsOrdered'
<1>1. \A s \in Scan : /\ scan'[s].pc = scan[s].pc /\ scan'[s].id = scan[s].id
                      /\ scan'[s].ctx = IF s = cancel THEN "cancelled" ELSE scan[s].ctx
  BY DEF ScanInv, TypeOK, ScanRecord, StopCheck, CancelRegistered
<1>2. checkID' = checkID + 1 /\ cancel' = 0 /\ checking' = FALSE
  BY DEF StopCheck
<1>3. \A s \in Scan : scan[s].id \in Nat
  BY DEF ScanInv, TypeOK, ScanRecord
<1>4. checkID \in Nat
  BY DEF ScanInv, TypeOK
<1> QED BY <1>1, <1>2, <1>3, <1>4 DEF ScanInv, ScanControl, IDsOrdered, Active

LEMMA StartCheckKeeps ==
  ASSUME ScanInv, StartCheck
  PROVE  ScanControl' /\ IDsOrdered'
<1> DEFINE new == CHOOSE s \in Free : TRUE
<1>1. new \in Scan
  BY DEF StartCheck, Free
<1>2. 0 \notin Scan
  BY BoundsAssumption DEF Scan
<1>3. cancel' = new /\ checkID' = checkID + 1 /\ checking' = TRUE
  BY DEF StartCheck
<1>4. scan' = [CancelRegistered EXCEPT ![new] = [NoScan EXCEPT !.pc = "mark", !.id = checkID + 1]]
  BY DEF StartCheck
<1> HIDE DEF new
<1>5. /\ scan'[new].pc = "mark" /\ scan'[new].id = checkID + 1
      /\ scan'[new].ctx = "open"
  BY <1>1, <1>4, CancelRegisteredType DEF ScanInv, NoScan
<1>6. \A s \in Scan \ {new} :
        /\ scan'[s].pc = scan[s].pc /\ scan'[s].id = scan[s].id
        /\ scan'[s].ctx = IF s = cancel THEN "cancelled" ELSE scan[s].ctx
  BY <1>1, <1>4 DEF ScanInv, TypeOK, ScanRecord, CancelRegistered
<1>7. checkID \in Nat /\ \A s \in Scan : scan[s].id \in Nat
  BY DEF ScanInv, TypeOK, ScanRecord
<1> QED BY <1>1, <1>2, <1>3, <1>5, <1>6, <1>7 DEF ScanInv, ScanControl, IDsOrdered, Active

LEMMA FinishKeeps ==
  ASSUME ScanInv, NEW s \in Scan, Finish(s)
  PROVE  ScanControl' /\ IDsOrdered'
<1>1. Active(s)
  BY DEF Finish, Active
<1>2. ~Active(s)' /\ \A x \in Scan \ {s} : scan'[x] = scan[x]
  BY DEF ScanInv, TypeOK, Finish, Active, NoScan
<1>3. CASE checkID = scan[s].id
  <2>1. s = cancel
    BY <1>1, <1>3 DEF ScanInv, IDsOrdered
  <2>2. cancel' = 0 /\ checking' = FALSE /\ checkID' = checkID
    BY <1>3 DEF Finish
  <2>3. \A x \in Scan : Active(x)' => x # cancel /\ Active(x) /\ scan'[x] = scan[x]
    BY <1>2, <2>1 DEF Active
  <2>4. 0 \notin Scan
    BY BoundsAssumption DEF Scan
  <2> QED BY <2>2, <2>3, <2>4 DEF ScanInv, ScanControl, IDsOrdered
<1>4. CASE checkID # scan[s].id
  <2>1. cancel' = cancel /\ checking' = checking /\ checkID' = checkID
    BY <1>4 DEF Finish
  <2>2. s # cancel
    BY <1>4 DEF ScanInv, ScanControl, Scan
  <2>3. cancel # 0 => cancel \in Scan \ {s}
    BY <2>2 DEF ScanInv, TypeOK
  <2> QED BY <1>2, <2>1, <2>2, <2>3 DEF ScanInv, ScanControl, IDsOrdered, Active
<1> QED BY <1>3, <1>4

LEMMA ScanStepKeeps ==
  ASSUME ScanInv, NEW s \in Scan, ScanStep(s)
  PROVE  ScanControl' /\ IDsOrdered'
<1>0. scan[s] \in ScanRecord /\ scan \in [Scan -> ScanRecord]
  BY DEF ScanInv, TypeOK
<1>1. CASE Finish(s)
  BY <1>1, FinishKeeps
<1>2. CASE ~Finish(s)
  <2>1. /\ Active(s) /\ Active(s)'
        /\ scan' = [scan EXCEPT ![s] = scan'[s]]
        /\ scan'[s].id = scan[s].id /\ scan'[s].ctx = scan[s].ctx
        /\ UNCHANGED <<checkID, cancel, checking>>
    <3>a. ASSUME GoToEnd(s) \/ CutShort(s)
          PROVE  /\ scan' = [scan EXCEPT ![s] = scan'[s]] /\ scan'[s].pc = "finish"
                 /\ scan'[s].id = scan[s].id /\ scan'[s].ctx = scan[s].ctx
      BY <1>0, <3>a, AtEndType DEF GoToEnd, CutShort
    <3>1. CASE MarkChecking(s)
      BY <1>0, <3>1, <3>a DEF MarkChecking, Active, ScanRecord
    <3>2. CASE Probe(s)
      <4>1. CASE CutShort(s)
        BY <1>0, <3>2, <3>a, <4>1 DEF Probe, Active
      <4>2. ASSUME NEW res,
                   scan' = [scan EXCEPT ![s].res = res,
                                        ![s].pc = IF Retries(res) THEN "retry" ELSE "apply"]
            PROVE  /\ scan' = [scan EXCEPT ![s] = scan'[s]] /\ scan'[s].pc # "idle"
                   /\ scan'[s].id = scan[s].id /\ scan'[s].ctx = scan[s].ctx
        BY <1>0, <4>2 DEF ScanRecord
      <4> QED BY <3>2, <4>1, <4>2 DEF Probe, Active
    <3>3. CASE Retry(s)
      BY <1>0, <3>3, <3>a DEF Retry, Active, ScanRecord
    <3>4. CASE ApplyResults(s)
      <4>1. CASE SaveResults(s, WithResults(state, scan[s].res))
        <5> DEFINE end == [AtEnd(scan[s]) EXCEPT !.pc = "full",
                               !.full = FullOf(WithResults(state, scan[s].res)),
                               !.live = LiveOf(WithResults(state, scan[s].res))]
        <5>1. scan' = [scan EXCEPT ![s] = end]
          BY <4>1 DEF SaveResults
        <5>2. end.pc = "full" /\ end.id = scan[s].id /\ end.ctx = scan[s].ctx
          BY <1>0, AtEndType DEF ScanRecord
        <5> HIDE DEF end
        <5> QED BY <1>0, <3>4, <5>1, <5>2 DEF ApplyResults, Active
      <4>2. CASE CutShort(s)
        BY <1>0, <3>4, <3>a, <4>2 DEF ApplyResults, Active
      <4> QED BY <3>4, <4>1, <4>2 DEF ApplyResults
    <3>5. CASE ScanWritesFull(s)
      BY <1>0, <3>5, <3>a DEF ScanWritesFull, GoTo, Active, ScanRecord
    <3>6. CASE ScanWritesLive(s)
      BY <1>0, <3>6, <3>a DEF ScanWritesLive, Active, ScanRecord
    <3> QED BY <1>2, <3>1, <3>2, <3>3, <3>4, <3>5, <3>6 DEF ScanStep
  <2> QED BY <2>1, AdvanceKeeps
<1> QED BY <1>1, <1>2

LEMMA NextScan == ScanInv /\ [Next]_vars => ScanControl' /\ IDsOrdered'
<1> SUFFICES ASSUME ScanInv, [Next]_vars PROVE ScanControl' /\ IDsOrdered'
  OBVIOUS
<1>1. ASSUME NEW s \in Scan, ScanStep(s) PROVE ScanControl' /\ IDsOrdered'
  BY <1>1, ScanStepKeeps
<1>2. ASSUME NEW r \in Req, PostCheck(r) PROVE ScanControl' /\ IDsOrdered'
  BY <1>2, StartCheckKeeps DEF PostCheck
<1>3. ASSUME NEW r \in Req, BeginMutation(r) PROVE ScanControl' /\ IDsOrdered'
  BY <1>3, StopCheckKeeps DEF BeginMutation
<1>4. ASSUME NEW r \in Req, ReqStep(r) PROVE ScanControl' /\ IDsOrdered'
  <2>1. CASE Reply(r)
    BY <2>1, StartCheckKeeps, IdleKeeps DEF Reply
  <2>2. CASE ~Reply(r)
    <3>1. UNCHANGED checkVars
      BY <1>4, <2>2 DEF ReqStep, BadList, Refuse, SaveCandidate, SaveFails, CommitFull,
                        CommitLive, Rollback, RollbackFull, RollbackLive
    <3> QED BY <3>1, IdleKeeps
  <2> QED BY <2>1, <2>2
<1>5. CASE StartupCheck
  BY <1>5, StartCheckKeeps, IdleKeeps DEF StartupCheck
<1>6. CASE Restart
  BY <1>6 DEF Restart, ScanControl, IDsOrdered, Active, NoScan
<1>7. CASE Rest
  BY <1>7, IdleKeeps DEF Rest, vars
<1>8. CASE UNCHANGED vars
  BY <1>8, IdleKeeps DEF vars
<1> QED BY <1>1, <1>2, <1>3, <1>4, <1>5, <1>6, <1>7, <1>8 DEF Next

\* However requests, scans, failures and restarts interleave, the dashboard
\* reports a scan exactly while one is registered, and every running scan that
\* is not the registered one has been cancelled.
THEOREM ScanControlled == Spec => []ScanControl
<1>1. Init => ScanInv
  BY InitType, InitScan DEF ScanInv
<1>2. ScanInv /\ [Next]_vars => ScanInv'
  BY NextType, NextScan DEF ScanInv
<1>3. ScanInv => ScanControl
  BY DEF ScanInv
<1> QED BY <1>1, <1>2, <1>3, PTL DEF Spec

-----------------------------------------------------------------------------
(***************************************************************************)
(* Mutual exclusion of the requests, and what it protects.                 *)
(***************************************************************************)
Holding == {"saved", "full", "rollback", "rolledFull"}

\* Service.mu is held exactly by the request inside its critical section.
HolderInv == \A r \in Req : req[r].pc \in Holding <=> mu = r

LockInv == TypeOK /\ HolderInv

LEMMA InitHolder == Init => HolderInv
BY BoundsAssumption DEF Init, HolderInv, Holding, NoRequest

\* The record of one handler changes; the others keep theirs.
LEMMA ReqStepHolder ==
  ASSUME LockInv, NEW r \in Req, ReqStep(r)
  PROVE  HolderInv'
<1> USE BoundsAssumption DEF LockInv, HolderInv, Holding
<1>0. req[r] \in ReqRecord /\ req \in [Req -> ReqRecord]
  BY DEF TypeOK
<1>1. CASE BadList(r)
  BY <1>0, <1>1 DEF BadList, NoRequest
<1>2. CASE Refuse(r)
  BY <1>0, <1>2 DEF Refuse, NoRequest
<1>3. CASE SaveCandidate(r)
  BY <1>0, <1>3 DEF SaveCandidate, ReqRecord
<1>4. CASE SaveFails(r)
  BY <1>0, <1>4 DEF SaveFails, ReqRecord
<1>5. CASE CommitFull(r)
  BY <1>0, <1>5 DEF CommitFull, ReqRecord
<1>6. CASE CommitLive(r)
  BY <1>0, <1>6 DEF CommitLive, NoRequest
<1>7. CASE Rollback(r)
  BY <1>0, <1>7 DEF Rollback, ReqRecord
<1>8. CASE RollbackFull(r)
  BY <1>0, <1>8 DEF RollbackFull, ReqRecord, NoRequest
<1>9. CASE RollbackLive(r)
  BY <1>0, <1>9 DEF RollbackLive, NoRequest
<1>10. CASE Reply(r)
  BY <1>0, <1>10 DEF Reply, NoRequest
<1> QED BY <1>1, <1>2, <1>3, <1>4, <1>5, <1>6, <1>7, <1>8, <1>9, <1>10 DEF ReqStep

LEMMA ScanStepKeepsRequests ==
  ASSUME NEW s \in Scan, ScanStep(s)
  PROVE  UNCHANGED <<mu, req>>
BY DEF ScanStep, MarkChecking, Probe, Retry, ApplyResults, ScanWritesFull, ScanWritesLive,
       Finish

LEMMA NextHolder == LockInv /\ [Next]_vars => HolderInv'
<1> SUFFICES ASSUME LockInv, [Next]_vars PROVE HolderInv'
  OBVIOUS
<1>0. req \in [Req -> ReqRecord]
  BY DEF LockInv, TypeOK
<1>a. ASSUME UNCHANGED <<mu, req>> PROVE HolderInv'
  BY <1>a DEF LockInv, HolderInv
<1>1. ASSUME NEW s \in Scan, ScanStep(s) PROVE HolderInv'
  BY <1>1, <1>a, ScanStepKeepsRequests
<1>2. ASSUME NEW r \in Req, PostCheck(r) PROVE HolderInv'
  BY <1>2, <1>a DEF PostCheck
<1>3. ASSUME NEW r \in Req, BeginMutation(r) PROVE HolderInv'
  BY <1>0, <1>3 DEF BeginMutation, Accept, LockInv, HolderInv, Holding, ReqRecord
<1>4. ASSUME NEW r \in Req, ReqStep(r) PROVE HolderInv'
  BY <1>4, ReqStepHolder
<1>5. CASE StartupCheck
  BY <1>5, <1>a DEF StartupCheck
<1>6. CASE Restart
  BY <1>6, BoundsAssumption DEF Restart, HolderInv, Holding, NoRequest
<1>7. CASE Rest
  BY <1>7, <1>a DEF Rest, vars
<1>8. CASE UNCHANGED vars
  BY <1>8, <1>a DEF vars
<1> QED BY <1>1, <1>2, <1>3, <1>4, <1>5, <1>6, <1>7, <1>8 DEF Next

LEMMA LockInvariant == Spec => []LockInv
<1>1. Init => LockInv
  BY InitType, InitHolder DEF LockInv
<1>2. LockInv /\ [Next]_vars => LockInv'
  BY NextType, NextHolder DEF LockInv
<1> QED BY <1>1, <1>2, PTL DEF Spec

\* A step that changes the saved state: a scan that marks or writes results
\* while mu is free, or a request that saves its candidate or rolls back.
LEMMA WhoWritesState ==
  ASSUME LockInv, [Next]_vars, state' # state
  PROVE  \/ mu = NoReq /\ state'.mode = state.mode /\ state'.next = state.next
         \/ mu = NoReq /\ mu' # NoReq
         \/ mu # NoReq /\ mu' = mu /\ state' = req[mu].orig
<1> USE BoundsAssumption
<1>0. state \in State /\ scan \in [Scan -> ScanRecord]
  BY DEF LockInv, TypeOK
<1>1. ASSUME NEW s \in Scan, ScanStep(s)
      PROVE  mu = NoReq /\ state'.mode = state.mode /\ state'.next = state.next
  <2>1. CASE MarkChecking(s)
    BY <1>0, <2>1 DEF MarkChecking, State
  <2>2. CASE ApplyResults(s)
    <3>1. scan[s].res \in [Port -> Result]
      BY <1>0 DEF ScanRecord
    <3>2. /\ WithResults(state, scan[s].res).mode = state.mode
          /\ WithResults(state, scan[s].res).next = state.next
      BY <1>0 DEF WithResults, State
    <3> QED BY <2>2, <3>2 DEF ApplyResults, SaveResults
  <2> QED BY <1>1, <2>1, <2>2 DEF ScanStep, Probe, Retry, ScanWritesFull, ScanWritesLive, Finish
<1>2. ASSUME NEW r \in Req, ReqStep(r)
      PROVE  \/ mu = NoReq /\ mu' # NoReq
             \/ mu # NoReq /\ mu' = mu /\ state' = req[mu].orig
  <2>1. CASE SaveCandidate(r)
    BY <2>1 DEF SaveCandidate
  <2>2. CASE Rollback(r)
    <3>1. mu = r
      BY <2>2 DEF Rollback, LockInv, HolderInv, Holding
    <3> QED BY <2>2, <3>1 DEF Rollback
  <2> QED BY <1>2, <2>1, <2>2 DEF ReqStep, BadList, Refuse, SaveFails, CommitFull, CommitLive,
                                RollbackFull, RollbackLive, Reply
<1> QED BY <1>1, <1>2 DEF Next, PostCheck, BeginMutation, StartupCheck, Restart, Rest, vars

\* Outside the critical section of a request no step adds, removes, enables or
\* disables a proxy: the results of a scan are merged into the latest state.
THEOREM ScansKeepConfiguration == Spec => OnlyRequestsReconfigure
<1>1. LockInv /\ [Next]_vars
        => [mu = NoReq /\ mu' = NoReq => state'.mode = state.mode /\ state'.next = state.next]_vars
  BY WhoWritesState
<1> QED BY <1>1, LockInvariant, PTL DEF Spec, OnlyRequestsReconfigure

\* While a request holds mu nobody but its own rollback changes what it saved.
THEOREM CandidatesAreIsolated == Spec => CandidateIsolated
<1>1. LockInv /\ [Next]_vars
        => [\A r \in Req : mu = r /\ mu' = r /\ state' # state => state' = req[r].orig]_vars
  BY WhoWritesState, BoundsAssumption
<1> QED BY <1>1, LockInvariant, PTL DEF Spec, CandidateIsolated
=============================================================================

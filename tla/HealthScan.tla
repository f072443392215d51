----------------------------- MODULE HealthScan -----------------------------
(***************************************************************************)
(* The dashboard process (proxy-manager serve): HTTP requests that change  *)
(* the proxies, and the background health scans that run beside them.      *)
(*                                                                         *)
(* Two locks protect the service.  Service.mu serialises everything that   *)
(* rewrites the saved state; Service.checkMu guards the scan bookkeeping   *)
(* (checkID, cancel, checking).  A critical section of checkMu is short    *)
(* and is one action here.  Service.mu is held by a request across the     *)
(* whole of applyCandidate, so its holder is a variable.  A scan takes mu  *)
(* twice, once to mark the proxies "checking" and once to write what it    *)
(* found; it probes the proxies, and writes the text lists, without it.    *)
(*                                                                         *)
(* A port identifies a proxy: NextPort only grows, so a port is handed out *)
(* again only when the create that used it was rolled back under mu.       *)
(***************************************************************************)
EXTENDS Naturals, FiniteSets

CONSTANTS
  Req,          \* HTTP request handlers that may run at the same time
  MaxPort,      \* bound: the ports are 1..MaxPort
  InitPorts,    \* proxies 1..InitPorts exist when the dashboard first starts
  MaxBatch,     \* bound: proxies created by one request
  RetryLimit,   \* the failure tail that is retried (1000 in the code)
  MaxOps,       \* bound: POST requests served
  MaxScans,     \* bound: scans running at the same time; one per request at most
  MaxFaults,    \* bound: failed saves and list writes, and restarts of the process
  NoReq         \* the value of mu when the mutex is free

ASSUME BoundsAssumption ==
  /\ MaxPort \in Nat /\ InitPorts \in Nat /\ MaxBatch \in Nat /\ RetryLimit \in Nat
  /\ MaxOps \in Nat /\ MaxFaults \in Nat
  /\ InitPorts <= MaxPort
  /\ MaxScans \in Nat /\ MaxScans >= MaxOps + 1
  /\ NoReq \notin Req

VARIABLES
  state,      \* state.json: mode and status of every port, and NextPort
  fullList,   \* ports in /root/proxies.txt
  liveList,   \* ports in /root/proxies-live.txt
  mu,         \* the request that holds Service.mu, or NoReq
  checkID,    \* Service.checkID
  cancel,     \* Service.cancel: the scan whose context it cancels, 0 is nil
  checking,   \* Service.checking
  scan,       \* the scan goroutines
  req,        \* the request handlers
  startup,    \* the goroutine of serve that launches the first scan is pending
  ops,        \* POST requests served so far
  faults,     \* write failures and restarts so far
  passed,     \* history: ports for which some check has succeeded
  cut         \* history: ports marked "checking" by a scan that wrote no result

checkVars == <<checkID, cancel, checking, scan>>
listVars  == <<fullList, liveList>>
boundVars == <<ops, faults>>
history   == <<passed, cut>>
vars == <<state, listVars, mu, checkVars, req, startup, boundVars, history>>

Port   == 1..MaxPort
Scan   == 1..MaxScans
Mode   == {"absent", "enabled", "disabled"}
Status == {"none", "pending", "checking", "live", "failed", "disabled"}
Result == {"none", "ok", "err"}
State  == [mode : [Port -> Mode], status : [Port -> Status], next : 1..(MaxPort + 1)]

Mutations == {"create", "enable", "disable", "delete", "repair"}
ReqPCs    == {"idle", "stopped", "saved", "full", "rollback", "rolledFull", "reply"}
ScanPCs   == {"idle", "mark", "probe", "retry", "apply", "full", "live", "finish"}

(***************************************************************************)
(* Reading the state: the two text lists FormatList renders.               *)
(***************************************************************************)
FullOf(st) == {p \in Port : st.mode[p] # "absent"}
LiveOf(st) == {p \in Port : st.mode[p] = "enabled" /\ st.status[p] = "live"}
Enabled(st) == {p \in Port : st.mode[p] = "enabled"}

\* The state in which the proxies of S have mode m and status t.
WithProxies(st, S, m, t) ==
  [st EXCEPT !.mode   = [p \in Port |-> IF p \in S THEN m ELSE @[p]],
             !.status = [p \in Port |-> IF p \in S THEN t ELSE @[p]]]

(***************************************************************************)
(* The candidate states a request may compute from the state it loaded.    *)
(***************************************************************************)
\* Mutant of CreateCandidates: the end of the port range is not checked.
CreateUnbounded(st) ==
  {[WithProxies(st, st.next..(st.next + n - 1), "enabled", "pending")
      EXCEPT !.next = st.next + n] : n \in 1..MaxBatch}

\* Allocate: n new proxies on the next ports, enabled and "pending".
CreateCandidates(st) ==
  {[WithProxies(st, st.next..(st.next + n - 1), "enabled", "pending")
      EXCEPT !.next = st.next + n]
   : n \in {k \in 1..MaxBatch : st.next + k - 1 <= MaxPort}}

\* ApplyListAction: the matched proxies are a non-empty set of saved ones.
Matches(st) == (SUBSET FullOf(st)) \ {{}}

Candidates(op, st) ==
  CASE op = "create"  -> CreateCandidates(st)
    [] op = "enable"  -> {WithProxies(st, S, "enabled", "pending") : S \in Matches(st)}
    [] op = "disable" -> {WithProxies(st, S, "disabled", "disabled") : S \in Matches(st)}
    [] op = "delete"  -> {WithProxies(st, S, "absent", "none") : S \in Matches(st)}
    [] op = "repair"  -> {st}

(***************************************************************************)
(* Initial state: bootstrap has saved the imported proxies and written the *)
(* lists, and serve has just started.                                      *)
(***************************************************************************)
Blank == [mode   |-> [p \in Port |-> "absent"],
          status |-> [p \in Port |-> "none"],
          next   |-> InitPorts + 1]

InitState == WithProxies(Blank, 1..InitPorts, "enabled", "pending")

NoScan == [pc |-> "idle", id |-> 0, ctx |-> "open", snap |-> {},
           res |-> [p \in Port |-> "none"], full |-> {}, live |-> {}]

NoRequest == [pc |-> "idle", op |-> "repair", orig |-> InitState]

Init ==
  /\ state = InitState
  /\ fullList = FullOf(InitState) /\ liveList = LiveOf(InitState)
  /\ mu = NoReq
  /\ checkID = 0 /\ cancel = 0 /\ checking = FALSE
  /\ scan = [s \in Scan |-> NoScan]
  /\ req = [r \in Req |-> NoRequest]
  /\ startup = TRUE
  /\ ops = 0 /\ faults = 0
  /\ passed = {} /\ cut = {}

\* One more injected fault.
Fault == faults < MaxFaults /\ faults' = faults + 1

(***************************************************************************)
(* Scan bookkeeping, each a critical section of checkMu.                   *)
(***************************************************************************)
\* Every scan with the registered one, if any, cancelled.
CancelRegistered ==
  [s \in Scan |-> IF s = cancel THEN [scan[s] EXCEPT !.ctx = "cancelled"] ELSE scan[s]]

\* A goroutine that is not in use.
Free == {s \in Scan : scan[s].pc = "idle"}

\* Mutant of StartCheck: the scan that is already running is not cancelled.
StartCheckKeepsOld ==
  /\ Free # {}
  /\ LET new == CHOOSE s \in Free : TRUE IN
     /\ scan' = [scan EXCEPT ![new] = [NoScan EXCEPT !.pc = "mark", !.id = checkID + 1]]
     /\ cancel' = new
  /\ checkID' = checkID + 1
  /\ checking' = TRUE

\* StartCheck: cancel the running scan, register and launch a new one.
StartCheck ==
  /\ Free # {}
  /\ LET new == CHOOSE s \in Free : TRUE IN
     /\ scan' = [CancelRegistered EXCEPT ![new] = [NoScan EXCEPT !.pc = "mark",
                                                                 !.id = checkID + 1]]
     /\ cancel' = new
  /\ checkID' = checkID + 1
  /\ checking' = TRUE

\* stopCheck: cancel the running scan and forget it.
StopCheck ==
  /\ scan' = CancelRegistered
  /\ cancel' = 0
  /\ checkID' = checkID + 1
  /\ checking' = FALSE

(***************************************************************************)
(* A scan: CheckAll, and the end of the goroutine StartCheck launched.     *)
(* What a goroutine no longer reads is forgotten.                          *)
(***************************************************************************)
GoTo(s, pc) == scan' = [scan EXCEPT ![s].pc = pc]

AtEnd(sc) == [NoScan EXCEPT !.pc = "finish", !.id = sc.id, !.ctx = sc.ctx]
GoToEnd(s) == scan' = [scan EXCEPT ![s] = AtEnd(@)]

\* The scan ends without having written its results.
CutShort(s) == GoToEnd(s) /\ cut' = cut \union scan[s].snap

\* Under mu, mark every enabled proxy "checking" and take the snapshot to probe.
MarkChecking(s) ==
  /\ scan[s].pc = "mark" /\ mu = NoReq
  /\ \/ /\ state' = [state EXCEPT !.status =
                      [p \in Port |-> IF p \in Enabled(state) THEN "checking" ELSE @[p]]]
        /\ scan' = [scan EXCEPT ![s].pc = "probe", ![s].snap = Enabled(state)]
        /\ UNCHANGED <<faults, cut>>
     \/ Fault /\ CutShort(s) /\ UNCHANGED state
  /\ UNCHANGED <<listVars, mu, checkID, cancel, checking, req, startup, ops, passed>>

Failed(res) == {p \in Port : res[p] = "err"}
Passed(res) == {p \in Port : res[p] = "ok"}

\* Whether a set of failures is the small tail that CheckAll probes again.
Retries(res) == Failed(res) # {} /\ Cardinality(Failed(res)) <= RetryLimit

\* What a round of checks of the proxies in S can report: every check of S
\* succeeds or fails, and the other entries keep the result they had.
Outcomes(S, res) ==
  {[p \in Port |-> IF p \in S THEN IF p \in good THEN "ok" ELSE "err" ELSE res[p]]
   : good \in SUBSET S}

\* The worker pool has drained: a result for every proxy of the snapshot,
\* discarded when the context was cancelled in the meantime.
Probe(s) ==
  /\ scan[s].pc = "probe"
  /\ \/ /\ scan[s].ctx = "cancelled"
        /\ CutShort(s) /\ UNCHANGED passed
     \/ /\ scan[s].ctx = "open"
        /\ \E res \in Outcomes(scan[s].snap, scan[s].res) :
             /\ scan' = [scan EXCEPT ![s].res = res,
                                     ![s].pc = IF Retries(res) THEN "retry" ELSE "apply"]
             /\ passed' = passed \union Passed(res)
        /\ UNCHANGED cut
  /\ UNCHANGED <<state, listVars, mu, checkID, cancel, checking, req, startup, boundVars>>

\* The failure tail is probed once more; the context is not consulted again.
Retry(s) ==
  /\ scan[s].pc = "retry"
  /\ \E res \in Outcomes(Failed(scan[s].res), scan[s].res) :
       /\ scan' = [scan EXCEPT ![s].res = res, ![s].pc = "apply"]
       /\ passed' = passed \union Passed(res)
  /\ UNCHANGED <<state, listVars, mu, checkID, cancel, checking, req, startup, boundVars,
                 cut>>

\* Mutant of WithResults: a disabled proxy is not recognised, so that its old
\* result is written over "disabled".
ResultsIgnoreMode(st, res) ==
  [st EXCEPT !.status = [p \in Port |->
     CASE st.mode[p] # "absent" /\ res[p] = "ok"  -> "live"
       [] st.mode[p] # "absent" /\ res[p] = "err" -> "failed"
       [] OTHER -> @[p]]]

\* Mutant of WithResults: a proxy without a result is taken for one without an
\* error (the zero value of the map lookup).
ResultsDefaultToLive(st, res) ==
  [st EXCEPT !.status = [p \in Port |->
     CASE st.mode[p] = "disabled" -> "disabled"
       [] st.mode[p] = "enabled" /\ res[p] # "err" -> "live"
       [] st.mode[p] = "enabled" /\ res[p] = "err" -> "failed"
       [] OTHER -> @[p]]]

\* Mutant of WithResults: only successes are written.
ResultsDropErrors(st, res) ==
  [st EXCEPT !.status = [p \in Port |->
     CASE st.mode[p] = "disabled" -> "disabled"
       [] st.mode[p] = "enabled" /\ res[p] = "ok" -> "live"
       [] OTHER -> @[p]]]

\* The state after the results res have been written into st by port.
WithResults(st, res) ==
  [st EXCEPT !.status = [p \in Port |->
     CASE st.mode[p] = "disabled" -> "disabled"
       [] st.mode[p] = "enabled" /\ res[p] = "ok"  -> "live"
       [] st.mode[p] = "enabled" /\ res[p] = "err" -> "failed"
       [] OTHER -> @[p]]]

\* The results are saved; the lists are still to be rendered from that state.
SaveResults(s, updated) ==
  /\ state' = updated
  /\ scan' = [scan EXCEPT ![s] = [AtEnd(@) EXCEPT !.pc = "full", !.full = FullOf(updated),
                                                  !.live = LiveOf(updated)]]
  /\ cut' = cut \ {p \in Port : scan[s].res[p] # "none"}

\* Mutant of ApplyResults: the snapshot taken by MarkChecking is written back
\* instead of the latest saved state, which brings old proxies back.
ApplyResultsToSnapshot(s) ==
  /\ scan[s].pc = "apply" /\ mu = NoReq
  /\ SaveResults(s, WithResults(WithProxies(state, scan[s].snap, "enabled", "checking"),
                                scan[s].res))
  /\ UNCHANGED <<listVars, mu, checkID, cancel, checking, req, startup, boundVars, passed>>

\* Mutant of ApplyResults: mu is not taken for the second update.
ApplyResultsUnlocked(s) ==
  /\ scan[s].pc = "apply"
  /\ SaveResults(s, WithResults(state, scan[s].res))
  /\ UNCHANGED <<listVars, mu, checkID, cancel, checking, req, startup, boundVars, passed>>

\* Under mu, write the results into the latest saved state.
ApplyResults(s) ==
  /\ scan[s].pc = "apply" /\ mu = NoReq
  /\ \/ SaveResults(s, WithResults(state, scan[s].res)) /\ UNCHANGED faults
     \/ Fault /\ CutShort(s) /\ UNCHANGED state
  /\ UNCHANGED <<listVars, mu, checkID, cancel, checking, req, startup, ops, passed>>

\* writeLists(updated), after mu was released: the full list, then the live one.
ScanWritesFull(s) ==
  /\ scan[s].pc = "full"
  /\ \/ fullList' = scan[s].full /\ GoTo(s, "live") /\ UNCHANGED faults
     \/ Fault /\ GoToEnd(s) /\ UNCHANGED fullList
  /\ UNCHANGED <<state, liveList, mu, checkID, cancel, checking, req, startup, ops, history>>

ScanWritesLive(s) ==
  /\ scan[s].pc = "live"
  /\ \/ liveList' = scan[s].live /\ UNCHANGED faults
     \/ Fault /\ UNCHANGED liveList
  /\ GoToEnd(s)
  /\ UNCHANGED <<state, fullList, mu, checkID, cancel, checking, req, startup, ops, history>>

\* Mutant of Finish: the flag is cleared only for a scan that was not replaced,
\* but the comparison is with the number of the scan before.
FinishComparesOld(s) ==
  /\ scan[s].pc = "finish"
  /\ scan' = [scan EXCEPT ![s] = NoScan]
  /\ IF checkID + 1 = scan[s].id
       THEN checking' = FALSE /\ cancel' = 0
       ELSE UNCHANGED <<checking, cancel>>
  /\ UNCHANGED <<state, listVars, mu, checkID, req, startup, boundVars, history>>

\* The goroutine deregisters itself unless a later scan or stop replaced it.
Finish(s) ==
  /\ scan[s].pc = "finish"
  /\ scan' = [scan EXCEPT ![s] = NoScan]
  /\ IF checkID = scan[s].id
       THEN checking' = FALSE /\ cancel' = 0
       ELSE UNCHANGED <<checking, cancel>>
  /\ UNCHANGED <<state, listVars, mu, checkID, req, startup, boundVars, history>>

ScanStep(s) ==
  \/ MarkChecking(s) \/ Probe(s) \/ Retry(s) \/ ApplyResults(s)
  \/ ScanWritesFull(s) \/ ScanWritesLive(s) \/ Finish(s)

(***************************************************************************)
(* The HTTP requests.                                                      *)
(***************************************************************************)
\* A handler that serves no request may pick one up.
Accept(r) == req[r].pc = "idle" /\ ops < MaxOps /\ ops' = ops + 1

\* POST api/check.
PostCheck(r) ==
  /\ Accept(r)
  /\ StartCheck
  /\ UNCHANGED <<state, listVars, mu, req, startup, faults, history>>

\* Create, ApplyListAction and Repair begin by stopping the scan, before they
\* wait for mu.
BeginMutation(r) ==
  /\ Accept(r)
  /\ StopCheck
  /\ \E op \in Mutations : req' = [req EXCEPT ![r].pc = "stopped", ![r].op = op]
  /\ UNCHANGED <<state, listVars, mu, startup, faults, history>>

\* The submitted list does not parse; mu was never taken.
BadList(r) ==
  /\ req[r].pc = "stopped" /\ req[r].op \in {"enable", "disable", "delete"}
  /\ req' = [req EXCEPT ![r] = NoRequest]
  /\ UNCHANGED <<state, listVars, mu, checkVars, startup, boundVars, history>>

\* Under mu the request is refused: no matching proxy, no free port, or
\* applyCandidate gives up before it tried to save anything.
Refuse(r) ==
  /\ req[r].pc = "stopped" /\ mu = NoReq
  /\ req' = [req EXCEPT ![r] = NoRequest]
  /\ UNCHANGED <<state, listVars, mu, checkVars, startup, boundVars, history>>

\* Under mu: load the state, compute the candidate, save it.
SaveCandidate(r) ==
  /\ req[r].pc = "stopped" /\ mu = NoReq
  /\ mu' = r
  /\ \E c \in Candidates(req[r].op, state) : state' = c
  /\ req' = [req EXCEPT ![r].pc = "saved", ![r].orig = state]
  /\ UNCHANGED <<listVars, checkVars, startup, boundVars, history>>

\* The candidate could not be saved: rollback has no state to restore.
SaveFails(r) ==
  /\ req[r].pc = "stopped" /\ mu = NoReq
  /\ Fault
  /\ mu' = r
  /\ req' = [req EXCEPT ![r].pc = "rollback", ![r].orig = state]
  /\ UNCHANGED <<state, listVars, checkVars, startup, ops, history>>

\* The engine came up on the candidate, and the full list is written.
CommitFull(r) ==
  /\ req[r].pc = "saved"
  /\ fullList' = FullOf(state)
  /\ req' = [req EXCEPT ![r].pc = "full"]
  /\ UNCHANGED <<state, liveList, mu, checkVars, startup, boundVars, history>>

\* The live list is written and the request releases mu.
CommitLive(r) ==
  /\ req[r].pc = "full"
  /\ liveList' = LiveOf(state)
  /\ mu' = NoReq
  /\ req' = [req EXCEPT ![r] = [NoRequest EXCEPT !.pc = "reply", !.op = req[r].op]]
  /\ UNCHANGED <<state, fullList, checkVars, startup, boundVars, history>>

\* The engine did not come up, or a list could not be written: rollback saves
\* the original state (an error is ignored, as are the later ones) ...
Rollback(r) ==
  /\ req[r].pc \in {"saved", "full"}
  /\ \/ state' = req[r].orig /\ UNCHANGED faults
     \/ Fault /\ UNCHANGED state
  /\ req' = [req EXCEPT ![r].pc = "rollback"]
  /\ UNCHANGED <<listVars, mu, checkVars, startup, ops, history>>

\* ... and rewrites the lists from it; writeLists stops at its first error.
RollbackFull(r) ==
  /\ req[r].pc = "rollback"
  /\ \/ /\ fullList' = FullOf(req[r].orig)
        /\ req' = [req EXCEPT ![r].pc = "rolledFull"]
        /\ UNCHANGED <<mu, faults>>
     \/ /\ Fault
        /\ mu' = NoReq
        /\ req' = [req EXCEPT ![r] = NoRequest]
        /\ UNCHANGED fullList
  /\ UNCHANGED <<state, liveList, checkVars, startup, ops, history>>

\* Mutant of RollbackLive: the error path returns without releasing mu.
RollbackKeepsLock(r) ==
  /\ req[r].pc = "rolledFull"
  /\ liveList' = LiveOf(req[r].orig)
  /\ req' = [req EXCEPT ![r] = NoRequest]
  /\ UNCHANGED <<state, fullList, mu, checkVars, startup, boundVars, history>>

RollbackLive(r) ==
  /\ req[r].pc = "rolledFull"
  /\ \/ liveList' = LiveOf(req[r].orig) /\ UNCHANGED faults
     \/ Fault /\ UNCHANGED liveList
  /\ mu' = NoReq
  /\ req' = [req EXCEPT ![r] = NoRequest]
  /\ UNCHANGED <<state, fullList, checkVars, startup, ops, history>>

\* serveAPI: after a successful create, enable or repair a scan is launched;
\* after a disable or delete none is.
Reply(r) ==
  /\ req[r].pc = "reply"
  /\ req' = [req EXCEPT ![r] = NoRequest]
  /\ IF req[r].op \in {"create", "enable", "repair"} THEN StartCheck ELSE UNCHANGED checkVars
  /\ UNCHANGED <<state, listVars, mu, startup, boundVars, history>>

ReqStep(r) ==
  \/ BadList(r) \/ Refuse(r) \/ SaveCandidate(r) \/ SaveFails(r)
  \/ CommitFull(r) \/ CommitLive(r)
  \/ Rollback(r) \/ RollbackFull(r) \/ RollbackLive(r) \/ Reply(r)

(***************************************************************************)
(* The dashboard process itself.                                           *)
(***************************************************************************)
\* serve launches a scan once the engine is stable, or skips it.
StartupCheck ==
  /\ startup /\ startup' = FALSE
  /\ StartCheck \/ UNCHANGED checkVars
  /\ UNCHANGED <<state, listVars, mu, req, boundVars, history>>

\* The process dies and systemd starts it again: the files survive, the
\* goroutines and the locks do not.
Restart ==
  /\ Fault
  /\ mu' = NoReq
  /\ checkID' = 0 /\ cancel' = 0 /\ checking' = FALSE
  /\ scan' = [s \in Scan |-> NoScan]
  /\ req' = [r \in Req |-> NoRequest]
  /\ startup' = TRUE
  /\ cut' = cut \union UNION {scan[s].snap : s \in Scan}
  /\ UNCHANGED <<state, listVars, ops, passed>>

\* Nothing is running and the bounds allow no further request.
Quiet ==
  /\ \A r \in Req : req[r].pc = "idle"
  /\ \A s \in Scan : scan[s].pc = "idle"
  /\ ~startup

Rest == Quiet /\ ops = MaxOps /\ UNCHANGED vars

Next ==
  \/ \E s \in Scan : ScanStep(s)
  \/ \E r \in Req : PostCheck(r) \/ BeginMutation(r) \/ ReqStep(r)
  \/ StartupCheck \/ Restart \/ Rest

(***************************************************************************)
(* Goroutines that can run do run, and sync.Mutex starves none of its      *)
(* waiters; nobody is obliged to send a request or to kill the process.    *)
(***************************************************************************)
Fairness ==
  /\ \A s \in Scan : WF_vars(ScanStep(s))
  /\ \A r \in Req : WF_vars(ReqStep(r))
  /\ WF_vars(StartupCheck)

Spec == Init /\ [][Next]_vars
FairSpec == Spec /\ Fairness

-----------------------------------------------------------------------------
(***************************************************************************)
(* Properties.                                                             *)
(***************************************************************************)
ScanRecord == [pc : ScanPCs, id : Nat, ctx : {"open", "cancelled"}, snap : SUBSET Port,
               res : [Port -> Result], full : SUBSET Port, live : SUBSET Port]
ReqRecord == [pc : ReqPCs, op : Mutations, orig : State]

\* Every variable keeps its type: the saved state, the lists, the bookkeeping of
\* StartCheck and stopCheck, and the local variables of scans and handlers.
TypeOK ==
  /\ state \in State
  /\ fullList \in SUBSET Port /\ liveList \in SUBSET Port
  /\ mu \in Req \union {NoReq}
  /\ checkID \in Nat /\ cancel \in Scan \union {0} /\ checking \in BOOLEAN
  /\ scan \in [Scan -> ScanRecord]
  /\ req \in [Req -> ReqRecord]
  /\ startup \in BOOLEAN
  /\ ops \in Nat /\ faults \in Nat
  /\ passed \in SUBSET Port /\ cut \in SUBSET Port

Active(s) == scan[s].pc # "idle"

\* The dashboard reports a scan exactly while one is registered, the registered
\* scan is running with an open context and the current checkID, and no other
\* running scan is left uncancelled: however requests, scans and restarts
\* interleave, StartCheck, stopCheck and the end of the scan goroutine never
\* leave two scans that both believe they are current, or a scan that nobody
\* can cancel.
ScanControl ==
  /\ checking <=> cancel # 0
  /\ cancel # 0 => /\ Active(cancel)
                   /\ scan[cancel].ctx = "open" /\ scan[cancel].id = checkID
  /\ \A s \in Scan : Active(s) /\ scan[s].ctx = "open" => s = cancel

\* A proxy is disabled exactly when its status says so: no result of a scan that
\* raced with a disable survives as "live" or "failed" on a disabled proxy, and
\* no enabled proxy keeps "disabled" (the !p.Enabled branch of CheckAll).
StatusAgreesWithMode ==
  \A p \in Port : /\ state.mode[p] = "disabled" <=> state.status[p] = "disabled"
                  /\ state.mode[p] = "absent" <=> state.status[p] = "none"

\* A proxy is shown "live", or is in the live list, only if a check of it has
\* once succeeded: a scan that started before the proxy existed says nothing
\* about it, because CheckAll skips ports for which it has no result.
LiveIsEvidenced ==
  \A p \in Port : state.status[p] = "live" \/ p \in liveList => p \in passed

\* A proxy whose saved status is "checking" was marked by a scan that is still
\* going to write its result, or by one that was cut short (cancelled, killed
\* with the process, or unable to save): a scan that runs to its end settles
\* every proxy it marked, even when requests rewrote the state meanwhile.
CheckingExplained ==
  \A p \in Port : state.status[p] = "checking" =>
    p \in cut \/ \E s \in Scan : p \in scan[s].snap /\ scan[s].pc \in {"probe", "retry", "apply"}

\* A scan never adds, removes, enables or disables a proxy, and never moves
\* NextPort: outside the critical section of a request the configuration is
\* unchanged, although the scan writes the state back after its probes.
OnlyRequestsReconfigure ==
  [][mu = NoReq /\ mu' = NoReq => state'.mode = state.mode /\ state'.next = state.next]_vars

\* While one request is between loading the state and releasing mu, the saved
\* state changes only by its own rollback; in particular no scan slips a write
\* in between, which a rollback to the original would erase.
CandidateIsolated ==
  [][\A r \in Req : mu = r /\ mu' = r /\ state' # state => state' = req[r].orig]_vars

\* Every scan ends, and the dashboard stops reporting it, unless a new one takes
\* over: the flag of Service.checking does not stay up for ever.
ScanEnds == checking ~> ~checking

\* Every POST request is answered: no order of failures and rollbacks leaves a
\* handler waiting for Service.mu for ever.
RequestEnds == \A r \in Req : (req[r].pc # "idle") ~> (req[r].pc = "idle")

\* What the comment on stopCheck says: results collected for one configuration
\* are not written once a create, disable, enable, delete or repair changed it.
\* The code does not keep this: the context is last consulted before the retry
\* pass and before the scan waits for mu.
NoStaleResults ==
  [][\A s \in Scan : scan[s].pc = "apply" /\ scan'[s].pc = "full"
                       => scan[s].snap = Enabled(state)]_vars

\* What the lifecycle test says of the text files: once nothing is running, a
\* deleted proxy is not in the full list and a disabled one not in the live
\* list.  The code does not keep this: a scan writes the lists after it has
\* released mu, from the state it saw before.
ListsFollowState ==
  Quiet => fullList = FullOf(state) /\ liveList \subseteq Enabled(state)
=============================================================================

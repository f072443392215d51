----------------------------- MODULE Installer -----------------------------
(***************************************************************************)
(* The installer, run and run again, next to the dashboard of an earlier   *)
(* run: bootstrap with the detection of the prefix, its probe and the      *)
(* import of an older setup; then the restart of the engine, the repair    *)
(* and the new token.  Requests of the dashboard create proxies and apply  *)
(* lists; what they do to the state and the addresses is a step before the *)
(* save, one after it, and two to undo it (ConfigApply has every step      *)
(* between).  The engine starts at any time, prepare before it.  Of scans  *)
(* there is what matters here: they save what they have loaded, as         *)
(* requests do, and like prepare they write the list late.                 *)
(***************************************************************************)
EXTENDS Allocation

CONSTANTS
  Setups,      \* what the first run may find on the host
  ProbeLimit,  \* used addresses the probe passes over (4096 in the code)
  MaxRuns, MaxOps, MaxEvents, \* bounds: installer runs; requests and rotations; both together
  MaxBatch,                   \* bound: proxies that one request creates
  MaxScans                    \* bound: scans that have saved and not written their list yet

ASSUME InstallerAssumption ==
  /\ ProbeLimit \in Nat \ {0} /\ MaxRuns \in Nat /\ MaxOps \in Nat /\ MaxBatch \in Nat
  /\ \A s \in Setups :
       /\ s.routes \subseteq [lo : Address, hi : Address] /\ s.addrs \subseteq Address
       /\ s.list \in Seq(ListEntry)
       /\ \A port \in DOMAIN s.services : s.services[port] \in Text

VARIABLES
  setup,   \* what the first run found (constant during a behaviour)
  st,      \* the saved state
  addrs,   \* addresses bound to the interface
  list,    \* the text list of all proxies
  dash,    \* the dashboard runs
  inst,    \* the installer
  req,     \* what holds mu in the dashboard: a request inside applyCandidate, or a scan
  late,    \* lists that scans have saved and not written yet
  prep,    \* what a prepare has loaded and not written yet: one list or none
  hist     \* history: see HistInit

vars == <<setup, st, addrs, list, dash, inst, req, late, prep, hist>>

NoPrefix == [lo |-> 1, hi |-> 0]
NewState == [prefix |-> NoPrefix, proxies |-> <<>>, nextPort |-> FirstPort,
             nextOffset |-> 1, token |-> 0]
Detected(s) == s.prefix # NoPrefix

\* The installer's steps in the order of install.sh; ready: it has finished.
\* It either keeps its own copy of the state (loc) or works on the saved one.
Steps == {"idle", "detect", "probe", "probing", "import", "save", "lists", "stop",
          "restart", "repair", "repairing", "rotate", "start", "ready", "failed"}
Idle == [pc |-> "idle", loc |-> NewState, temp |-> NoAddress, added |-> {}, runs |-> 0]
NoReq == [pc |-> "none", orig |-> NewState, cand |-> NewState, added |-> {}]

\* acked: the proxies after the last acknowledged change, or after one whose
\* answer got lost; given: ports ever acknowledged; token: the last announced;
\* overlap: two processes were between a load and a save at the same time;
\* raced: so was another process when that token was saved; lost: a rollback could
\* not save the state it had to restore; behind: the text list was left, or
\* written, with other proxies than those saved; again: an import after the first
\* installation; held: addresses bound when the probe began.
HistInit == [acked |-> <<>>, given |-> {}, token |-> 0, ops |-> 0, overlap |-> FALSE,
             raced |-> FALSE, lost |-> FALSE, behind |-> FALSE, again |-> FALSE, held |-> {}]

Init ==
  /\ setup \in Setups
  /\ st = NewState /\ addrs = setup.addrs /\ list = setup.list
  /\ dash = FALSE /\ inst = Idle /\ req = NoReq /\ late = {} /\ prep = {}
  /\ hist = HistInit

At(pc) == inst.pc = pc
Goto(pc) == inst' = [inst EXCEPT !.pc = pc]
\* Bootstrap, or repair, has loaded the state and will save it.
Saving == inst.pc \in {"detect", "probe", "probing", "import", "save", "repairing"}
MayGoOn == inst.runs + hist.ops < MaxEvents
Quiet == ~Saving /\ req.pc = "none"

\* Nobody is about to write the list of what is saved.
AtRest == req.pc \in {"none", "scan", "save"}
Differs(l, s) == l # FormatList(s.proxies)

-----------------------------------------------------------------------------
(* bootstrap *)

BootLoad ==
  /\ inst.pc \in {"idle", "ready", "failed"} /\ inst.runs < MaxRuns /\ MayGoOn
  /\ inst' = [inst EXCEPT !.pc = IF Detected(st) THEN "import" ELSE "detect",
                          !.loc = st, !.runs = @ + 1]
  /\ hist' = [hist EXCEPT !.overlap = @ \/ req.pc # "none"]
  /\ UNCHANGED <<setup, st, addrs, list, dash, req, late, prep>>

\* The eligible route with the fewest bits.
Detect ==
  /\ At("detect")
  /\ \E r \in setup.routes :
       /\ \A q \in setup.routes : q.hi - q.lo <= r.hi - r.lo
       /\ inst' = [inst EXCEPT !.pc = "probe", !.loc.prefix = r]
  /\ UNCHANGED <<setup, st, addrs, list, dash, req, late, prep, hist>>

\* Mutant of TestAddress: the first address of the prefix, used or not.
TestAddressFirst(prefix) == prefix.lo + 1

\* The first of ProbeLimit addresses that is not bound, or else the last of them.
TestAddress(prefix) ==
  CHOOSE a \in (prefix.lo + 1)..(prefix.lo + ProbeLimit) :
    /\ a \notin addrs \/ a = prefix.lo + ProbeLimit
    /\ \A b \in (prefix.lo + 1)..(a - 1) : b \in addrs

\* Outside the prefix: there is no free test address, and the run fails.
ProbeAdd ==
  /\ At("probe") /\ In(TestAddress(inst.loc.prefix), inst.loc.prefix)
  /\ inst' = [inst EXCEPT !.pc = "probing", !.temp = TestAddress(inst.loc.prefix)]
  /\ addrs' = addrs \union {inst'.temp}
  /\ hist' = [hist EXCEPT !.held = addrs]
  /\ UNCHANGED <<setup, st, list, dash, req, late, prep>>

ProbeEnd ==
  /\ At("probing")
  /\ addrs' = addrs \ {inst.temp}
  /\ \E pc \in {"import", "failed"} :
       inst' = [inst EXCEPT !.pc = pc, !.temp = NoAddress]
  /\ UNCHANGED <<setup, st, list, dash, req, late, prep, hist>>

MayImport(s) == s.proxies = <<>>

Import ==
  /\ At("import")
  /\ \/ /\ ~MayImport(inst.loc) \/ list = <<>>
        /\ Goto("save")
     \/ /\ MayImport(inst.loc) /\ list # <<>> /\ DOMAIN setup.services # {}
        /\ inst' = [inst EXCEPT !.pc = "save", !.loc = Imported(@, list, setup.services)]
     \/ /\ MayImport(inst.loc) /\ list # <<>> /\ DOMAIN setup.services = {}
        /\ Goto("failed")
  /\ hist' = [hist EXCEPT !.again = @ \/ (hist.token # 0 /\ inst'.loc # inst.loc)]
  /\ UNCHANGED <<setup, st, addrs, list, dash, req, late, prep>>

\* Mutant of BootSave: it saves what it has detected and imported, no token.
BootSaveNoToken ==
  /\ At("save")
  /\ st' = [inst.loc EXCEPT !.token = 0]
  /\ Goto("lists")
  /\ hist' = [hist EXCEPT !.acked = IF hist.token = 0 THEN inst.loc.proxies ELSE @,
                          !.given = @ \union Ports(inst.loc.proxies)]
  /\ UNCHANGED <<setup, addrs, list, dash, req, late, prep>>

BootSave ==
  /\ At("save")
  /\ st' = inst.loc
  /\ Goto("lists")
  /\ hist' = [hist EXCEPT !.acked = IF hist.token = 0 THEN inst.loc.proxies ELSE @,
                          !.given = @ \union Ports(inst.loc.proxies)]
  /\ UNCHANGED <<setup, addrs, list, dash, req, late, prep>>

BootLists ==
  /\ At("lists")
  /\ list' = FormatList(inst.loc.proxies)
  /\ Goto("stop")
  /\ hist' = [hist EXCEPT !.behind = @ \/ (AtRest /\ Differs(list', st))]
  /\ UNCHANGED <<setup, st, addrs, dash, req, late, prep>>

-----------------------------------------------------------------------------
(* The rest of install.sh *)

\* The dashboard does not handle SIGTERM: a request dies where it stands.
Killed ==
  /\ req' = NoReq /\ late' = {}
  /\ hist' = [hist EXCEPT !.acked = IF req.pc = "none" THEN @ ELSE st.proxies,
                          !.behind = @ \/ Differs(list, st)]

\* When the stop fails the script goes on, next to the dashboard.
StopDashboard ==
  /\ At("stop") /\ Goto("restart")
  /\ \/ dash' = FALSE /\ Killed
     \/ UNCHANGED <<dash, req, late, hist>>
  /\ UNCHANGED <<setup, st, addrs, list, prep>>

CanPrepare(s) == Renders(s.proxies) /\ Routed(s.proxies, s.prefix)
Bound(s) == {s.proxies[i].text.ip : i \in Bindable(s.proxies, s.prefix)}

\* Mutant of Added: addresses that were bound before are taken for added.
AddedAll(s) == Bound(s)

\* What applyCandidate takes for added, of the addresses it binds: a spelling of
\* its own is never found among the addresses of the interface.
Added(s) ==
  {s.proxies[i].text.ip : i \in {j \in Bindable(s.proxies, s.prefix) :
     ~s.proxies[j].text.canonical \/ s.proxies[j].text.ip \notin addrs}}

\* The engine starts, by itself or because a request restarts it: prepare binds
\* the addresses of what is saved, and fails when it cannot do so for all of them.
\* Another prepare that was under way is killed.  Nothing is prepared before
\* bootstrap has saved a prefix.
EngineStarts ==
  /\ Detected(st)
  /\ prep' = IF CanPrepare(st) THEN {st.proxies} ELSE {}
  /\ addrs' = addrs \union Bound(st)
  /\ UNCHANGED <<setup, st, list, dash, inst, req, late, hist>>

\* It writes the lists of what it has loaded.
PrepareWrites ==
  \E proxies \in prep :
    /\ prep' = {} /\ list' = FormatList(proxies)
    /\ hist' = [hist EXCEPT !.behind = @ \/ (AtRest /\ Differs(list', st))]
    /\ UNCHANGED <<setup, st, addrs, dash, inst, req, late>>

\* systemctl restart returns when prepare has ended.
RestartEngine ==
  /\ At("restart")
  /\ prep' = {} /\ addrs' = addrs \union Bound(st)
  /\ IF CanPrepare(st) THEN Goto("repair") /\ list' = FormatList(st.proxies)
                       ELSE Goto("failed") /\ UNCHANGED list
  /\ UNCHANGED <<setup, st, dash, req, late, hist>>

\* repair, in a process of its own: applyCandidate of what it loads.  What is saved
\* after a restart that succeeded can be prepared.
RepairStarts ==
  /\ At("repair") /\ CanPrepare(st)
  /\ inst' = [inst EXCEPT !.pc = "repairing", !.loc = st, !.added = Added(st)]
  /\ addrs' = addrs \union Bound(st)
  /\ hist' = [hist EXCEPT !.overlap = @ \/ req.pc # "none"]
  /\ UNCHANGED <<setup, st, list, dash, req, late, prep>>

\* It saves, restarts the engine and writes the list; or rolls back, as far as it
\* can.  The restart leaves no older prepare.
RepairEnds ==
  /\ At("repairing")
  /\ \/ /\ Goto("rotate") /\ st' = inst.loc /\ list' = FormatList(inst.loc.proxies)
        /\ addrs' = addrs \union Bound(inst.loc) /\ prep' = {}
     \/ /\ Goto("failed") /\ st' \in {st, inst.loc}
        /\ list' \in {list, FormatList(inst.loc.proxies)}
        /\ \E gone \in SUBSET inst.added : addrs' = addrs \ gone
        /\ UNCHANGED prep
  /\ UNCHANGED <<setup, dash, req, late, hist>>

\* Its load and its save are one step.
SetToken ==
  /\ st' = [st EXCEPT !.token = hist.token + 1]
  /\ UNCHANGED <<setup, addrs, list, dash, req, late, prep>>

RotateToken ==
  /\ At("rotate") /\ SetToken /\ Goto("start")
  /\ hist' = [hist EXCEPT !.token = @ + 1, !.overlap = @ \/ ~Quiet, !.raced = ~Quiet]

\* proxy-manager rotate-token by hand.
RotateByHand ==
  /\ dash /\ hist.ops < MaxOps /\ MayGoOn /\ SetToken /\ UNCHANGED inst
  /\ hist' = [hist EXCEPT !.token = @ + 1, !.ops = @ + 1,
                          !.overlap = @ \/ ~Quiet, !.raced = ~Quiet]

\* A restart, of a dashboard that could not be stopped too.
StartDashboard ==
  /\ At("start") /\ Goto("ready")
  /\ dash' = TRUE /\ Killed
  /\ UNCHANGED <<setup, st, addrs, list, prep>>

\* A command fails or the run is interrupted: a test address stays.
Fail ==
  /\ inst.pc \notin {"idle", "ready", "failed"} /\ Goto("failed")
  /\ UNCHANGED <<setup, st, addrs, list, dash, req, late, prep, hist>>

-----------------------------------------------------------------------------
(* The dashboard *)

\* It dies, and is back after three seconds (Restart=always).
DashboardDies ==
  /\ dash /\ (req.pc # "none" \/ late # {}) /\ Killed
  /\ UNCHANGED <<setup, st, addrs, list, dash, inst, prep>>

TokenValid(token) == st.token # 0 /\ token = st.token

\* What a user may submit, of the lists the page shows: one line, or all of them.
Submitted == {{Entry(st.proxies[i])} : i \in DOMAIN st.proxies}
             \union {{Entry(st.proxies[i]) : i \in DOMAIN st.proxies}}

Candidates ==
  {Allocate(st, n, pass) : n \in {k \in 1..MaxBatch : CanAllocate(st, k)}, pass \in {0, 1}}
  \union {ListAction(st, entries, action) :
            entries \in Submitted, action \in {"enable", "disable", "delete"}}

\* The load, the candidate, its check and its addresses, up to the save; a
\* candidate that is not routed is refused with its first addresses bound.
RequestStarts ==
  /\ dash /\ req.pc = "none" /\ hist.ops < MaxOps /\ MayGoOn
  /\ \E cand \in {c \in Candidates : Renders(c.proxies)} :
       /\ addrs' = addrs \union Bound(cand)
       /\ req' = IF Routed(cand.proxies, cand.prefix)
                 THEN [pc |-> "save", orig |-> st, cand |-> cand, added |-> Added(cand)]
                 ELSE NoReq
  /\ hist' = [hist EXCEPT !.ops = @ + 1, !.overlap = @ \/ Saving]
  /\ UNCHANGED <<setup, st, list, dash, inst, late, prep>>

RequestSaves ==
  /\ req.pc = "save"
  /\ st' = req.cand
  /\ req' = [req EXCEPT !.pc = "restart"]
  /\ UNCHANGED <<setup, addrs, list, dash, inst, late, prep, hist>>

\* The engine restarts with what is saved now, and no older prepare is left; a
\* delete unbinds the addresses no remaining proxy has.
RequestSucceeds ==
  /\ req.pc = "restart" /\ CanPrepare(st)
  /\ list' = FormatList(req.cand.proxies) /\ prep' = {}
  /\ addrs' = (addrs \union Bound(st)) \
                {t.ip : t \in Texts(req.orig.proxies) \ Texts(req.cand.proxies)}
  /\ hist' = [hist EXCEPT !.acked = req.cand.proxies,
                          !.given = @ \union Ports(req.cand.proxies)]
  /\ req' = NoReq
  /\ UNCHANGED <<setup, st, dash, inst, late>>

\* The configuration file cannot be written: nothing is undone.
RequestGivesUp ==
  /\ req.pc = "save" /\ req' = NoReq
  /\ UNCHANGED <<setup, st, addrs, list, dash, inst, late, prep, hist>>

\* Mutant of RequestFails: that the candidate was saved is not noted.
RequestFailsUnnoted ==
  /\ req.pc \in {"save", "restart"} /\ req' = [req EXCEPT !.pc = "undo"]
  /\ UNCHANGED <<setup, st, addrs, list, dash, inst, late, prep, hist>>

\* The save fails, or the restart, or the engine is not stable, or the list is not
\* written.  The rollback saves the original, and ignores it when that fails too.
RequestFails ==
  /\ req.pc \in {"save", "restart"} /\ req' = [req EXCEPT !.pc = "undo"]
  /\ \/ req.pc = "save" /\ UNCHANGED <<st, hist>>
     \/ req.pc = "restart" /\ st' = req.orig /\ UNCHANGED hist
     \/ req.pc = "restart" /\ hist' = [hist EXCEPT !.lost = TRUE] /\ UNCHANGED st
  /\ UNCHANGED <<setup, addrs, list, dash, inst, late, prep>>

\* It restarts the engine, which leaves no older prepare, unless the client has
\* left; it writes the list and removes addresses, and ignores what fails.
RequestUndone ==
  /\ req.pc = "undo" /\ req' = NoReq
  /\ list' \in {list, FormatList(req.orig.proxies)}
  /\ \E gone \in SUBSET req.added : addrs' = addrs \ gone
  /\ prep' \in {prep, {}}
  /\ hist' = [hist EXCEPT !.behind = @ \/ Differs(list', st)]
  /\ UNCHANGED <<setup, st, dash, inst, late>>

\* A scan loads the state, in one of its critical sections.
ScanLoads ==
  /\ dash /\ req.pc = "none" /\ Cardinality(late) < MaxScans
  /\ req' = [pc |-> "scan", orig |-> st, cand |-> st, added |-> {}]
  /\ hist' = [hist EXCEPT !.overlap = @ \/ Saving]
  /\ UNCHANGED <<setup, st, addrs, list, dash, inst, late, prep>>

\* It saves it with its results, and has lists to write after the second section.
ScanSaves ==
  /\ req.pc = "scan" /\ req' = NoReq
  /\ st' = req.cand /\ late' \in {late, late \union {st'.proxies}}
  /\ UNCHANGED <<setup, addrs, list, dash, inst, prep, hist>>

\* It writes them holding no lock.
ScanWrites ==
  \E proxies \in late :
    /\ late' = late \ {proxies} /\ list' = FormatList(proxies)
    /\ hist' = [hist EXCEPT !.behind = @ \/ (AtRest /\ Differs(list', st))]
    /\ UNCHANGED <<setup, st, addrs, dash, inst, req, prep>>

Next ==
  \/ BootLoad \/ Detect \/ ProbeAdd \/ ProbeEnd \/ Import \/ BootSave \/ BootLists
  \/ StopDashboard \/ EngineStarts \/ PrepareWrites \/ RestartEngine
  \/ RepairStarts \/ RepairEnds \/ RotateToken \/ StartDashboard \/ Fail \/ RotateByHand
  \/ DashboardDies \/ RequestStarts \/ RequestSaves \/ RequestSucceeds \/ RequestGivesUp
  \/ RequestFails \/ RequestUndone \/ ScanLoads \/ ScanSaves \/ ScanWrites

Rest ==
  /\ ~(inst.runs < MaxRuns /\ MayGoOn) /\ inst.pc \in {"ready", "failed"}
  /\ req.pc = "none" /\ late = {} /\ prep = {} /\ UNCHANGED vars

Spec == Init /\ [][Next \/ Rest]_vars

-----------------------------------------------------------------------------
(* Properties *)

\* What the first run found: its proxies as they would be imported, and
\* whether all of their addresses are spelled as netip does.
Found == Imported(NewState, setup.list, setup.services)
WasFound(p) == \E i \in DOMAIN Found.proxies : Found.proxies[i] = [p EXCEPT !.enabled = TRUE]
CanonicalSetup == \A port \in DOMAIN setup.services : setup.services[port].canonical

\* The state, as State in model.go, with the prefix that is detected (State of
\* a host without a route has none).
State(routes) ==
  [prefix : routes \union {NoPrefix}, proxies : Seq(Proxy),
   nextPort : FirstPort..(LastPort + 2), nextOffset : 1..(Space + 1), token : Nat]

\* Types; the port of the keepalive listener is handed out to no proxy (Allocate).
TypeOK ==
  /\ setup \in Setups /\ addrs \subseteq Address /\ dash \in BOOLEAN
  /\ list \in Seq(ListEntry) /\ late \subseteq Seq(Proxy) /\ prep \subseteq Seq(Proxy)
  /\ st \in State(setup.routes)
  /\ inst \in [pc : Steps, loc : State(setup.routes), temp : Address \union {NoAddress},
               added : SUBSET Address, runs : 0..MaxRuns]
  /\ req \in [pc : {"none", "scan", "save", "restart", "undo"}, orig : State(setup.routes),
              cand : State(setup.routes), added : SUBSET Address]
  /\ hist \in [acked : Seq(Proxy), given : SUBSET Port, token : Nat, ops : 0..MaxOps,
               overlap : BOOLEAN, raced : BOOLEAN, lost : BOOLEAN, behind : BOOLEAN,
               again : BOOLEAN, held : SUBSET Address]
  /\ \A s \in {st, inst.loc, req.orig, req.cand} : \A i \in DOMAIN s.proxies :
       \/ s.proxies[i].port \in FirstPort..LastPort
       \/ \E j \in DOMAIN setup.list : s.proxies[i].port = setup.list[j].port

\* Addition digit by digit is addition: it returns the sum, or no address when
\* the sum does not fit (AddOffset).  A fact about the operator, for every pair
\* of numbers: it is enough to evaluate it in the initial states.
AddOffsetAdds ==
  inst = Idle => \A a \in Address, o \in 0..(2 * Space) :
    AddOffset(a, o) = IF a + o < Space THEN a + o ELSE NoAddress

\* The proxies saved are those after the last acknowledged change, whatever runs
\* of the installer, failures, rollbacks and kills came since: "without deleting
\* saved proxies" (install.sh:300); nor do deleted ones come back: proxies are
\* imported "at the first installation" (README.md:61).  Excepted are two
\* processes that load and save at the same time; a rollback that could not save
\* the original; and a later run of bootstrap that takes the list of the program
\* itself for an older setup, where a killed request, a rollback that could not
\* write it, or the late write of a prepare or a scan had left it behind.
NothingLost ==
  Quiet /\ ~hist.overlap /\ ~hist.lost /\ ~(hist.again /\ hist.behind) => st.proxies = hist.acked

\* No two proxies have a port, or an address, in common (Allocate), unless an
\* older setup was like that, or spelled an address in a way of its own.
NotShared ==
  ~hist.again => \A i, j \in DOMAIN st.proxies :
    LET p == st.proxies[i]  q == st.proxies[j] IN
    i # j /\ ~(WasFound(p) /\ WasFound(q)) =>
      p.port # q.port /\ (CanonicalSetup => p.text.ip # q.text.ip)

\* A port that was handed out is never handed out again, even after a delete:
\* allocation goes on above all of them.
PortsGivenOnce == ~hist.overlap => \A port \in hist.given : port < st.nextPort

\* No sequence of creates, enables and disables leaves two enabled proxies with
\* one user and two passwords, or on one port: such a state renders no more,
\* and no later request would succeed (renderConfig).
StaysRenderable ==
  Renders(Found.proxies) /\ ~hist.again =>
    \A i, j \in EnabledIn(st.proxies) :
      /\ st.proxies[i].port = st.proxies[j].port => i = j
      /\ st.proxies[i].cred.user = st.proxies[j].cred.user
           => st.proxies[i].cred.pass = st.proxies[j].cred.pass

\* While the dashboard serves and no request is under way, every enabled proxy
\* has its address, also when requests failed, were killed or undone, or the
\* installer ran again; excepted is a rollback that could not save the original,
\* and yet took the addresses of the candidate away.
ServedWhileUp ==
  dash /\ Quiet /\ ~hist.overlap /\ ~hist.lost /\ ~hist.again /\ CanonicalSetup
    => Bound(st) \subseteq addrs

\* The dashboard opens with a URL that was announced, whatever is rolled back,
\* killed or run again (RotateToken, TokenValid): with the last one, unless another
\* process was between its load and its save when that token was saved; then an
\* earlier one may be put back, but no token that nobody was told, or none at all.
TokenOpens ==
  dash => /\ \E token \in 1..hist.token : TokenValid(token)
          /\ ~hist.raced => TokenValid(hist.token)

\* The probe leaves the addresses of the interface as it found them, unless all
\* the addresses it looked at are in use, or it is interrupted.
ProbeHarmless ==
  [][/\ At("probing") /\ addrs' # addrs
     /\ \E a \in (inst.loc.prefix.lo + 1)..(inst.loc.prefix.lo + ProbeLimit) : a \notin hist.held
     => addrs' = hist.held]_vars
=============================================================================

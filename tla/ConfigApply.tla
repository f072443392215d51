---------------------------- MODULE ConfigApply -----------------------------
(***************************************************************************)
(* applyCandidate, the heart of every request that changes the proxies,    *)
(* against the two other programs that touch the same host: proxy-manager  *)
(* prepare, which systemd runs before each start of the engine, and the    *)
(* engine itself.  The request binds IPv6 addresses, rewrites the engine   *)
(* configuration, saves the state, restarts the engine through systemd and *)
(* undoes all of it when a step fails; prepare redoes the same from the    *)
(* saved state, in its own process and so without Service.mu.              *)
(*                                                                         *)
(* A proxy stands for its address as well.  A configuration gives each     *)
(* proxy a mode; the engine configuration file holds the enabled ones, the *)
(* full text list the present ones.                                        *)
(***************************************************************************)
EXTENDS Naturals, FiniteSets

CONSTANTS
  Proxy,       \* proxies, each with an address of its own
  Outside,     \* imported proxies whose address is not in the routed prefix
  FaultKinds,  \* the kinds of fault that may happen, of "read", "write",
               \* "command", "cancel", "rollback", "engine", "crash", "reboot"
  MaxFaults,   \* bound: faults
  MaxOps       \* bound: requests

ASSUME ApplyAssumption ==
  /\ Outside \subseteq Proxy
  /\ MaxFaults \in Nat /\ MaxOps \in Nat

VARIABLES
  saved,    \* the configuration in state.json
  cfg,      \* enabled proxies in 3proxy.cfg
  full,     \* proxies in /root/proxies.txt
  addrs,    \* addresses bound to the interface
  eng,      \* the engine service: prepare, then the engine process
  job,      \* the systemd restart job a request is waiting for
  samePID,  \* MainPID has not changed since EngineActive first read it
  op,       \* the request in its critical section, and what the last one said
  lost,     \* history: some rollback was incomplete, or was prevented by a crash
  ops,      \* requests so far
  faults    \* faults so far

files == <<saved, cfg, full>>
vars  == <<files, addrs, eng, job, samePID, op, lost, ops, faults>>

Mode   == {"absent", "on", "off"}
Config == [Proxy -> Mode]

On(c)      == {p \in Proxy : c[p] = "on"}
Present(c) == {p \in Proxy : c[p] # "absent"}

With(c, S, m) == [p \in Proxy |-> IF p \in S THEN m ELSE c[p]]

\* Create, enable, disable, delete and repair, applied to the configuration c.
Targets(c) ==
  {With(c, S, "on") : S \in SUBSET (Proxy \ Present(c)) \union SUBSET Present(c)}
    \union {With(c, S, "off") : S \in SUBSET Present(c)}
    \union {With(c, S, "absent") : S \in SUBSET Present(c)}

EngPhases == {"down", "load", "inspect", "add", "list", "boot", "run"}
Starting  == {"load", "inspect", "add", "list"}
OpPCs == {"idle", "inspect", "adding", "undo", "save", "restart", "wait", "first",
          "second", "lists", "purge", "rbSave", "rbConfig", "rbRestart", "rbWait", "rbLists",
          "rbRemove"}
Outcome == {"none", "ok", "failed", "restored", "crashed"}

\* A fault of kind k happens, if the instance allows it.
Fault(k) == k \in FaultKinds /\ faults < MaxFaults /\ faults' = faults + 1
NoFault  == UNCHANGED faults

(***************************************************************************)
(* Initial state: the installer has prepared and started the engine.  An   *)
(* imported proxy outside the prefix keeps prepare from ever succeeding.   *)
(***************************************************************************)
Nothing == [p \in Proxy |-> "absent"]

\* The engine service in phase ph, with nothing loaded yet.
EngineAt(ph) == [phase |-> ph, loaded |-> Nothing, todo |-> {}, snap |-> Nothing]

Serving(c) == [EngineAt("run") EXCEPT !.snap = c]

NoOp(c) == [pc |-> "idle", ctx |-> "open", orig |-> c, cand |-> c, todo |-> {}, added |-> {},
            old |-> {}, oldRead |-> FALSE, stored |-> FALSE, again |-> FALSE, outcome |-> "none"]

Init ==
  /\ saved \in Config
  /\ cfg = On(saved) /\ full = Present(saved) /\ addrs = On(saved) \ Outside
  /\ eng = IF On(saved) \intersect Outside = {} THEN Serving(saved) ELSE EngineAt("down")
  /\ job = "none" /\ samePID = FALSE
  /\ op = NoOp(saved)
  /\ lost = FALSE /\ ops = 0 /\ faults = 0

(***************************************************************************)
(* The engine service.  systemd runs prepare, then the engine; the job of  *)
(* a restart ends when the engine process is forked (Type=simple) or when  *)
(* prepare fails.                                                          *)
(***************************************************************************)
EndJob(result) == job' = IF job = "running" THEN result ELSE job

\* Prepare loads the saved state ...
PrepLoad ==
  /\ eng.phase = "load"
  /\ eng' = [eng EXCEPT !.phase = "inspect", !.loaded = saved]
  /\ UNCHANGED <<files, addrs, job, samePID, op, lost, ops, faults>>

\* ... lists the bound addresses ...
PrepInspect ==
  /\ eng.phase = "inspect"
  /\ eng' = [eng EXCEPT !.phase = "add", !.todo = On(eng.loaded) \ (addrs \union Outside)]
  /\ UNCHANGED <<files, addrs, job, samePID, op, lost, ops, faults>>

\* ... binds the missing ones, one command each ("file exists" is success) ...
PrepAdd ==
  /\ eng.phase = "add"
  /\ \E a \in eng.todo :
       /\ addrs' = addrs \union {a}
       /\ eng' = [eng EXCEPT !.todo = @ \ {a}]
  /\ UNCHANGED <<files, job, samePID, op, lost, ops, faults>>

\* ... rewrites the configuration file ...
PrepConfig ==
  /\ eng.phase = "add" /\ eng.todo = {} /\ On(eng.loaded) \intersect Outside = {}
  /\ cfg' = On(eng.loaded)
  /\ eng' = [eng EXCEPT !.phase = "list"]
  /\ UNCHANGED <<saved, full, addrs, job, samePID, op, lost, ops, faults>>

\* ... and the text lists; then the engine process is forked.
PrepLists ==
  /\ eng.phase = "list"
  /\ full' = Present(eng.loaded)
  /\ eng' = EngineAt("boot")
  /\ EndJob("ok")
  /\ UNCHANGED <<saved, cfg, addrs, samePID, op, lost, ops, faults>>

\* A command or a write of prepare fails, or an address is outside the prefix.
PrepFails ==
  /\ eng.phase \in Starting
  /\ \/ Fault("engine")
     \/ eng.phase = "add" /\ On(eng.loaded) \intersect Outside # {} /\ NoFault
  /\ eng' = EngineAt("down")
  /\ EndJob("failed")
  /\ UNCHANGED <<files, addrs, samePID, op, lost, ops>>

\* The engine process loads the saved state and opens its listeners.
EngineBoots ==
  /\ eng.phase = "boot"
  /\ eng' = Serving(saved)
  /\ UNCHANGED <<files, addrs, job, samePID, op, lost, ops, faults>>

\* The engine process ends: a port is taken, a listener breaks, it is killed.
EngineDies ==
  /\ eng.phase \in {"boot", "run"}
  /\ Fault("engine")
  /\ eng' = EngineAt("down")
  /\ samePID' = FALSE
  /\ UNCHANGED <<files, addrs, job, op, lost, ops>>

\* Mutant of AutoRestart: systemd only repeats the start of a job in progress.
AutoRestartInJob ==
  /\ eng.phase = "down"
  /\ eng' = IF job = "none" THEN eng ELSE EngineAt("load")
  /\ UNCHANGED <<files, addrs, job, samePID, op, lost, ops, faults>>

\* Restart=always.
AutoRestart ==
  /\ eng.phase = "down"
  /\ eng' = EngineAt("load")
  /\ UNCHANGED <<files, addrs, job, samePID, op, lost, ops, faults>>

EngineStep ==
  \/ PrepLoad \/ PrepInspect \/ PrepAdd \/ PrepConfig \/ PrepLists \/ PrepFails
  \/ EngineBoots \/ AutoRestart

\* systemctl restart: whatever the service was doing is killed.
RestartJob ==
  /\ eng' = EngineAt("load")
  /\ job' = "running" /\ samePID' = FALSE

(***************************************************************************)
(* The request.  A command runs under the request's context: on a          *)
(* cancelled context it is not started.  A cancel that kills a running one *)
(* counts as a cancel just before it, or just after it took effect.        *)
(***************************************************************************)
CommandWorks == op.ctx = "open" /\ NoFault
CommandFails == \/ op.ctx = "open" /\ Fault("command")
                \/ op.ctx = "cancelled" /\ NoFault

At(pc) == op.pc = pc
To(pc) == op' = [op EXCEPT !.pc = pc]

\* The request is answered.  What it no longer needs is forgotten.
Answer(outcome) ==
  op' = [NoOp(op.orig) EXCEPT !.cand = op.cand, !.added = op.added, !.outcome = outcome]

\* The client goes away: net/http cancels the context of the request.
ClientLeaves ==
  /\ ~At("idle") /\ op.ctx = "open"
  /\ Fault("cancel")
  /\ op' = [op EXCEPT !.ctx = "cancelled"]
  /\ UNCHANGED <<files, addrs, eng, job, samePID, lost, ops>>

\* Under mu: load the state and compute the candidate.  A request that is
\* refused before it runs a command changes nothing and is left out.
Begin ==
  /\ At("idle") /\ ops < MaxOps
  /\ ops' = ops + 1
  /\ \E c \in Targets(saved) : op' = [NoOp(saved) EXCEPT !.pc = "inspect", !.cand = c]
  /\ UNCHANGED <<files, addrs, eng, job, samePID, lost, faults>>

\* Mutant of Inspect: addresses of disabled proxies are bound as well.
InspectAll ==
  /\ At("inspect")
  /\ CommandWorks
  /\ op' = [op EXCEPT !.pc = "adding", !.todo = Present(op.cand) \ (addrs \union Outside)]
  /\ UNCHANGED <<files, addrs, eng, job, samePID, lost, ops>>

\* CurrentIPv6.
Inspect ==
  /\ At("inspect")
  /\ \/ /\ CommandWorks
        /\ op' = [op EXCEPT !.pc = "adding", !.todo = On(op.cand) \ (addrs \union Outside)]
     \/ CommandFails /\ Answer("failed")
  /\ UNCHANGED <<files, addrs, eng, job, samePID, lost, ops>>

\* AddIPv6 for an enabled proxy whose address is missing; after a failure the
\* addresses added so far are removed again.
AddAddress ==
  /\ At("adding")
  /\ \E a \in op.todo :
       \/ /\ CommandWorks
          /\ addrs' = addrs \union {a}
          /\ op' = [op EXCEPT !.todo = @ \ {a}, !.added = @ \union {a}]
       \/ /\ CommandFails
          /\ op' = [op EXCEPT !.pc = "undo", !.todo = op.added]
          /\ UNCHANGED addrs
  /\ UNCHANGED <<files, eng, job, samePID, lost, ops>>

\* An enabled proxy is outside the prefix: the request returns at once.
OutsidePrefix ==
  /\ At("adding") /\ On(op.cand) \intersect Outside # {}
  /\ Answer("failed")
  /\ UNCHANGED <<files, addrs, eng, job, samePID, lost, ops, faults>>

\* The loop that removes what was added, at the place pc; errors are ignored.
RemoveAt(pc, outcome) ==
  /\ At(pc)
  /\ \/ \E a \in op.todo :
          /\ op' = [op EXCEPT !.todo = @ \ {a}]
          /\ \/ CommandWorks /\ addrs' = addrs \ {a}
             \/ CommandFails /\ UNCHANGED addrs
     \/ op.todo = {} /\ Answer(outcome) /\ NoFault /\ UNCHANGED addrs
  /\ UNCHANGED <<files, eng, job, samePID, lost, ops>>

Undo == RemoveAt("undo", "failed")

\* Read the old configuration file and write the new one.  When the write
\* fails the request returns without undoing anything.
WriteConfig ==
  /\ At("adding") /\ op.todo = {} /\ On(op.cand) \intersect Outside = {}
  /\ \/ /\ cfg' = On(op.cand)
        /\ \/ NoFault /\ op' = [op EXCEPT !.pc = "save", !.old = cfg, !.oldRead = TRUE]
           \/ Fault("read") /\ To("save")
     \/ Fault("write") /\ Answer("failed") /\ UNCHANGED cfg
  /\ UNCHANGED <<saved, full, addrs, eng, job, samePID, lost, ops>>

\* Rollback starts; said is what the request is going to report.
RollBack(said) == op' = [op EXCEPT !.pc = "rbSave", !.outcome = said]

\* Mutant of SaveState: the state is to be saved after the engine came up.
SaveLater ==
  /\ At("save")
  /\ To("restart")
  /\ UNCHANGED <<files, addrs, eng, job, samePID, lost, ops, faults>>

\* Store.Save(candidate), before the restart.
SaveState ==
  /\ At("save")
  /\ \/ /\ NoFault
        /\ saved' = op.cand
        /\ op' = [op EXCEPT !.pc = "restart", !.stored = TRUE]
     \/ Fault("write") /\ RollBack("failed") /\ UNCHANGED saved
  /\ UNCHANGED <<cfg, full, addrs, eng, job, samePID, lost, ops>>

\* RestartEngine, the first time or as the automatic retry.
Restart ==
  /\ At("restart")
  /\ \/ CommandWorks /\ RestartJob /\ To("wait")
     \/ CommandFails /\ RollBack("restored") /\ UNCHANGED <<eng, job, samePID>>
  /\ UNCHANGED <<files, addrs, lost, ops>>

\* Mutant of Wait: a failed job is not noticed.
WaitForSuccess ==
  /\ At("wait")
  /\ \/ op.ctx = "open" /\ job = "ok" /\ To("first") /\ job' = "none"
     \/ op.ctx = "open" /\ job = "failed" /\ UNCHANGED <<op, job>>
     \/ op.ctx = "cancelled" /\ RollBack("restored") /\ job' = "none"
  /\ UNCHANGED <<files, addrs, eng, samePID, lost, ops, faults>>

\* systemctl waits for the job; when the context is cancelled systemctl is
\* killed and the job goes on without it.
Wait ==
  /\ At("wait")
  /\ \/ op.ctx = "open" /\ job = "ok" /\ To("first")
     \/ op.ctx = "open" /\ job = "failed" /\ RollBack("restored")
     \/ op.ctx = "cancelled" /\ RollBack("restored")
  /\ job' = "none"
  /\ UNCHANGED <<files, addrs, eng, samePID, lost, ops, faults>>

\* EngineActive failed: try once more, then give up.
Unstable ==
  IF op.again THEN RollBack("restored") ELSE op' = [op EXCEPT !.pc = "restart", !.again = TRUE]

\* EngineActive: the service is active, and its PID is noted ...
FirstLook ==
  /\ At("first")
  /\ \/ CommandWorks /\ eng.phase \in {"boot", "run"} /\ To("second") /\ samePID' = TRUE
     \/ CommandWorks /\ eng.phase \notin {"boot", "run"} /\ Unstable /\ UNCHANGED samePID
     \/ CommandFails /\ Unstable /\ UNCHANGED samePID
  /\ UNCHANGED <<files, addrs, eng, job, lost, ops>>

\* ... and after the stability delay it is still active with the same PID.
SecondLook ==
  /\ At("second")
  /\ \/ CommandWorks /\ eng.phase \in {"boot", "run"} /\ samePID /\ To("lists")
     \/ CommandWorks /\ (eng.phase \notin {"boot", "run"} \/ ~samePID) /\ Unstable
     \/ CommandFails /\ Unstable
  /\ samePID' = FALSE
  /\ UNCHANGED <<files, addrs, eng, job, lost, ops>>

\* Mutant of WriteLists: every address of the original proxies is unbound.
WriteListsPurgeAll ==
  /\ At("lists")
  /\ NoFault
  /\ full' = Present(op.cand)
  /\ op' = [op EXCEPT !.pc = "purge", !.todo = Present(op.orig)]
  /\ UNCHANGED <<saved, cfg, addrs, eng, job, samePID, lost, ops>>

\* Mutant of WriteLists: a failed write is reported without a rollback.
WriteListsNoRollback ==
  /\ At("lists")
  /\ \/ /\ NoFault
        /\ full' = Present(op.cand)
        /\ op' = [op EXCEPT !.pc = "purge", !.todo = Present(op.orig) \ Present(op.cand)]
     \/ Fault("write") /\ Answer("failed") /\ UNCHANGED full
  /\ UNCHANGED <<saved, cfg, addrs, eng, job, samePID, lost, ops>>

\* writeLists(candidate); a delete then unbinds the addresses it freed.
WriteLists ==
  /\ At("lists")
  /\ \/ /\ NoFault
        /\ full' = Present(op.cand)
        /\ op' = [op EXCEPT !.pc = "purge", !.todo = Present(op.orig) \ Present(op.cand)]
     \/ Fault("write") /\ RollBack("failed") /\ UNCHANGED full
  /\ UNCHANGED <<saved, cfg, addrs, eng, job, samePID, lost, ops>>

Purge == RemoveAt("purge", "ok")

(***************************************************************************)
(* The rollback.                                                           *)
(***************************************************************************)
\* The original state is saved again, if the candidate had been; when the old
\* configuration file could not be read neither it nor the engine is restored.
RollbackSave ==
  /\ At("rbSave")
  /\ \/ op.stored /\ NoFault /\ saved' = op.orig /\ lost' = (lost \/ ~op.oldRead)
     \/ op.stored /\ Fault("rollback") /\ lost' = TRUE /\ UNCHANGED saved
     \/ ~op.stored /\ NoFault /\ UNCHANGED <<saved, lost>>
  /\ To(IF op.oldRead THEN "rbConfig" ELSE "rbLists")
  /\ UNCHANGED <<cfg, full, addrs, eng, job, samePID, ops>>

\* The old configuration file is written back.
RollbackConfig ==
  /\ At("rbConfig")
  /\ \/ NoFault /\ cfg' = op.old /\ UNCHANGED lost
     \/ Fault("rollback") /\ lost' = TRUE /\ UNCHANGED cfg
  /\ To("rbRestart")
  /\ UNCHANGED <<saved, full, addrs, eng, job, samePID, ops>>

\* Mutant of RollbackRestart: the engine is left as it is.
RollbackNoRestart ==
  /\ At("rbRestart")
  /\ To("rbLists")
  /\ UNCHANGED <<files, addrs, eng, job, samePID, lost, ops, faults>>

\* The engine is restarted, under the same context as everything else.
RollbackRestart ==
  /\ At("rbRestart")
  /\ \/ CommandWorks /\ RestartJob /\ To("rbWait") /\ UNCHANGED lost
     \/ op.ctx = "open" /\ Fault("rollback") /\ lost' = TRUE
          /\ To("rbLists") /\ UNCHANGED <<eng, job, samePID>>
     \/ op.ctx = "cancelled" /\ NoFault /\ lost' = TRUE
          /\ To("rbLists") /\ UNCHANGED <<eng, job, samePID>>
  /\ UNCHANGED <<files, addrs, ops>>

\* Whatever the job comes to, the rollback goes on.
RollbackWait ==
  /\ At("rbWait")
  /\ job \in {"ok", "failed"} \/ op.ctx = "cancelled"
  /\ job' = "none"
  /\ To("rbLists")
  /\ UNCHANGED <<files, addrs, eng, samePID, lost, ops, faults>>

\* writeLists(original).
RollbackLists ==
  /\ At("rbLists")
  /\ \/ NoFault /\ full' = Present(op.orig) /\ UNCHANGED lost
     \/ Fault("rollback") /\ lost' = TRUE /\ UNCHANGED full
  /\ op' = [op EXCEPT !.pc = "rbRemove", !.todo = op.added]
  /\ UNCHANGED <<saved, cfg, addrs, eng, job, samePID, ops>>

\* The addresses the request added are unbound.
RollbackRemove == RemoveAt("rbRemove", op.outcome)

OpStep ==
  \/ Inspect \/ AddAddress \/ OutsidePrefix \/ Undo \/ WriteConfig \/ SaveState \/ Restart
  \/ Wait \/ FirstLook \/ SecondLook \/ WriteLists \/ Purge
  \/ RollbackSave \/ RollbackConfig \/ RollbackRestart \/ RollbackWait \/ RollbackLists
  \/ RollbackRemove

(***************************************************************************)
(* The dashboard process is killed, or the whole host restarts.            *)
(***************************************************************************)
DashboardDies ==
  /\ ~At("idle")
  /\ Fault("crash")
  /\ Answer("crashed")
  /\ job' = "none" /\ samePID' = FALSE /\ lost' = TRUE
  /\ UNCHANGED <<files, addrs, eng, ops>>

Reboot ==
  /\ Fault("reboot")
  /\ addrs' = {}
  /\ eng' = EngineAt("load")
  /\ job' = "none" /\ samePID' = FALSE
  /\ IF At("idle") THEN UNCHANGED op ELSE Answer("crashed")
  /\ UNCHANGED <<files, lost, ops>>

Rest == At("idle") /\ ops = MaxOps /\ eng.phase = "run" /\ UNCHANGED vars

Next == EngineStep \/ EngineDies \/ Begin \/ ClientLeaves \/ OpStep \/ DashboardDies \/ Reboot
          \/ Rest

(***************************************************************************)
(* A handler that is not waiting runs on, and systemd keeps starting the   *)
(* service; no fault has to happen.                                        *)
(***************************************************************************)
Fairness == WF_vars(OpStep) /\ WF_vars(EngineStep)

Spec == Init /\ [][Next]_vars
FairSpec == Spec /\ Fairness

-----------------------------------------------------------------------------
(***************************************************************************)
(* Properties.                                                             *)
(***************************************************************************)
\* Every variable keeps its type, and a request has bound nothing but addresses
\* its candidate enables.
TypeOK ==
  /\ saved \in Config
  /\ cfg \in SUBSET Proxy /\ full \in SUBSET Proxy /\ addrs \in SUBSET Proxy
  /\ eng \in [phase : EngPhases, loaded : Config, todo : SUBSET Proxy, snap : Config]
  /\ job \in {"none", "running", "ok", "failed"}
  /\ samePID \in BOOLEAN /\ lost \in BOOLEAN
  /\ op \in [pc : OpPCs, ctx : {"open", "cancelled"}, orig : Config, cand : Config,
             todo : SUBSET Proxy, added : SUBSET Proxy, old : SUBSET Proxy, oldRead : BOOLEAN,
             stored : BOOLEAN, again : BOOLEAN, outcome : Outcome]
  /\ op.added \subseteq On(op.cand)
  /\ ops \in Nat /\ faults \in Nat

Running == eng.phase = "run"

\* A request that reported success has its configuration everywhere: in the
\* saved state, in both generated files, in the engine that is running or comes
\* up later, and on the interface, although prepare and an automatic restart of
\* the engine rewrote the same files from the state they had loaded meanwhile.
SuccessServed ==
  At("idle") /\ op.outcome = "ok" =>
    /\ saved = op.cand /\ cfg = On(saved) /\ full = Present(saved)
    /\ Running => eng.snap = saved /\ On(saved) \subseteq addrs

\* A request that reported failure after touching the files left the original
\* state and an engine that serves it, unless that rollback was incomplete
\* or a crash had left the two different before: a prepare still under way with
\* the candidate cannot win.
RolledBack ==
  At("idle") /\ op.outcome \in {"failed", "restored"} /\ ~lost =>
    /\ saved = op.orig
    /\ Running => eng.snap = saved

\* The running engine has every address of the prefix that it sends from:
\* prepare binds them before the engine starts, and requests unbind only what it
\* does not use, so long as the interface keeps its addresses and rollbacks are
\* complete.
BoundWhileRunning == Running /\ ~lost => On(eng.snap) \ Outside \subseteq addrs

\* "previous configuration was restored", says the error: a running engine then
\* serves the saved configuration.  The code does not keep this when the client
\* goes away: the rollback restarts the engine under the cancelled context.
RestoredMeansServed ==
  At("idle") /\ op.outcome = "restored" /\ Running => eng.snap = saved

\* A request always comes to its end: no job of systemd is waited for in vain.
RequestEnds == ~At("idle") ~> At("idle")

\* The engine always comes back.
EngineReturns == []<>Running
=============================================================================

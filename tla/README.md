# Verification of IPv6 Proxy Manager

TLA+ models of ipv6-proxy-manager, the TLC configurations that check them on
small instances, and TLAPS proofs for every size. Paths are relative to `src/`.

The program runs on one VPS. It hands out SOCKS5 proxies, each on its own TCP
port and with its own outgoing IPv6 address, keeps them in one JSON file, and
generates everything else from that file. Three long-lived programs and several
short-lived commands share the file and the host:

* the **dashboard** (`proxy-manager serve`), an HTTP server with background
  health scans;
* the **engine** (`proxy-manager engine`), started by systemd, always after
  `proxy-manager prepare`;
* the installer and its calls of `bootstrap`, `repair`, `rotate-token`, and
  `check` by hand.

## Inventory

| Component | State | Operations | Interacts with |
|---|---|---|---|
| Service, `internal/app/service.go` | `mu`, `checkMu`, `checkID`, `cancel`, `checking`; local state of each request and scan | `Create`, `ApplyListAction`, `Repair`, `Prepare`, `Bootstrap`, `RotateToken`, `StartCheck`, `stopCheck`, `CheckAll`, reads | store, host, checker, generated files |
| HTTP server, `internal/app/http.go` | none | routes; starts a scan after a successful create, enable, repair, and on `check` | service |
| Store, `internal/store` | `state.json`, its backup, `Store.mu` | `Load`, `Save`, `Update`, `WriteAtomic` | file system |
| Allocation, `internal/proxy/allocate.go` | `NextPort`, `NextIPv6Offset` in the state | `Allocate`, `AddOffset` | called by `Create` |
| Generated files, `internal/proxy/config.go` | `3proxy.cfg`, two text lists | `RenderConfig`, `FormatList`, `ParseList`, `Parse3ProxyServices` | service, installer's import |
| Checker, `internal/proxy/check.go` | none | `Check`: attempts, fallback endpoint, SOCKS5 client | engine |
| Engine, `internal/engine` | listeners, 16 connection slots per listener | `Run`, accept loop, handshake, relay | loads the saved state once, at its start |
| Host, `internal/system` | addresses bound to the interface, the engine service | `AddIPv6`, `RemoveIPv6`, `CurrentIPv6`, `RestartEngine`, `EngineActive`, detection, prefix probe | `ip`, `systemctl`, `curl` |
| Installer, `install.sh` | unit files, nginx, certificates | stop, bootstrap, repair, rotate, start | all of the above |
| Page, `web/` | what the browser shows | polls the summary, loads a list, posts requests | HTTP server |

What is hard here:

* **Two locks and no lock.** `Service.mu` serialises everything that rewrites
  the state, `checkMu` the scan bookkeeping. A scan takes `mu` twice, probes
  for minutes in between, and writes the text lists after it has released it.
* **Two processes, one set of files.** While a request waits for `systemctl
  restart`, systemd runs `prepare` in another process, which rewrites the same
  configuration file and lists from the saved state and binds the same addresses.
* **Undoing.** A request changes five things (addresses, configuration file,
  state file, engine, lists) and has to undo them when any step fails, in the
  context of a client that may have gone away.
* **Crashes.** The dashboard, the engine and the host restart at any moment;
  only files survive, and addresses do not survive a reboot.
* **Backup.** The state file may be damaged; one earlier copy exists.

What makes each component correct:

* scans: one current scan at most, always cancellable; results never contradict
  the configuration; nothing stays "checking" without a reason; every scan ends;
* requests: all or nothing, and the answer says which; the engine ends up with
  the saved configuration and has its addresses; every request is answered;
* store: a save is atomic, nothing saved is lost, a damaged file is recovered;
* allocation: no port or address twice, a refused request changes nothing;
* engine and checker: slots are given back, a healthy proxy is seen as healthy.

`PROJECT.json` lists the hazards line by line with the properties that cover
them, and maps every definition to the code it models.

## Modules

| Module | Contents |
|---|---|
| `HealthScan` | the dashboard process: requests, scans, locks, restarts |
| `HealthScanProofs`, `HealthScanStatusProofs` | theorems about its bookkeeping and locks, and about the statuses it saves |
| `ConfigApply` | `applyCandidate` and its rollback against `prepare`, systemd and the engine |
| `AtomicApply` | what a configuration request promises: all or nothing |
| `ConfigRefinement` | `ConfigApply` with the refinement mapping to `AtomicApply` |
| `ConfigApplyProofs` | theorems about the invariants of `ConfigApply`, and that it implements `AtomicApply` |
| `StateStore` | the state file and its backup, several writers and processes |
| `DurableCell` | what the store promises: one durable value |
| `StateStoreProofs` | theorems about `StateStore`, the refinement among them |
| `CheckPool` | the goroutines of one scan: workers, feeder, collector, retries |
| `CheckPoolProofs` | theorems about it, the refinement among them |
| `ProbeRound` | what a round of probes promises, and `HealthScan` assumes |
| `Engine` | listeners, connection slots, handshake, relay, shutdown |
| `SocksCheck` | the checker's SOCKS client, composed with `Engine` |
| `SocksCheckProofs` | theorems about both |
| `Allocation` | allocation, address arithmetic, rendering checks, lists, import: operators only |
| `Installer` | bootstrap, probe, import, rotation, reruns, next to the dashboard; uses `Allocation` |
| `AllocationProofs` | what its operators compute: address arithmetic, allocation, lists, import |
| `InstallerProofs` | theorems about what reruns, requests, rollbacks and the probe leave behind |
| `MC*` | each of them for TLC: symmetries |

Definitions that begin with the comment *Mutant of* are not part of a
specification. Each is a plausible bug in the definition that follows; putting
it in that one's place makes TLC report the property it is listed with in
`PROJECT.json`, which shows that the property depends on that code.

### HealthScan

One action is one critical section, or one step between two of them that another
goroutine can observe. `state` is the saved file: mode (absent, enabled,
disabled) and status of every port, and `NextPort`. A port identifies a proxy,
since `NextPort` only grows; used ports and addresses, credentials and times are
abstracted away. `mu` names the request that is inside `applyCandidate`; a scan
takes `mu` only for single steps. What `applyCandidate` does to the host appears
as a choice: it commits (`CommitFull`, `CommitLive`), rolls back (`Rollback`, ...)
or gives up before saving (`Refuse`). A scan is a goroutine with the snapshot it
marked (`MarkChecking`), the results of the worker pool (`Probe`, `Retry`), the
merge into the latest state (`ApplyResults`) and the two list writes. `scan`
entries are goroutines, so a cancelled scan keeps running next to its successor,
as in the code. `Restart` clears everything but the files.

The outcome of a probe is a free choice, cancelled or not: `Probe` abstracts the
worker pool, and `CheckAll` looks at the context once, when the pool has drained.

History variables: `passed` (ports that some check found alive) and `cut` (ports
marked by a scan that wrote no result).

### ConfigApply

One action is one command, file write or save of `applyCandidate`, of its
rollback, and of `prepare`. `op` is the request in its critical section (there is
one at a time, by `mu`) with its local variables: addresses added, the old file
and whether it could be read, whether the state was saved, whether the restart
was already repeated. `eng` is the service as systemd sees it: phases of
`prepare`, the forked process that has not loaded the state yet (`boot`), and the
running engine with the configuration it loaded (`snap`). `job` is the restart
job that `systemctl` waits for: of type simple, it succeeds as soon as the engine
is forked. `samePID` stands for the PID comparison of `EngineActive`.

The request's context is part of `op`. A cancelled context starts no command any
more, but kills neither the job nor the engine. Commands that are killed while
running count as cancelled just before or just after they took effect.

`FaultKinds` selects what may go wrong: unreadable and unwritable files, failing
commands, a cancelled context, failing rollback steps, a dying `prepare` or
engine, a crash of the dashboard, a reboot. Engines restart on their own
(`Restart=always`). A proxy in `Outside` was imported with an address that is not
in the prefix: every `prepare` that has to bind it fails, for ever.

History variable: `lost` (a rollback was incomplete, or a crash prevented it).

`AtomicApply` is the promise: the configuration changes in one step or not at
all, and the outcome says which; only a crash may leave either, silently.
`ConfigRefinement` maps: while a request runs, the configuration in force is the
one it found.

### StateStore

The state is the set of changes it contains; each writer makes one change, as a
load, a change and a save. One action is one load, read, or atomic replacement.
Writers of one process exclude each other (`Service.mu` and `Store.mu`), those of
different processes do not. A process may be killed between any two steps, a read or a
write may fail, the state file may become unreadable. A read that fails ends a
load (`LoadState`), but not a save: the save goes on without a backup (`ReadOld`,
`store.go:94`).

`DurableCell` is the promise: one value, replaced as a whole by a write that is
under way, or not at all. It is promised as long as nothing damages the file
from outside; `NoLostUpdate`, `BackupIsPrevious` and `RecoversOnce` are promised
to the writers of one process (`OneProcess`).

History variables: `previous` (what the last save replaced) and `skipped` (that
save kept no copy of it). After a skipped backup `BackupIsPrevious` promises
nothing, and `RecoversOnce` that something can be loaded, not which copy (finding
16).

### CheckPool

`chk` is where each worker stands, and `Main`, which collects the results and
checks the failures again. The channels are unbuffered, so that a send and its
receive are one action: `Hand` (feeder to worker), `Collect` (worker to
collector). `Drained` is the end of the range over `results`, which the feeder
closes when all workers have left; there the context is consulted, once.
`ProbeRound` has the two steps that `HealthScan` takes instead, `Probe` and
`Retry`; the mapping shows results only when the pool has drained.

### Engine and SocksCheck

A connection is one record with both ends: `srv` is where the engine's goroutine
stands, `said` and `reply` the one message under way in each direction (the
handshake takes turns), `cli` and `ups` the ends of the client and of the
upstream, `up` and `down` the two copying goroutines. `slots` is the channel
`connections` of each listener. Greeting and credentials are one message, and so
are the bytes of a request: what splits them on the wire is a peer that is
silent for a while, which the model has. Deadlines pass at any time
(`HandshakeFails`), accept may break (`LoopBreaks`), SIGTERM may come
(`Terminated`), a dial may fail. `served` is chosen once per proxy: whether the
engine has loaded what the client believes, another password, another address,
or nothing for it.

`SocksCheck` adds the goroutines that check proxies. A check is `checkEndpoint`
message by message, `AfterFailure` its fallback endpoint and its next attempt. A
check's deadline (5 or 12 seconds) is shorter than the engine's (20), so the
check leaves first. Other clients connect, authenticate, fall silent, half-close
or leave as they like.

History variables: `why` (what ended a connection) and `blamed` (proxies whose
check failed with nothing of that kind).

### Allocation and Installer

`Allocation` has an address as a number and its text as the number together with
whether it is spelled as `netip` prints it; user 0 is a name, or a password, that
does not validate. `AddOffset` is the loop over digits with its carry, in radix
`Radix`; the free ports and addresses are the sets from which `Allocate` takes
the smallest, which is what its loops find. `FormatList` puts each proxy at the
place that the number of proxies before it says; of two with one port, which only
an older setup can have, the earlier one comes first (`sort.Slice` leaves that
open).

`Installer` runs `install.sh` from `bootstrap` on: load, detection, probe, import,
save, lists; stop of the dashboard; restart of the engine (`RestartEngine`);
`repair` (`RepairStarts` to its save, `RepairEnds`); `rotate-token`; restart of
the dashboard. Each of them may fail (`Fail`), and the script can be run again,
next to the dashboard of an earlier run. The script ignores a stop that fails: the
dashboard then serves on until the last step restarts it. `Killed` is what a stop, a
restart and a death of the dashboard (`DashboardDies`; systemd brings it back)
have in common: the request and the scans under way are gone where they stand.

`req` is what holds `mu` in the dashboard. A request is its load, candidate, checks
and addresses (`RequestStarts`), its save, and its end: success; the return without
undoing anything (`RequestGivesUp`); or the rollback, whose save of the original
(`RequestFails`) and whose restart, list and removals (`RequestUndone`) are two
steps, each of which may fail in part, since the code ignores their errors. A scan
holds `mu` for its load and save (`ScanLoads`, `ScanSaves`), takes the proxies
it saved along (`late`), and writes the list of them at any later time
(`ScanWrites`), as no lock is held there.

The engine may start at any time (`EngineStarts`); `prep` is what its `prepare` has
loaded, and `PrepareWrites` writes the list of it, before or after the step of a
request that it belongs to, unless a later restart kills it. The steps between,
and the engine, are in `ConfigApply`.

The load and the save of a rotation are one step (`SetToken`). `proxy-manager
check` by hand is another process that loads and saves, as in finding 9; it is not
part of this module.

`setup` is what the first run finds: routes, bound addresses, an older list and
the services of an older configuration.

History (`hist`): the proxies last acknowledged, the ports ever acknowledged, the
last announced token, the addresses bound before the probe, and five marks, each
of which stands for something the code gets wrong.

* `overlap`: two processes were between a load and a save at the same time
  (finding 10).
* `raced`: another process was there when the last token was saved, which it may
  undo (finding 10).
* `lost`: a rollback could not save the original (finding 17).
* `behind`: the text list was left, or written, with other proxies than those saved.
* `again`: bootstrap imported after the first installation (finding 15).

The properties are about everything else, and two of them say something of the
marked histories too: `NothingLost`, that there is no late import but of a list
left behind, and that a list left behind does no harm until it is imported;
`TokenOpens`, that in a race an earlier token may be put back, but never none and
never one that nobody was told.

## Runs

| Run | Expect | Shows |
|---|---|---|
| `scan_safety` | pass | the bookkeeping of scans, consistency of statuses, and isolation of requests, in every interleaving of two requests, the scans they and the startup launch, and one failed write or restart |
| `scan_live` | pass | every scan stops being reported, every request is answered |
| `scan_stale` | violation | results of an older configuration are written after all |
| `scan_lists` | violation | text lists fall behind the state for good |
| `apply_safety` | pass | success means served; failure means restored; the engine keeps its addresses |
| `apply_atomic` | pass | `ConfigApply` implements `AtomicApply`; requests end; the engine comes back |
| `apply_cancel` | violation | "previous configuration was restored" is said while the engine serves the other one |
| `store_cell` | pass | crashes, failed reads and writes, and damage: an atomic, durable value; in one process no lost change, the backup is the previous copy unless the save could not read it, damage is recovered |
| `store_twice` | violation | damage followed by an interrupted save loses both copies |
| `socks_probe` | pass | slots are accounted for and given back, results are right, every check ends, the engine stops |
| `pool_round` | pass | the pool of goroutines implements one round of probes, without deadlock |
| `install` | pass | saved proxies and bound addresses survive reruns, failures, kills and rollbacks, except as the findings say; deleted proxies do not come back, ports and addresses are not shared; the dashboard opens with an announced token; address arithmetic |

### Bounds

* `scan_*`: two handlers and two POST requests; with the scan of the startup that
  makes up to three scans at once, which is what the hazards need: one that is
  late, one that is cancelled, one that is current. Two ports, one of them
  created during the run; the two violations need two proxies to begin with and
  have three ports. One port suffices for liveness, which is about program
  counters and locks. `RetryLimit` is 1 in place of 1000: one failure is
  retried, two are not. `MaxFaults` counts failed writes and restarts; each of
  the properties is about what one of them leaves behind.
* `apply_safety`: two interchangeable proxies and one outside the prefix, in
  every initial mode; two requests, so that the second meets what the first
  left; three faults (the first engine start, its retry, a step of the rollback).
  `apply_atomic`: two proxies, two requests, two faults, reboots included.
* `store_*`: four writers in one or two processes; three make the shortest
  history in which a backup is overwritten twice. Two crashes, failures and
  damages at most.
* `socks_probe`: one listener with one slot, one check, and one other client, two
  connections at a time: the other client takes the slot before the check, is in
  its way, or leaves while it runs, and the connection of an attempt that was
  given up may still hold the slot when the next one dials. Listeners share
  nothing but the process, so one of them shows all there is to show.
* `pool_round`: two workers and three proxies, so that a worker is handed a
  second one while the other is still busy; at most two failures are retried.
* `install`: of runs of the installer, requests and rotations three together
  (`MaxEvents`; two requests or rotations at most, of up to two proxies each), and
  one scan that has not written its list yet. Deaths of the dashboard, starts of the
  engine and failures of any step are not bounded. Three events are the length of
  the shortest history of each kind: an installation, a delete that is killed, or
  undone in part, or overtaken by a late list, and a further run that imports; an
  installation, a create, and a run next to its rollback; an installation, a
  request, and a rotation in the middle of it. With four events the run does not
  finish in five minutes; the theorems are about any number of them.
  Eleven kinds of
  hosts; ports 3 to 5 for allocation and 6 for the keepalive listener, so that
  ports run out; 16 addresses of four binary digits, prefixes of one to eight addresses,
  one of them at the end of the address space. The probe looks at two addresses
  instead of 4096. `AddOffset` is compared with addition for every address and
  every offset up to twice the address space.

Every bound is a constant that guards an action; no run uses a state constraint.
Handlers, proxies, writers and processes are symmetric where no temporal property
is checked; `store_cell` checks a refinement, without liveness, under symmetry.
When everything is done and the bounds are used up the models stutter (`Rest`),
so deadlock stays checked: any other state without a successor would be an error.

### Fairness

`HealthScan`: weak fairness of every goroutine's next step. The Go scheduler runs
what can run, `sync.Mutex` hands the lock to a waiter that starves, and the steps
that hold `mu` end: commands and probes have time limits. Weak fairness is enough
because a bounded number of requests cannot keep `mu` busy for ever. Nobody is
obliged to send a request or to fail.

`ConfigApply`: weak fairness of the request's next step and of the engine
service's (systemd starts it again, `Restart=always`, and has no start limit to
reach with three seconds between starts). No fairness for faults, new requests or
departing clients.

## Proofs

All for every value of the constants, from the named assumptions of the modules
(bounds are natural numbers, a scan slot for every request, at least one worker,
one slot, one proxy in the engine's list; the probe looks at one address at least;
the first run finds routes and addresses of the address space, a list of entries
as `ParseList` accepts them and services with one address each; a radix of two at
least, one digit, and ports in order, the lowest of all, the first and the last
that are handed out).

* `HealthScanProofs!TypeCorrect`: `TypeOK`, by induction over the actions.
* `HealthScanProofs!ScanControlled`: `ScanControl`. It is not inductive by
  itself: a scan that ends compares its number with `checkID`, so one needs to
  know that numbers never repeat. `ScanInv` adds `IDsOrdered`: running scans have
  numbers that do not exceed `checkID`, and different ones.
* `HealthScanProofs!ScansKeepConfiguration`: `OnlyRequestsReconfigure`.
* `HealthScanProofs!CandidatesAreIsolated`: `CandidateIsolated`, from `LockInv`:
  a request between its load and its release is the one that holds `mu`.
* `HealthScanStatusProofs!StatusAgrees`, `LiveEvidence`, `CheckingIsExplained`:
  one inductive invariant, `StatusInv`. `Good` says the three things of a state;
  they have to hold of what a request may roll back to as well (`OriginalsGood`:
  the explanation of a mark cannot go away while `mu` is held, because a scan
  writes only when it is free), and of what a scan is about to write
  (`ResultsGood`: its successes were seen, its list is backed by them, and after
  the first round it has a result for all it marked).
* `ConfigApplyProofs!TypeCorrect`, `SuccessIsServed`, `FailureIsRolledBack`,
  `EngineStaysBound`: one inductive invariant, `ApplyInv`, in four parts next to
  the types. `SavedInv` says which configuration is saved by how far the request
  has come. `EngineInv` says when the engine and a `prepare` under way follow the
  saved state (`Follows`): always outside a request as long as nothing was lost,
  and from the restart on the candidate; in between, a `prepare` that loaded the
  old state may still rewrite the file, and the restart kills it. `CandidateInv`
  says what `prepare` has redone by then, so that a second look that finds the
  engine up finds the files right. `BoundInv` keeps the addresses that a removal
  may touch apart from those of the engine; `EngineStaysBound` assumes that the
  host does not reboot (finding 7).
* `ConfigApplyProofs!AtomicImplemented`: `ConfigApply` implements
  `AtomicApply` if no step of a rollback itself fails. The step that answers a
  request is `Commit`, `Abort` or `Crash`, by `SavedInv`; the rest stutters.
* `StateStoreProofs!TypeCorrect`: `TypeOK`.
* `StateStoreProofs!CellImplemented`: as long as nothing is damaged from outside,
  `StateStore` implements `DurableCell`. Init maps to Init; each step maps to
  `Propose`, `Write`, `Drop` or a stutter; `Sound` (the file parses) is the
  invariant.
* `StateStoreProofs!NoUpdateLost`: one process loses no saved change. The
  inductive invariant says that busy writers exclude each other, that what a
  writer is about to save contains what is stored (`UpToDate`), and that the
  changes of finished writers are stored (`Kept`).
* `StateStoreProofs!BackupKept`, `OneDamageRecovered`: `BackupIsPrevious` and
  `RecoversOnce`. `BackupInv` follows the two replacements of a save: the bytes
  read are those of the file, then the backup equals the file, and when the file
  is replaced that is what it held before (`Copied`), unless the file could not be
  read: that save is marked, and leaves the older backup as it was. Damage that comes when
  nobody saves leaves the backup good (`Recoverable`); a save that goes on after
  it either replaces the file or counts as interrupted.
* `CheckPoolProofs!TypeCorrect`: `TypeOK` with the cardinality in it: a proxy
  without a result is with exactly one worker. The invariant `PoolInv` says who
  has which proxy (`Owned`, `Pending`), that workers leave only when everything
  was handed out (`Phases`), and what the retry pass is about (`Retries`).
* `CheckPoolProofs!RoundImplemented`: the safety part of `ImplementsProbe`. When
  all workers have left, every proxy has its result (`AllCollected`), so that
  `Drained` is `Probe`; the last `Rechecked` is `Retry`; the rest stutters.
* `SocksCheckProofs!TypeCorrect`, `SlotsAreAccounted`, `LiveIsServed`: one
  inductive invariant, `CheckInv`. `Counted` follows through every way a
  connection ends: `Accept` adds one to slots and connections, `Release` takes
  one of both, an exit clears both, and no other step changes what is counted.
  `Waited` keeps the checks' connections apart. `Evident` carries the evidence
  through the handshake: a connection exists only for an active proxy, is past
  the handshake only with the right password, and the reflector has seen the
  address, so that a result "ok" has all three behind it.
* `SocksCheckProofs!FailuresAreExplained`: `FailureExplained`, from `Tracked`:
  client and engine take turns, so that as long as nothing has gone wrong the
  connection of a waiting check holds exactly the next thing to expect
  (`OnTrack`), at each of the three turns of the client.
* `AllocationProofs!AddOffsetIsAddition`: the loop of `AddOffset` is addition for
  any radix and width, with the error exactly where the sum does not fit. The
  induction over the digits says that digits written so far plus carry times the
  weight of the next digit are the sum (`NextDigit`). The same module proves what
  the other operators do: `AllocateCreates` (new ports and addresses are unused,
  in range, all different), `WithoutKeeps`, `FormatListEntries`, `ImportedList`.
* `InstallerProofs!TypeCorrect` and the theorems below: one inductive invariant,
  `IInv`, whose parts are proved in the order in which they need each other.
  `TypeInv` has the types, and that the ports of every list that may be imported
  are known. `Flow` is the order of steps: the dashboard serves only an installed
  state, with a prefix and a token, and requests and scans exist only next to it.
  It may well run from its stop to its restart, as the stop may fail. `Agreed` says
  what the saved state and every copy of it have in common as long as no two
  processes overlapped and no original was lost.
* `NothingIsLost` from `Acked`: what was last acknowledged is saved, or is what a
  rollback brings back; and from `Synced`: when no request has still to
  write it, the list shows what is saved, unless it was left behind, so that
  bootstrap finds it empty when there are no proxies.
  `Synced` is inductive only together with `Agreed`: bootstrap looks at its own
  copy.
* `NothingIsShared`, `StateStaysRenderable`: `Good`, every copy of the state is
  sound. A request's candidate consists of old proxies, changed in their mode
  alone, and of new ones above `nextPort` and at unused addresses (`Derived`,
  `SoundDerived`); an import is what the first run found (`First`), as long as it
  happens there.
* `PortsAreGivenOnce` from `Handed`: every port ever acknowledged is below
  `nextPort` of every copy that may be saved, what a rollback restores included.
* `AddressesAreServed` from `Serving`: a request takes no bound address for added
  (`AddedIsNew`), a delete unbinds none that is still used (`UnboundIsUnused`).
  Both need addresses in canonical spelling, which `Good` carries along. A rollback
  may remove what it takes for added only when the original is saved again, which
  is where `lost` comes in.
* `LastTokenOpens` from `Tokens`: every copy of the state that may be saved while
  there is a dashboard has a token that was announced, and the last one unless
  that one was raced. `ProbeLeavesNoTrace` from `Probed`: a prefix is
  saved once there is a dashboard, so that nobody else is at work during a probe
  (`ProbesAlone`), and the address tried is the first free one of those looked at.

Induction over numbers, and functions defined by recursion over them, are not in
the prover's library in a form it can use; `AllocationProofs` derives both from
`Least`, that a set of natural numbers has a least element, with sets of numbers
in place of predicates.

Only model-checked: the liveness properties (`ScanEnds`, `RequestEnds`,
`EngineReturns`, `CheckEnds`, `SlotReturns`, `ChecksLeaveNoConnection`,
`EngineStops`, and the fairness in `ImplementsProbe`), which are out of the prover's
reach together with ENABLED. Every other property of a passing run is a theorem.

## What the models found

Disagreements between the code and what the repository says of it; the first four
are runs:

1. `stopCheck` says that older results are not written after a mutation
   (`service.go:405`). The context is consulted once, before the retry pass and
   the wait for `mu`. Run `scan_stale`. Statuses stay consistent with modes.
2. `CheckAll` writes the lists after releasing `mu` (`service.go:512`): a deleted
   proxy can stay in `/root/proxies.txt`, a disabled one in the live list. Run
   `scan_lists`.
3. The rollback uses the context of the request (`service.go:337`): if the client
   has left, the engine is not restarted, although the error says that the
   previous configuration was restored. Run `apply_cancel`.
4. `saveLocked` copies a damaged file over the good backup (`store.go:94`). Run
   `store_twice`.
5. A disable or delete cancels a running scan, but starts none: the other proxies
   it had marked stay "checking" until somebody starts a scan. `CheckingExplained`
   says that this is the only way, next to restarts and failed saves.
6. The early returns of `applyCandidate` at lines 313 and 345 leave the addresses
   bound that it had added.
7. After a reboot a repair binds the saved configuration's own addresses; if its
   restart then fails, the rollback removes them again, under the engine that
   serves them. `BoundWhileRunning` is therefore checked without reboots.
8. When the old configuration file could not be read, the rollback restores the
   state but neither the file nor the engine (`service.go:335`). `RolledBack` and
   `ImplementsAtomicApply` promise nothing after it (`lost`).
9. The locks are those of one process: `check`, `bootstrap` or `rotate-token` in
   another one can overwrite what the dashboard saved in between (`store.go:62`).
10. The installer does exactly that: it runs `bootstrap` (`install.sh:107`) while
    the dashboard of the earlier run still serves (it is stopped at line 170).
    Bootstrap saves the state it loaded (`service.go:63-106`), whatever was saved in
    between: a proxy that a request created then is gone, a deleted one is back,
    although `install.sh:300` promises that nothing saved is deleted. A token that
    was rotated by hand during a request, a scan or a bootstrap, or by the installer
    next to a dashboard that did not stop, is undone by the save of the other
    (`service.go:333` for a rollback): the URL just printed does not open the
    dashboard, an earlier one does. `overlap` and `raced` mark these histories.
11. `bootstrap` accepts what later steps refuse: when an imported configuration
    has two proxies that `renderConfig` will not render together, `prepare` fails
    each time, and every run of the installer ends with the dashboard stopped. An
    imported port 65534 leaves no port to allocate. Lines of an older list
    whose port has no service in the older configuration are dropped silently.
12. An imported address that is not spelled as `netip` prints it is not recognised
    as used (`allocate.go:67`) or as bound (`service.go:315`): the next create may
    give the same address to a second proxy, and a request that fails removes it
    from the interface. `NotShared` and `ServedWhileUp` speak of addresses in
    canonical spelling.
13. The relay has no deadline (`server.go:133` lifts it): a client or upstream that
    falls silent without closing holds its slot for ever. `SlotReturns` is about
    every other connection.
14. After 4096 candidates in use the probe goes on with the last one, adds it
    without effect and removes it (`host.go:162`), under whatever uses it.
    `ProbeHarmless` is about probes that found a free one.
15. Bootstrap imports whenever no proxies are saved (`service.go:89`), while
    `README.md:61` speaks of the first installation. The list it reads is by then
    the one the program writes itself. When the last proxies were deleted and that list was left behind,
    the next run of the installer imports the deleted proxies again, although
    `README.md:14` calls a delete permanent. The model has these ways to leave it
    behind: the dashboard dies, or is stopped, between a request's save and its
    list; a rollback cannot write the list, or runs before a `prepare` of the
    candidate has written its own and, for a client that has left, restarts
    nothing; a scan, or a `prepare`, writes late; a bootstrap, or a `repair`,
    writes the list of a copy that another process has replaced. On a host
    without an older configuration the run fails instead, and so does the next: "could
    not find matching 3proxy service mappings" (`service.go:571`). `again` and
    `behind` mark these histories; `NothingLost` says that a list that was never left
    behind is never imported late.
16. A save that cannot read the old state file makes no backup and succeeds all the
    same (`store.go:94`): the backup is then older than "the previous state", and a
    later recovery from it loses more than the last save. `skipped` marks it.
17. The rollback ignores the errors of its own steps. When the original cannot be
    saved (`service.go:333`), the refused candidate stays saved: a change that was
    answered with an error takes effect, and the lines that follow remove the
    addresses the request had bound (`service.go:340`), under its enabled proxies,
    until the next `prepare`. `lost` marks it, in `Installer` as in `ConfigApply`.
    A list that cannot be written (`service.go:339`) is one of the
    ways of finding 15.
18. The installer ignores a stop that fails (`install.sh:170`), while the comment above
    it (`install.sh:167`) keeps the dashboard stopped during the repair: requests,
    scans and the rotation then overlap with `repair` and `rotate-token`, with the
    consequences of finding 10.

## Not modelled, and why

The text of generated files, JSON, headers: layout; the refusal of a list line
that does not parse. The web page: it keeps nothing, but its requests may be
answered out of order, so that a slow answer to an earlier `list` or `summary`
request overwrites a later one (`web/app.js:17-23`, `52`) until the next poll. The parsing
of `ip` output and the detection of the public IPv4 address. The installer's
downloads, nginx, certificates, firewall, and a reboot after it failed; the
release workflow: I/O without state of the program. Power loss below `rename`
and `fsync`, and Windows' fallback in `writeAtomic`.

## Plan

Done: every component that keeps state, their composition where they interact,
three abstract specifications with refinements, and the theorems above: every
property that TLC checks without fairness is proved. What could follow: a
composition of `HealthScan` with `Installer` that has the statuses as well, and
the parsing of list lines.

## Running

    tlc -config HealthScan_safety.cfg MCHealthScan.tla
    tlapm HealthScanProofs.tla

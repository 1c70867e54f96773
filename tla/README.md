# PortBridge: a TLA+ verification project

PortBridge forwards TCP and UDP ports, either in the kernel (nftables DNAT,
optionally with flowtable offload) or in Go. This directory models the parts
of it whose correctness depends on the order of steps of several actors: the
nftables backend with its recovery file and conntrack revocation, the
port-range arithmetic it rests on, the TCP and UDP admission budgets, the life
and the stop of a TCP runner, the expiry of UDP sessions, the proof that other
programs' hooks do not stand in the way of offload, the manager that divides
rules between the kernel and Go, the control plane that edits the configuration
and puts it in force, and the traffic collector.

## Inventory

| Component | State | Operations | Talks to | What is hard |
|---|---|---|---|---|
| nftables backend (`nft.go`, `nft_reconcile.go`, `nft_recovery.go`, `nft_state.go`, `nft_journal.go`, `nft_firewall.go`) | applied fingerprint, active / pending / suspended specs, recovered and unknown flags | `Healthy`, `Replace`, `Delete` | the `nft` command, the recovery store, conntrack, the manager | a crash between any two commands, a timeout after a commit, two transactions around a revocation |
| recovery store (`nft_disk_linux.go`, `nft_boot_scope_linux.go`) | one record (boot, phase, confirmed paths), an archive of the previous boot's record | `begin`, `prepare`, `checkpoint`, roll-over | the backend | rename done but sync failed; a reboot; an archive with no record |
| conntrack revocation (`nft_conntrack.go`) | none | list, delete, list again | the `conntrack` command | entries that come back, a missing tool |
| manager (`manager.go`, `manager_nft_state.go`) | Go runners, key of the last applied NFT plan, per-rule status | `Apply`, `Refresh`, `Stop`, `Runtime` | plan, backend, runners, web | which Go path may listen while a kernel path is not known to be gone |
| plan and DNS (`plan.go`, `resolver.go`) | last resolved addresses | `buildPlan` | the manager | answers that expire, change or are rejected by policy |
| budgets (`budget.go`) | process, rule and source counters for TCP and UDP | `reserveTCP`, `releaseTCP`, `reserveUDPPacket`, roll-back, cleanup | TCP handlers, UDP workers | several counters and no common lock |
| TCP runner (`tcp.go`, ...) | listeners, active connections | accept, dial, two copies, idle monitor, stop | budgets | stop against a late accept or dial |
| UDP worker (`udp.go`, ...) | sessions by flow and by descriptor, expiry wheel | read batch, responses, maintain, cleanup | budgets | lazy re-queueing, clamped catch-up, wall clock |
| configuration store (`internal/config`) | configuration and revision, file | `Update`, `RotateAdminToken` | web, main | lost updates, two files in one transaction |
| web server and operations (`internal/web`) | operations, change lock, ACL, limiters | handlers | store, manager | the refresh loop runs outside the change lock |
| external hook proofs (`nft_firewall.go`, `nft_empty_hooks_linux.go`, `nft_transparent_accept_linux.go`, `nft_selective_acl_linux.go`) | none | one check: list the chains, read the ruleset twice | the `nft` command, the backend | another program edits its rules between two reads; one flow looks different at each hook and priority |
| telemetry (`telemetry.go`, `nft_telemetry.go`, `tcp_meter.go`) | totals and baselines per rule | sample, update | manager, backend, kernel counters, stats | reads without locks while the table is replaced; counters that restart; an estimate that gives way to an exact count |

What makes each correct: a kernel path is admitted only where no connection
of an earlier target lives; a reported success means that the old connections
are gone; what is not gone is reported; a revocation touches only what the
administrator dropped, or what had to be withdrawn without a record; after
faults stop the refresh converges; ranges are
handled exactly port by port; counters equal their holders and respect their
limits; nothing is leaked when a step in the middle fails; a Go listener never
accepts where the kernel still forwards, and nothing that forwards is shown as
stopped; only what no skipped hook could have dropped is offloaded; no byte is
counted twice.

## Modules

* `NftBackend.tla` -- the backend, its recovery file, conntrack and the part
  of the manager that calls it.
* `PortRanges.tla` -- the interval loops behind the single-port operators
  `Retired`, `Gate` and `PreviouslyAdmitted` of `NftBackend`.
* `TcpBudget.tla` -- `reserveTCP` and `releaseTCP`.
* `TcpRunner.tla` -- accept loops, handlers, copies and stop of a Go runner.
* `UdpBudget.tla` -- source entries, sessions and memory of the UDP workers.
* `UdpWheel.tla` -- the expiry wheel of one UDP worker.
* `ControlPlane.tla` -- the configuration store, the web handlers that change
  it, the operation log, the refresh loop and the start of the process.
* `TcpAdmission.tla` -- what the TCP budgets promise, in single steps;
  `TcpBudget` implements it.
* `HookAdmission.tla` -- one check of the hooks of other programs; its result is
  the set of rejected families that `NftBackend` takes as an input.
* `Manager.tla` -- the manager, its plan and its DNS cache, on top of
  `NftBackend` (it extends it and takes its steps while an `Apply` runs).
* `Telemetry.tla` -- the traffic collector.
* `MC*.tla` -- the instances TLC checks. `*Proofs.tla` -- the theorems.

### NftBackend

One forwarding path is one port of an `nftRuleSpec`: a rule, a listen scope
(which covers one ingress point, or several for a wildcard), a target, a
family and the flowtable flag. The managed table is the snapshot of its own
journal chain: active paths, paths awaiting retirement, suspended paths. The
variable `mem` holds the fields of `commandNFTBackend`, `call` the locals of
the running `Replace`, `disk` and `archived` the recovery files, `done`
the manager's key of the last plan applied without error. The steps of a call
are the points at which another actor can be seen to intervene: each external
command, each file write and each readback is an action, with its failure as
another:

| Code | Actions |
|---|---|
| `Manager.reconcileNFT`, `Healthy` | `Reconcile`, `AlreadyHealthy`, `HealthFails`, `Replace` |
| `nftStateStore.begin`, `verifyNewBootScope` | `BeginCurrentBoot`, `BeginRollover`, `BeginFails` |
| `recoverKernelState` | `RecoverUnchanged`, `RecoverHistory`, `RecoverUnverified`, `RecoverFails` |
| `Replace`, gates | `Admit`, `AdmitNothing`, `AdmitUnreadable` |
| `replaceObjects` | `ObserveFails`, `SkipApplied`, `Prepare(Fails)`, `Apply(Fails)`, `Verify(Fails)`, `Checkpoint(Fails)` |
| `revokeNFTConnections` | `RevokeNone`, `RevokeDelete`, `RevokeRelist`, `RevokeFails`, `RevokeDone` |

The environment opens and closes connections, installs the conntrack tool,
changes the hooks of other programs, flushes the ruleset, kills the process
and reboots the host. `FaultKinds` says which faults a run may use and
`MaxFaults` how many; `MaxEdits` bounds the changes of the plan.

The operators `Retired`, `Gate` and `PreviouslyAdmitted` answer a question
about one port. That the code, which works on ranges, gives the same answer is
what `PortRanges` shows.

### PortRanges

The state is the list of intervals left of one spec while the loop visits the
others; `Visit` subtracts one of them, `Finish` slices the spec by what is
left. `StartMissing`, `VisitMissing`, `FinishMissing` are the second loop of
`previouslyAdmittedNFT`, which subtracts the pieces of the first result.

### TcpBudget

Every atomic addition, every compare-and-swap loop and every critical section
of `reserveTCP` and `releaseTCP` is one step of one connection, so that the
roll-backs of refused connections interleave with everything else. The
limits are constants: the process limit is stored once before the first
listener starts, and the limits of a rule change only with `runner.stop`,
which waits for every connection of the runner.

`TcpAdmission` is the abstract specification: one variable, the set of
forwarded connections, that one step enlarges only within all limits and one
step makes smaller. `AtomicAdmission` is that specification with the set
`Forwarded` of the connections at their last point. It leaves open which
connections are refused, because `reserveTCP` may refuse one for a slot that
another refused one is about to return.

### TcpRunner

One Go runner: per endpoint an accept loop, a closer and the `sync.Map` of
sockets the closer ranges over; per connection a handler (`at`), the directions
still copying and the idle monitor. `slots` are the connections that hold
their budget; how the budget decides is `TcpBudget`'s part.

| Code | Actions |
|---|---|
| `newRunner`, `runner.start`, `startTCP` | `NewRunner`, `StartTCP`, `Started` |
| `runner.stop` and the closers | `Stop`, `RunCloser`, `CloseActive`, `CloserDone`, `ClosersDone`, `Stopped` |
| the accept loop | `Accept`, `AcceptFails`, `ReserveTCP`, `Refuse`, `Handle` |
| `dialTCPBackend` | `Dial`, `DialSecond`, `Dialed`, `DialFails` |
| `handleTCPWithBackup` | `Forward`, `CopyEOF`, `CopyError`, `CopiesDone` |
| `monitorTCPIdle`, `startTCPHealth` | `IdleClose`, `MonitorEnds`, `ProbeEnds` |
| the deferred calls | `CloseUpstream`, `CloseClient`, `ReleaseTCP`, `Forget` |

`Range` visits every socket that was stored before it began and may or may
not visit one stored later, as the documentation of `sync.Map` says. A
direction notices that the socket it reads from was closed; it does not
notice that of the socket it writes to until there is something to write.

### UdpBudget

A flow moves through the points at which `newSession` and `closeSession`
touch shared state; `at[f]` names the next one, and the sets `HoldsSource`,
`HoldsRule`, `HoldsGlobal` and `HoldsMemory` say what it holds there. The
token buckets may refuse any packet, so they are a nondeterministic answer.

| Code | Actions |
|---|---|
| worker start, its listener memory, `cleanup` | `ReserveListener`, `StartWorker`, `StartFails`, `LeaveServe`, `FinishCleanup` |
| `reserveUDPPacket` | `AdmitFlow` (new flow), `SeePacket` (known flow) |
| the incremental sweep of source entries | `Age`, `Sweep` (under the shard lock), `SubtractSwept` (after it) |
| `newSession` | `ReserveSession`, `ReserveGlobal`, `ReserveMemory`, `Dial` |
| roll-back and `closeSession` | `ReturnRule`, `ReturnMemory`, `ReturnGlobal`, `RollbackSource`, `CloseSession` |

### UdpWheel

One pass of `serve` is `Wake`, any number of `NewSession`, `TouchSession` and
`CloseSession`, and then `SkipMaintain` or `BeginMaintain`, one
`ExpireWheelSlot` per second and `EndMaintain`. `now` is the wall clock, which
may be set back.

### HookAdmission

A chain of another program is its descriptor and its rules, a rule a conjunction
of matches with an accept, or anything else. `ReadChains` reads the list of
chains and decides when none is in the way; otherwise `FirstPass` and
`SecondPass` read the ruleset, and the result counts only if both, and the
list, agree. `ReplaceChain`, `EditRules` and `Traffic` are the other programs
and their packets, between any two reads. `Allowed` with `ACLViews`,
`ACLMatchAlways` and `ACLChainAccepts` is the decision; `Harmless` is what it is
compared with: concrete packets of a flow, for every client address and port, in
both directions and on both sides of address translation, are run through every
chain that an offloaded flow skips.

### Manager

`ApplyBegin` builds the plan (`PlanNFT`, `PlanGo`, with `Resolved` for the DNS
cache), stops the Go listeners that changed and calls the backend;
`BackendStep` is every step of `NftBackend` under it; `ApplyEnd` decides from
the backend's report which Go listeners may start (`GoPathBlocked`) and what
each row shows (`RowState`, `BlockedRows`, tombstones of rules nobody knows any
more).

| Code | Actions |
|---|---|
| `Apply`, `Refresh` | `ApplyBegin`, `BackendStep`, `ApplyEnd` |
| `SetDNSServers`, the expiry of an answer | `SetDNSServers`, `Expire` |
| a signal, `Manager.Stop`, the end of `main` | `Signal`, `StopBegin`, `StopEnd`, `Exit` |
| `ExecStopPost` with `--cleanup-nft` | `CleanupBegin`, `CleanupEnd` |
| death of the process or the host, start | `Killed`, `HostReboot`, `Start` |

`NothingHidden` asks that everything the kernel forwards or tracks belongs to a
row that does not read as stopped: one that runs, one whose kernel state is
something else than `inactive-verified`, or one that carries the error of the
transaction (finding 7 is why the last is needed).

An `Apply` or a refresh that was waiting for the mutex runs after `Stop`, as in
the code; only `--cleanup-nft`, run after the process has ended, makes the
state clean. Ranges of ports are the business of `PortRanges`, so a path here is
one port.

### Telemetry

A sample is `Tick` (the rules, under `TryLock`), `ReadBackend` (epoch,
fingerprint and specs, under `TryLock`), `ReadTable` and one `Dump` per family
with nothing locked, `Check` (has the backend moved?), the Go counters
(`GoBytes`, `ReadInfo`, `LoadAgain`: `meterDirection` reads `upDone` before and
after TCP_INFO) and `Update`. `Apply` appears as the steps the collector can tell
apart: `Recover`, the two transactions `Stage` and `Final`, `Revoke`, `ApplyEnd`.
A transaction that changes only the journal keeps the rules, their handles
and counters; any other gives new ones. `Requests` are what `Apply` may be asked
for: a plane for each rule, and the rules that a policy rejects. Two variables
are history: `hit` is what a rule's hook really counted since the rule was
created, `again` what its counters had whenever a transaction kept them.

### ControlPlane

Two locks order the changes. `changeMu` of the web server is held by a handler
for its whole operation; the store's lock covers one update, which changes
memory and file together or neither, or one rotation of the administrator's
token, which writes two files. The refresh loop takes neither `changeMu` nor
one lock for its three steps, so it can apply a configuration that was read
before a request and is set after it.

| Code | Actions |
|---|---|
| `main`, `LoadOrCreate` | `Load`, `LoadSaves`, `Launch`, `StartFails`, `Crash` |
| the rule handlers | `CreateRule`, `UpdateRule`, `DeleteRule`, `ReplaceRules` |
| `applyRuleOperation` | `BeginApply`, `ApplySaved`, `Observe` |
| `handleSettings` and its roll-back | `SaveSettings`, `SettingsAcl(Fails)`, `SettingsRestore`, `SettingsAclBack` |
| `Manager.SetDNSServers` | `SettingsServers`, `SettingsReapply` |
| `RotateAdminToken`, `--reset-admin-token` | `HandleRotate`, `ResetToken`, `RotateCommits`, `RotateSaveFails`, `RotateUndoes` |
| the monitoring token | `ChangeMonitor` |
| `startRefreshLoop` | `RefreshReads`, `RefreshAcl`, `RefreshRules` |

`Manager.apply` is one step here, because it holds the manager's lock; a fault
may leave a rule failed or with a kernel path that is not retired. A rule is
absent, disabled or enabled with some content; a token is a number, and its
hash the same number. A request that is refused before it changes anything
takes no step. The variables `acked`, `warned`, `swallowed` and `stale` are
history: what the answered requests add up to, whether the operator was told
that the token file is not usable, whether a failed roll-back was ignored, and
what the refresh loop last set from an outdated snapshot.

## Runs

| Run | Expected | Properties | What it shows |
|---|---|---|---|
| `nft_safety` | pass | `TypeOK`, `NoMixedAdmission`, `SuccessRetires`, `UnretiredReported`, `EventuallyConverges`, `RevokesOnlyRetired` | Two edits of the plan and two faults anywhere (crash, reboot, restored or flushed ruleset, timed-out nft transaction, failed or half-done recovery file write, conntrack failure or missing package, unreadable ruleset or hook inventory, hook policy change): no path is admitted over connections of another target, success means the old connections are gone, what is not retired is reported by every error but that of an unreadable inventory, a revocation touches only what the request dropped or a failed intent withdrew, and after the last edit and fault the periodic refresh brings the kernel to the requested plan unless an operator has to decide. |
| `port_ranges` | pass | `ExactUnits`, `SlicesUsable`, `PartsExact` | The range arithmetic of retirement, gating and retention answers exactly the port-by-port question, for ranges that touch, overlap and contain each other in any order. |
| `tcp_budget` | pass | `TypeOK`, `CountersExact`, `WithinLimits`, `AtomicAdmission`, `SlotsReturned` | Five connections of two rules interleave the lock-free steps of reserveTCP and releaseTCP: no slot is lost, none is returned twice, no limit is exceeded, to the callers each admission and release looks like one atomic step, and a refused or finished connection gives all its slots back at last. |
| `udp_budget` | pass | `CountersExact`, `EntriesKept`, `WithinLimits`, `CleanupEnds` | Packets of four flows reach three workers of two rules while sessions are refused, closed and the source table is swept in steps: the session, memory and source counters stay exact, a source in use keeps its entry, no limit is exceeded, and the cleanup of a stopped worker ends. |
| `tcp_runner` | pass | `TypeOK`, `CutOff`, `NothingLeft`, `StopEnds` | Accepts, dials with a backup, copies, idle monitors and health probes of two endpoints race with stop: no connection slips past the closers, stop leaves nothing behind, and it ends if an upstream that got the end of the client's stream ends its own. |
| `tcp_stop` | violation | `StopEnds` | Without that assumption stop can wait for ever: the upstream is stored while the closer ranges over the map, the client has already half-closed, and the idle monitor is gone with the context. |
| `udp_wheel` | pass | `ClosedInTime`, `NeverEarly` | Sessions are re-queued lazily in the expiry wheel while maintenance runs more than a turn late and the clock is set back: no session is closed before its idle time, and none outlives it past the next maintenance unless the clock was set back. |
| `control_plane` | pass | `TokenUsable`, `Acknowledged`, `OnlyRefreshDiverges`, `UnfinishedIsLive`, `EventuallyInForce` | Rule, settings and token requests, the refresh loop and process deaths interleave, with write and application failures: no answered change is lost, the token file is usable or reported, only an outdated refresh snapshot makes the running state differ from the saved one, and the saved configuration comes into force at last. |
| `hook_admission` | pass | `TypeOK`, `SoundAdmission`, `CountersAreNoChange` | While other programs edit their chains between the reads of one check, a path is declared safe to offload only when no chain its flows would skip could have dropped one of their packets; moving counters never make the check fail. |
| `manager` | pass | `NoDoublePath`, `NothingHidden`, `StoppedClean`, `EventuallyServed` | A rule moves between the kernel, a hybrid, Go and nothing while any one step fails, DNS changes and the service is stopped, killed, cleaned up after and started: a Go listener never overlaps a live kernel path, nothing that forwards is hidden, a successful clean-up leaves nothing, and the refresh loop brings the configuration into force. |
| `manager_hooks` | violation | `NoDoublePath` | With a second offloaded rule an unreadable hook inventory breaks it: the Go listener of a rule that was moved to Go starts while the kernel still forwards at the same point (finding 1). |
| `telemetry` | pass | `CountedOnce`, `HooksCountedPerEpoch`, `GoNeverFalls` | The collector samples without locks while `Apply` replaces, suspends and retires paths of two rules and commands fail: no byte of a flow is counted twice or for a rule that is gone, a hook counter is counted again only when a transaction kept it under a new epoch (finding 5), and the count of a Go connection never falls. |

Eight more configurations reproduce the findings below that are not in this
table; TLC reports a violation for each:

    tlc -config NftUnreadableHooks.cfg MCNftBackend    # UnreadableReported
    tlc -config NftLostRetirement.cfg MCNftBackend     # SuccessRetires
    tlc -config NftOffloadPolicy.cfg MCNftBackend      # SuccessRetires
    tlc -config NftResumeIntent.cfg MCNftBackend       # SuccessRetires
    tlc -config NftUnverified.cfg MCNftBackend         # SuccessRetires
    tlc -config NftWithdrawn.cfg MCNftBackend          # WantedKeepsConnections
    tlc -config ManagerInactive.cfg MCManager          # InactiveIsAbsent
    tlc -config TelemetryHooks.cfg MCTelemetry         # HooksCountedOnce

Two configurations pass and only repeat a question of the table on another
instance. `ManagerTwoRules.cfg`: the safety properties of `manager` for two
rules and two faults of any kind but an unreadable hook inventory and a
flushed ruleset, 2.2 million states. `NftLiveness.cfg`: `SuccessRetires` and
`EventuallyConverges` with one fault, where a restart may change the offload
setting.

## Bounds

* `NftBackend`: two rules, three paths, four plans. Path A on one address and
  path A on the wildcard with another target overlap in one point and differ
  in the other; B is a bystander of another family, so that a policy can
  reject one family only. Two edits are needed to drop a path and to ask for it
  again; two faults to make a call fail and the recovery from it fail too.
  `NoMixedAdmission` and `SuccessRetires` also hold with three edits and one
  fault; with three edits and two faults the second finding below breaks them.
* `PortRanges`: ports 1 to 5, all ranges of one path, and for two of them
  every way in which another spec can differ. Two visited specs can cut an
  interval into three parts, and the second cut can touch the first.
* `TcpBudget`: five connections on two rules and two sources, such that each
  of the three limits can be the one that refuses while others have room.
* `TcpRunner`: two endpoints with one connection each, so that one closer runs
  while the other endpoint still accepts; a place is used again after its
  connection ended, so the number of connections is not bounded. The
  violation needs one endpoint and one connection.
* `UdpBudget`: four flows, three sources and three workers on two rules. Two
  flows of one source meet at different workers of one rule; the limits of the
  source, the rule, the process and the memory each refuse while the others
  have room, and the limit of the entry table does during a sweep. Nothing is
  bounded but the constants: workers stop and start, and flows come and go,
  for ever.
* `UdpWheel`: a wheel of 4 slots, idle times below and above one turn, a clock
  that can jump by more than one turn and be set back 3 seconds behind the
  wheel, up to second 11, nearly three turns.
* `ControlPlane`: two concurrent requests, one rule that can be absent,
  disabled or enabled, three settings (two automatic access lists, and a
  strict explicit one with another DNS server), three changes and two faults of any kind. Three changes are one
  more than the two operations the log keeps, and enough for a change between
  the snapshot of the refresh loop and its use, followed by another; two
  faults are enough for a roll-back that fails too.

* `HookAdmission`: four ports (a range, its neighbours and a part of it), a
  TCP path over IPv4 on one address and a UDP path over IPv6 on a wildcard, a
  chain in each of forward, postrouting (at and behind the priority of reverse
  NAT) and prerouting, each from a small set of rulesets that are empty, fully
  permissive, selective in each of the matches of the grammar, or outside it; one
  edit, between any two reads. A second edit takes the state space past 20
  million states; the theorem covers any number.
* `Manager`: one rule whose wildcard path in the kernel has a loopback listener
  in Go, with the same rule forced to Go, moved to Go by a DNS answer of the
  other family, with another option, disabled and absent; two edits and one
  fault of any kind, an unreadable hook inventory included, but a flushed
  ruleset, after which only an operator may go on (`nft_safety` has it). One
  rule is the bound behind which `NoDoublePath` holds with an unreadable
  inventory: once that rule has left the kernel, the plan uses no flowtable and
  `Replace` does not read the hooks. `manager_hooks` has the second rule. A
  replacement of one kernel path by an overlapping one is left to
  `nft_safety`, where it reaches findings 2, 3 and 8.
* `Telemetry`: two rules, two `Apply` calls and every failure. Rule A has a flow
  of two bytes; rule B is suspended by a policy or removed, so that a
  transaction can rewrite the journal alone and keep A's counters. The flow is
  of the family that is dumped second, so that a dump can fail before it. One Go
  connection copies two bytes and its FIN. A counter saturates at 2.

## Fairness

`nft_safety`: weak fairness of the steps of a running call (every command
runs under a timeout, so a call always ends) and of `Refresh` (the refresh
loop of `cmd/portbridge/main.go` reconciles the current plan every 30
seconds). No fairness is assumed of clients, faults or the administrator. The
property asks for the conntrack tool to be there from some point on: without
it the backend deliberately refuses to admit what it could not revoke. It
accepts two states in which the backend, as documented, refuses to go on until
an operator restores verified ownership (`OperatorNeeded`): on a new boot a
restored ruleset or a marked connection, and a marked connection that neither
memory nor recovery file nor table explains.

`control_plane`: weak fairness of each request that is being served, of a
rotation, of the refresh loop and of the start of the service (its unit says
`Restart=on-failure`; a start after a clean stop is the administrator's). That a request ends assumes that `Manager.apply` returns, which
finding 4 shows is not always so. No fairness is assumed of new requests or
faults.

`manager`: weak fairness of the backend's steps, of the end of an `Apply` and of
the refresh loop. The service may be stopped, killed and cleaned up after at any
time; the property asks for it to be up, for the conntrack tool, for a hook
policy that allows the paths and for a DNS server that answers, from some
point on.

`tcp_budget`: weak fairness of each connection inside `reserveTCP` and
`releaseTCP` (a goroutine keeps running). A forwarded connection may live
for ever.

`tcp_runner`, `tcp_stop`: weak fairness of every goroutine that does not wait
for a peer: dials and probes have timeouts, `Accept` fails on a closed
listener, a read fails on a socket closed here. `tcp_runner` also assumes
that an upstream which got the end of the client's stream ends its own;
`tcp_stop` shows that `stop` depends on it.

`udp_budget`: weak fairness of each flow between its first reservation and
its session, and of each worker in its sweep and its cleanup (a goroutine
keeps running, and the code calls nothing there that can block). No packet is
ever promised to arrive.

## Proofs

The theorems hold for every value of the constants that satisfies the named
assumptions (`ConstantsOK`, `RangeConstants`, `BudgetConstants`,
`RunnerConstants`, `HookConstants`, `SpecConstants`, `RulesetConstants`,
`UdpConstants`, `WheelConstants`, `ControlAssumption`, `PlansOK`,
`ManagerConstants`, `ScopesOK`, `TelemetryConstants`). The assumptions give the
constants their types and little more: a limit may be any integer, also zero or
negative; a worker serves one rule, and a flow's worker serves the rule of its
source; there is at least one set of settings; the names of handlers differ
from the marks for a free lock and for the reset command; a ruleset gives each
chain its fields and each rule its matches and its verdict; an ingress point is of
one family and one plan gives it one path; enabled rules of one configuration do
not listen at a common point (`validateRuleConflicts`), two scopes that share a
point overlap, and the loopback listener of a wildcard accepts where the kernel
path does not.

* `NftBackendProofs`: `TypeAlwaysCorrect`, by one lemma per part of the state.
  `RevocationJustified` is an action property of two parts. The running
  revocation visits only what the call's pending list has (`TodoPending`). And
  each place a path can await retirement in (memory, table, recovery file, the
  locals of a call) gets its paths from another one, from what the request drops
  at the admission gate, or from the withdrawal after an intent that could not be
  written (`RevokesPending`, `MovedKeeps`, `AdmitAwaits`, `AwaitingStep`). The
  withdrawal is an exception that the code makes and finding 9 is about.

  `NeverMixed`, `SuccessAlwaysRetires` and `UnretiredAlwaysReported` are the
  three properties of `nft_safety` that findings 2, 3, 6 and 8 break for enough
  edits and faults. The proofs isolate what these findings have in common, as
  two hypotheses on a behaviour: no transaction drops the record of a path that
  memory knows as active or suspended (`HistoryKept`), and a history adopted
  while the conntrack tool is missing, which nothing verifies, accounts for the
  tracked connections (`HistoryTrue`). Whatever else is killed, flushed, half
  written or forbidden, the invariant `Retirement` holds: at each point of a
  `Replace` every path of the table and every tracked connection is accounted for
  by memory, the target of the transaction or the pending list
  (`TableInv`, `MemInv`, `AdmitInv`, `CallInv`, `PrepareInv`, `VerifyInv`,
  `CheckInv`, `RevokeInv`), the actives of a target never share a point with what
  is pending, and a return says what is left (`DoneInv`, `OutcomeInv`,
  `Reported`). The third theorem is about every error but that of a `Replace`
  which cannot read the hook inventory: that return is finding 1.

  Two theorems discharge the hypotheses. `HistoryAlwaysKept`: if no process dies
  in the middle of a call and no readback, transaction or file write fails
  (`Undisturbed`), memory, recovery file and table keep telling one story
  (`Steady`), so the hypotheses hold although rulesets are flushed, the host
  reboots, policies change and conntrack fails; `UndisturbedNeverMixed` has
  the consequence. TLC shows that the condition is exact: each of the four
  excluded kinds of faults breaks `HistoryKept` by itself when two paths
  overlap, and no other kind does. `SolitaryRetired`: if no two paths ever share
  a point, that is if a rule may move to Go, be disabled, removed and added
  again but never gets another target, and if neither a policy nor a removed
  package forbids what was allowed (`Solitary`), the hypotheses hold with every
  other fault (`SoloInv`: nothing is suspended, a target admits a part of what
  the call will admit, and before the tool was installed nothing was admitted).

  Of the Manager: `ManagerAlwaysTyped`. `StoppedAlwaysClean` has no hypothesis:
  `--cleanup-nft` starts from a new process and an empty plan, so `StopInv`
  follows that one call from what it recovers to what it has removed, for
  whatever state the process before left. `NeverDoubled` and
  `NothingEverHidden` use `Retirement`, the same two hypotheses and a third,
  `HooksRead`: no `Replace` returned because it could not read the hook inventory
  (`manager_hooks` shows that it is needed; a `Healthy` that cannot read it does
  no harm). The two planes of
  a plan never meet (`PlanesInv`), a listener runs only where the table and the
  tracked connections have nothing (`RunnersInv`), the answer of a running call
  covers what it will leave (`AnswerInv`) and every marked entry was made by a
  known path (`MarkedInv`). `SolitaryServed` has both with `HooksRead` alone.
* `PortRangesProofs`: the inductive invariant `RangeInv` says that the
  intervals left are well formed, disjoint, inside the spec, and cover
  exactly the ports not subtracted so far. `ExactUnitsAlways` then compares
  the slices with the single-port definition; `SlicesAlwaysUsable` shows that a
  slice passes the validation of the retirement code.
* `TcpBudgetProofs`: `BudgetInv` is `CountersExact` with integer types; three
  lemmas say how the set of holders follows one move of one connection.
  `AlwaysWithinLimits` adds that each positive counter is within its limit.
  `ImplementsAdmission` is the refinement: the counters, being exact and within
  their limits, bound the forwarded connections, so the step that returns true
  is an `Admit` of `TcpAdmission`, `releaseTCP` begins with its `Release`, and
  every other step is a stutter.
* `HookAdmissionProofs`: `AlwaysSoundAdmission` for every ruleset, spec and
  sequence of edits. Its core are lemmas about the decision: a match that holds
  for a view holds for every packet the view stands for, the views of a hook
  stand for every packet of a flow there, and so a chain that accepts all views
  drops no packet. The invariant `HookInv` adds what the reads have in common:
  rulesets are well formed, and the first pass agrees with the list of chains.
  `CountersNeverAChange` uses `CountInv`: until another program edits the
  ruleset, each chain of the kernel is the listed one and the one of the first
  pass, or its twin, which differs from it only in counters of rules outside
  the grammar. Such a rule keeps both chains out of every proof (`Compatible` and
  `ACLChainAccepts` are false for both), and `Descriptor` does not see it.
* `TcpRunnerProofs`: `RunnerInv` has the order of `stop` (context, closers,
  wait), what a connection has at each point of its life, and `Cutting`: a
  connection whose closer has begun and that forwards, or will if its dial
  succeeds, has a client socket that is closed or still to be visited. It needs
  that the client is in the map before its handler dials, and that no dial
  begins after the context is cancelled. `CutOffAlways` and
  `NothingLeftAlways` follow. `GoCountNeverFalls` is about the meter of a
  connection (of `Telemetry`): what the row shows is never more than
  `upLast` while the connection lives, nor than the sum afterwards
  (`MeterCovered`), and an estimate counts only if `upDone` was still unset after
  TCP_INFO was read, so that the FIN is not in it.
* `UdpBudgetProofs`: `BudgetInv` is types, `CountersExact` and `EntriesKept`,
  which carry each other: a release gives a place back only if the entry is
  there, and a sweep deletes an entry only if it counts no session. Each counter
  has its set of holders; lemmas say that a flow which moves between two points
  joins the holders, leaves them or changes nothing, and each action is
  settled counter by counter. The entries that a sweep has deleted and not yet
  subtracted are part of the count. `AlwaysWithinLimits` is an invariant of its
  own on top: a counter rises only below its limit.
* `UdpWheelProofs`: `ClosedInTime` speaks of one moment, its invariant looks
  ahead one turn. `QueuedInv` says that a session is in a slot exactly while it
  is open; `VisitInv` that the turn after `wheelSecond` visits its slot not
  later than its expiry, or later only within the running maintenance or by what
  a clock set back costs. The visit then closes the session or queues it again
  at its expiry. `VisitExists` and `ModUnique`
  are the arithmetic of the slots, for every size of the wheel. `ClockInv`
  relates the wheel to a clock that may have been set back by at most
  `MaxBack`. `AlwaysClosedInTime` and the action property `AlwaysNeverEarly`
  follow.
* `ControlPlaneProofs`: the properties speak of moments when no request is
  served, so they are not inductive. `ControlInv` says what holds at each place
  of an operation, in parts that build on each other: one handler at a time is
  in an operation and holds `changeMu` (`LockInv`); a rotation has one owner
  (`RotationInv`); file and memory agree (`StoreInv`); what a settings request
  would put back differs in the settings alone (`SettingsInv`); the token file
  holds the accepted token, or the running rotation can put it back
  (`TokenInv`); what is saved is what was answered, plus what the handler at
  work has saved and not answered (`AckInv`); what is in force at each place
  (`ForceInv`); the operations are in the order of their numbers and only the
  last may be unfinished (`LogInv`). `TokenAlwaysUsable`, `AlwaysAcknowledged`,
  `DivergesOnlyByRefresh` and `UnfinishedAlwaysLive` follow for any number of
  handlers, requests and faults and any size of the log.

Only model-checked are:

* liveness, everywhere: fairness and `ENABLED` are beyond the prover;
* `NoMixedAdmission`, `SuccessRetires`, `UnretiredReported`, `NoDoublePath` and
  `NothingHidden` where neither `Undisturbed` nor `Solitary` holds: there the
  theorems have the hypotheses `HistoryKept` and `HistoryTrue`. With enough
  edits and faults the first three are false without them. On the instance of
  `manager` and on that of `ManagerTwoRules.cfg`, both without an overlap of
  different targets, TLC finds no behaviour that violates these two
  hypotheses, with two faults and policies included. `NoDoublePath` and
  `NothingHidden` need `HooksRead` in every case, and are false without it where
  two rules are offloaded;
* `CountedOnce` and `HooksCountedPerEpoch` of `Telemetry`: the totals are sums over
  flows and samples, computed by folds, and what a fold computes for every
  input needs induction over data.

## Findings

1. *An unreadable hook inventory hides a retirement* (`manager_hooks`,
   `NftUnreadableHooks.cfg`). `Replace` computes what has to be retired, and
   returns before it records it when the hook inventory cannot be read
   (`nft_reconcile.go:234-236`). The backend then reports a verified state with
   nothing pending. When one of two offloaded rules is moved to Go,
   `goPathBlockedByNFT` finds nothing in the way and the listener starts while the
   kernel still forwards and tracks at the same point, until a later refresh
   succeeds; `docs/API.en-US.md:690` says "If an old kernel path has not been
   retired, startup of an overlapping Go path can be blocked", and
   `manager.go:276` has the message for it. When one of them is removed
   instead, its path stays in the kernel with no row that shows it.
2. *A gated path loses its record* (`NftLostRetirement.cfg`). After a timed-out
   final transaction, the next stage transaction removes a path that is active
   and still wanted from every record while its connections live; a later
   `Replace` reports success without revoking them.
3. *Offload change and policy rejection* (`NftOffloadPolicy.cfg`). A path
   recorded without offload and wanted with it, in a rejected family, is
   neither admitted, suspended nor pending.
4. *stop can wait for ever* (`tcp_stop`). An upstream stored while the closer
   ranges over the map is not closed; if the client had half-closed and the
   upstream stays silent, the download never ends and `runner.stop` holds the
   manager's mutex.
5. *Hook counters counted again* (`TelemetryHooks.cfg`). The key of a hook
   counter contains `metricsEpoch` (`nft_telemetry.go:213`), which every
   transaction raises (`nft.go:336`), also one that rewrites the journal alone and
   keeps the rules with their counters (`nft.go:305`). After such a
   transaction, for example when a suspended rule is retired, the whole
   counters of the rules that did not change are added once more to totals that
   `docs/API.en-US.md:820` calls "Cumulative observed hook counters". Nothing
   else counts them again: `HooksCountedPerEpoch`, in the run `telemetry`, bounds
   the excess by what the counters had at such transactions. The byte totals of
   tracked flows are not affected (`CountedOnce`).
6. *A resumed path is forgotten by a failed intent* (`NftResumeIntent.cfg`). A
   path that was suspended by a policy and is wanted again is in the target of the
   transaction only as active. If `prepare` fails, the withdrawal keeps what
   memory has as active and as pending (`nft.go:255-272`, with the comment "keep
   ALL old pending ownership"), and the suspended path with its connections
   is in no record any more; a later `Replace` without it reports success.
7. *"inactive-verified" after an ambiguous transaction* (`ManagerInactive.cfg`).
   When `kernel.Apply` fails after it took effect (`nft.go:306-308`), the
   backend stays initialized with its former paths. A rule that is being added
   while others are confirmed is then forwarded by the kernel, and its row says
   `inactive-verified` (`manager_nft_state.go:178-180`), with the error beside
   it, until the next refresh; `docs/API.en-US.md:759` says "No matching
   active/pending/suspended path and state evidence is verified".
8. *An unverified recovery is trusted later* (`NftUnverified.cfg`). Without the
   conntrack tool `recoverKernelState` adopts a history that it cannot verify
   (`nft_reconcile.go:91-98`). The next transaction that is read back makes the
   backend initialized, and from then on recovery takes the unchanged table for
   enough (`nft_reconcile.go:31-40`), also when the tool is there again. A path
   whose transaction was never confirmed, because the process died, and whose
   table was flushed, is then in no record while its connections live, and
   `Replace` reports success. This is why the theorems need `HistoryTrue`.
9. *A failed intent turns a suspension into a retirement* (`NftWithdrawn.cfg`).
   A policy rejects a path that is still asked for; `Replace` wants to suspend
   it and keep its connections: "never delete B's conntrack"
   (`nft_reconcile.go:251`), "B conntrack preserved but B NEW admission explicitly
   suspended" (`nft_reconcile_test.go:446`). If the intent cannot be written, the
   withdrawal adds every active path that the target does not admit to the
   pending list (`nft.go:258-260`), and the next `Replace` deletes the
   connections of that path although the request contains it.
   `RevokesOnlyRetired` names this as the one reason beside the request.

## Behaviour worth knowing

The wheel indexes wall-clock seconds. When the clock is set back, a worker
closes nothing until the clock has caught up with the wheel, and a session
may outlive its idle time by what the clock lost and one turn of the wheel; the
second part of `ClosedInTime` is that bound. While a sweep has deleted source
entries and not yet subtracted them, `udpSourceCount` is too high and a new
source can be refused although there is room: `CountersExact` states the
count's exact value including the entries in transit.

Any error of `Accept` ends the accept loop of an endpoint while its listener
stays open (`AcceptFails`).

The refresh loop applies what it read before a request to what the request
has just changed. A rule change or a new access list can be undone until the next
tick, 30 seconds later, and since `applyRuleOperation` reads the rows after
`Apply` has released the manager, an operation can be recorded as `applied`
while another content of the rule runs; `docs/API.en-US.md:1387` says that
"`applied` means the manager observed the requested control-plane state".
`OnlyRefreshDiverges` shows that nothing else can do this, and
`EventuallyInForce` that the next ticks repair it. Leaving strict mode through
the settings does not bring back the bootstrap entries of the access list; the
next tick does.

`handleSettings` drops the error of its own roll-back. If the access list cannot
be refreshed and the former configuration cannot be saved, the rejected
settings stay saved although the answer is an error: the refresh loop then puts
their access list in force and the resolver keeps its old servers until the
next start.

## Not modelled

Of the backend: the flowtable object and its devices, the instance binding and
the ownership of the table by another program, a missing `nft` executable, the
limit on the number of retired specs in the journal, the text of rulesets and of
conntrack output, file permissions. Of the hook proofs: the decoding of JSON
and its limits (they are one failing step) and the ownership markers of a clean
inventory. Of the manager: backup targets, IPv6 zones, the target allowlist, the
distribution of UDP workers. Of telemetry: rates, the age of samples, the start
and stop of the collector, UDP counters, the text of the metrics page.
Of the control plane: a power failure that loses a rename, the preparation and
the reload of the HTTPS certificate, the HTTPS setting that `main` updates at
start, the comparison of revisions and the validation of
configurations. Of the UDP worker: packet batches, responses, epoll and
a descriptor that is used again within one batch.

The limiters of the web server (`internal/web/security.go`) are two small
critical sections: a token bucket per address and one for the process, and a
semaphore around `Accept`. The prefixes of access lists, diagnostics, the web GUI
and the HTTP routing have no protocol state worth a model.

## Plan

Done: `NftBackend`, `PortRanges`, `TcpBudget`, `TcpRunner`, `UdpBudget`,
`UdpWheel` and `ControlPlane`; then `TcpAdmission` with the refinement,
`HookAdmission` with its proofs, `Manager` over `NftBackend`, and `Telemetry`.
The proofs cover `PortRanges`, `TcpBudget`, `TcpRunner`, `HookAdmission`,
`UdpBudget`, `UdpWheel`, `ControlPlane`, `NftBackend`, `Manager` and the meter of
`Telemetry`. Left, in order:

1. The limiters of the web server.
2. Descriptors of the UDP worker within one batch of events.
3. `NeverDoubled` and `NothingEverHidden` without hypotheses where policies
   change, for which `SoloInv` would have to follow suspended paths.

-------------------------------- MODULE Manager --------------------------------
(***************************************************************************)
(* The Manager of PortBridge (internal/proxy/manager.go,                   *)
(* manager_nft_state.go, plan.go), composed with the nftables backend of   *)
(* NftBackend.tla: it resolves the targets, splits every rule into kernel  *)
(* paths and Go listeners, hands the kernel paths to the backend and       *)
(* starts a Go listener only where no kernel path can still be forwarding. *)
(* It is stopped and cleaned up after by systemd, while an Apply or a      *)
(* Refresh may still be waiting for its mutex.                             *)
(*                                                                         *)
(* Data abstraction.  A rule is its identity, its listen scopes ("*" has   *)
(* one of each family), the host of its target, whether it is forced to    *)
(* Go, whether it is enabled, and `opt', all its other forwarding fields.  *)
(* A DNS answer is its first usable address of each family.  Backup        *)
(* targets, IPv6 zones, names, statistics and the distribution of UDP      *)
(* workers are not modelled.                                               *)
(***************************************************************************)
EXTENDS NftBackend

CONSTANTS
  Configs,     \* the sets of rules that config.Validate accepts
  IDs,         \* rule identities
  Hosts,       \* host names that need DNS
  Literals,    \* Literals[h]: the answer that an address as a host is by itself
  Answers,     \* what a host may resolve to: [{4, 6} -> Targets \cup {NoTarget}]
  NoTarget,    \* no address of that family
  Listen,      \* Listen[i]: family, host ("any", "lo", ...) and port of scope i
  Loopback,    \* Loopback[i]: the loopback scope that goes with a wildcard scope
  GoPoints     \* GoPoints[i]: the points at which a Go listener on i accepts

VARIABLES
  svc,         \* "up", "stopping", "stopped", "exited", "cleaning" or "down"
  phase,       \* who holds Manager.mu: "free", "apply" or "stop"
  cfg,         \* the rules in the configuration file and of the last Apply
  zone,        \* what DNS answers: [Hosts -> Answers \cup {Failed}]
  cache,       \* Manager.resolved: unexpired answers by rule
  goPlan,      \* forwardingPlan.goRules
  broken,      \* forwardingPlan.errors: the rules that could not be resolved
  blind,       \* nftReconcileResult.inspectionFailed
  runners,     \* Manager.runners
  rows         \* Manager.rules with dataPlanes and Stats.running

mgrVars == <<svc, phase, cfg, zone, cache, goPlan, broken, blind, runners, rows>>
allVars == <<vars, mgrVars>>

Failed == [f \in {4, 6} |-> NoTarget]
NoCache == [host |-> "none", ans |-> Failed]

\* Row identities: a rule, a path of a rule nobody knows any more, or all of
\* the kernel's state.
Row(id) == <<"rule", id>>
Tombstone(id) == <<"kernel-pending", id>>
Unverified == <<"kernel-recovery", "unverified">>

RuleIDs(C) == {r.id : r \in C}

\* listenHostsOverlap and portRangesOverlap
Clash(i, j) ==
  /\ Listen[i].fam = Listen[j].fam /\ Listen[i].port = Listen[j].port
  /\ Listen[i].host = Listen[j].host \/ "any" \in {Listen[i].host, Listen[j].host}

\* validateRuleConflicts
ValidConfig(C) ==
  \A r, s \in C : /\ r.id = s.id => r = s
                  /\ r.on /\ s.on /\ r # s => \A i \in r.ins, j \in s.ins : ~Clash(i, j)

ASSUME ManagerConstants ==
  /\ \A C \in Configs : ValidConfig(C) /\ RuleIDs(C) \subseteq IDs
  /\ {} \in Configs

-----------------------------------------------------------------------------
(***************************************************************************)
(* buildPlan.                                                              *)
(***************************************************************************)

Other(fam) == IF fam = 4 THEN 6 ELSE 4

\* resolveHost: a literal, a fresh answer, or a cached one when that is allowed.
Resolved(r, cached) ==
  IF r.host \in DOMAIN Literals THEN Literals[r.host]
  ELSE IF zone[r.host] # Failed THEN zone[r.host]
  ELSE IF cached /\ cache[r.id].host = r.host THEN cache[r.id].ans
  ELSE Failed

\* A path is the kernel's when listener and target share a family and the
\* listener is not a loopback address.
InKernel(r, i, ans) == ~r.go /\ ans[Listen[i].fam] # NoTarget /\ Listen[i].host # "lo"

Target(i, ans) ==
  IF ans[Listen[i].fam] # NoTarget THEN ans[Listen[i].fam] ELSE ans[Other(Listen[i].fam)]

GoPath(r, kind, i, to) == [rule |-> r.id, kind |-> kind, in |-> i, to |-> to, opt |-> r.opt]

NFTPaths(r, ans) ==
  {[rule |-> r.id, in |-> i, to |-> ans[Listen[i].fam], fam |-> Listen[i].fam] :
     i \in {j \in r.ins : InKernel(r, j, ans)}}

\* addGoPath: all of a forced rule, the loopback side of a kernel wildcard, and
\* what the kernel cannot do.
GoPaths(r, ans) ==
  {GoPath(r, IF r.go THEN "forced" ELSE "proxy", i, Target(i, ans)) :
     i \in {j \in r.ins : ~InKernel(r, j, ans)}}
  \cup {GoPath(r, "loopback", Loopback[i], ans[Listen[i].fam]) :
     i \in {j \in r.ins : InKernel(r, j, ans) /\ Listen[j].host = "any"}}

Planned(C, cached) == {r \in C : r.on /\ Resolved(r, cached) # Failed}
PlanNFT(C, cached) == UNION {NFTPaths(r, Resolved(r, cached)) : r \in Planned(C, cached)}
PlanGo(C, cached) == UNION {GoPaths(r, Resolved(r, cached)) : r \in Planned(C, cached)}

\* A host is a name or an address, and the paths of a rule are known; its own
\* scopes do not meet ("*" has one of each family).  Two scopes that share a
\* point overlap, and the loopback listener that goes with a wildcard accepts
\* at points that the kernel path does not cover.
ASSUME ScopesOK ==
  /\ \A C \in Configs : \A r \in C :
       /\ r.host \in DOMAIN Literals \cup Hosts /\ r.ins \subseteq DOMAIN GoPoints
       /\ \A ans \in Answers \cup {Literals[h] : h \in DOMAIN Literals} : NFTPaths(r, ans) \subseteq Paths
       /\ \A i, j \in r.ins : Clash(i, j) => i = j
  /\ \A i \in DOMAIN GoPoints, j \in DOMAIN Covers : GoPoints[i] \cap Covers[j] # {} => Clash(i, j)
  /\ \A i, j \in DOMAIN Covers : Covers[i] \cap Covers[j] # {} => Clash(i, j)
  /\ \A i \in DOMAIN GoPoints : Listen[i].host = "any" =>
       /\ Loopback[i] \in DOMAIN GoPoints
       /\ Listen[Loopback[i]].fam = Listen[i].fam /\ Listen[Loopback[i]].port = Listen[i].port
       /\ i \in DOMAIN Covers => GoPoints[Loopback[i]] \cap Covers[i] = {}

-----------------------------------------------------------------------------
(***************************************************************************)
(* apply, up to the backend.                                               *)
(***************************************************************************)

\* The key of a path, goPathSlotKey, and the fields of a derived rule.
PathKey(g) == <<g.rule, g.kind, g.in, g.to>>
SameSlot(g, h) == g.rule = h.rule /\ g.kind = h.kind /\ g.in = h.in

\* Mutant: a changed option is not a change.
RuleKeyAddresses(g) == <<g.rule, g.in, g.to>>

\* ruleKey
RuleKey(g) == <<g.rule, g.in, g.to, g.opt>>

\* stopChangedRunners: what keeps running.
StopChangedRunners(R, P) == {h \in R : \E g \in P : SameSlot(g, h) /\ RuleKey(g) = RuleKey(h)}

InitManager ==
  /\ Init
  /\ svc = "up" /\ phase = "free" /\ cfg \in Configs /\ zone \in [Hosts -> Answers]
  /\ cache = [id \in IDs |-> NoCache] /\ goPlan = {} /\ broken = {} /\ blind = FALSE
  /\ runners = {} /\ rows = <<>>

\* Apply with a new configuration, or Refresh with the current one.  A handler
\* or the refresh loop may have been waiting for the mutex since before Stop.
ApplyBegin(C, cached) ==
  /\ svc \in {"up", "stopping", "stopped"} /\ phase = "free" /\ pc = "idle"
  /\ \/ C = cfg /\ UNCHANGED edits
     \/ C # cfg /\ edits < MaxEdits /\ edits' = edits + 1
  /\ phase' = "apply" /\ cfg' = C
  /\ plan' = PlanNFT(C, cached) /\ goPlan' = PlanGo(C, cached)
  /\ broken' = {r.id : r \in {q \in C : q.on} \ Planned(C, cached)}
  /\ cache' = [id \in IDs |->
       IF \E r \in C : r.id = id /\ r.on /\ r.host \in Hosts /\ zone[r.host] # Failed
       THEN LET r == CHOOSE q \in C : q.id = id IN [host |-> r.host, ans |-> zone[r.host]]
       ELSE cache[id]]
  /\ runners' = StopChangedRunners(runners, goPlan')
  /\ pc' = "health" /\ outcome' = "none" /\ blind' = FALSE
  /\ mem' = [mem EXCEPT !.tool = mem.tool \/ installed]
  /\ UNCHANGED <<kernelVars, installed, diskVars, call, offload, done, faults, svc, zone, rows>>

\* decideNFTAction and Replace; only a failed Healthy counts as blindness.
BackendStep ==
  /\ phase # "free" /\ ReconcileStep
  /\ blind' = (blind \/ (pc = "health" /\ outcome' = "err"))
  /\ UNCHANGED <<svc, phase, cfg, zone, cache, goPlan, broken, runners, rows>>

-----------------------------------------------------------------------------
(***************************************************************************)
(* apply, after the backend: what may still be in the kernel decides which *)
(* Go listeners may run and what every row shows.                          *)
(***************************************************************************)

NFTErr == outcome # "ok"

Verified == mem.init /\ ~blind

\* Paths that may still be forwarding, or have connections.
MaybeLive == mem.pen \cup mem.sus \cup (IF Verified THEN {} ELSE mem.act)

\* Mutant: only what is still admitted counts, not what awaits retirement.
GoPathBlockedByActiveOnly(g) ==
  NFTErr /\ (ReportedUnknown \/ \E s \in MaybeLive \ mem.pen : Clash(g.in, s.in))

\* goPathBlockedByNFT
GoPathBlocked(g) == NFTErr /\ (ReportedUnknown \/ \E s \in MaybeLive : Clash(g.in, s.in))

\* Mutant: only configured rules are looked for.
BlockedRowsConfigured ==
  LET shown == {Row(id) : id \in RuleIDs(cfg)}
  IN  IF ~NFTErr THEN {}
      ELSE {Row(s.rule) : s \in {q \in MaybeLive : Row(q.rule) \in shown}}
           \cup (IF ReportedUnknown THEN shown \cup {Unverified} ELSE {})
           \cup {Row(g.rule) : g \in {h \in goPlan : \E s \in MaybeLive : Clash(h.in, s.in)}}

\* nftRetirementStatus: the rows that may not be shown as stopped.
BlockedRows ==
  LET shown == {Row(id) : id \in RuleIDs(cfg)} \cup DOMAIN rows
      Mark(s) == IF Row(s.rule) \in shown THEN Row(s.rule) ELSE Tombstone(s.rule)
  IN  IF ~NFTErr THEN {}
      ELSE {Mark(s) : s \in MaybeLive}
           \cup (IF ReportedUnknown THEN {Row(id) : id \in RuleIDs(cfg)} \cup {Unverified} ELSE {})
           \cup {Row(g.rule) : g \in {h \in goPlan : \E s \in MaybeLive : Clash(h.in, s.in)}}

\* nftRuleState
KernelState(id) ==
  CASE \E s \in mem.pen : s.rule = id -> "retirement-pending"
    [] \E s \in mem.sus : s.rule = id /\ \A q \in mem.pen : q.rule # id -> "admission-suspended"
    [] OTHER -> IF \E s \in mem.act : s.rule = id THEN "active"
                ELSE IF ReportedUnknown THEN "unknown"
                ELSE IF mem.init THEN "inactive-verified" ELSE "unverified"

PathKnown(id) == KernelState(id) \in {"retirement-pending", "admission-suspended", "active"}

UsesNFT(plane) == plane \in {"nftables", "hybrid"}
PlanUsesNFT(id) == \E p \in plan : p.rule = id
PlanUsesGo(id) == \E g \in goPlan : g.rule = id
PlanPlane(id) ==
  CASE PlanUsesNFT(id) /\ PlanUsesGo(id) -> "hybrid"
    [] PlanUsesNFT(id) /\ ~PlanUsesGo(id) -> "nftables"
    [] ~PlanUsesNFT(id) /\ PlanUsesGo(id) -> "go-proxy"
    [] OTHER -> IF id \in broken THEN "" ELSE "disabled"

\* The kernel paths of the rule were read back, though something else failed.
VerifiedNFT(id) ==
  /\ Verified /\ ~ReportedUnknown
  /\ \A s \in Desired : s.rule = id => s \in mem.act

\* updateRuleStates, with the listeners that are running now.
RowState(r, R, blocked) ==
  LET before == IF Row(r.id) \in DOMAIN rows THEN rows[Row(r.id)].plane ELSE ""
      serving == \E g \in R : g.rule = r.id
      failures == \/ r.id \in broken
                  \/ PlanUsesNFT(r.id) /\ NFTErr /\ ~VerifiedNFT(r.id)
                  \/ \E g \in goPlan : g.rule = r.id /\ \A h \in R : PathKey(h) # PathKey(g)
                  \/ ~PlanUsesNFT(r.id) /\ ~PlanUsesGo(r.id)
  IN  IF Row(r.id) \notin blocked
        THEN [plane |-> PlanPlane(r.id), run |-> r.on /\ ~failures]
      ELSE IF ~PathKnown(r.id) /\ ~UsesNFT(before) /\ PlanUsesGo(r.id)
        THEN [plane |-> PlanPlane(r.id), run |-> FALSE]
      ELSE [plane |-> IF serving THEN "hybrid" ELSE IF UsesNFT(before) THEN before ELSE "nftables",
            run |-> TRUE]

\* retireRemovedRules: rows of no configured rule stay while they are blocked.
Rows(R, blocked) ==
  [k \in {Row(id) : id \in RuleIDs(cfg)} \cup blocked |->
     IF \E r \in cfg : Row(r.id) = k
     THEN RowState(CHOOSE r \in cfg : Row(r.id) = k, R, blocked)
     ELSE [plane |-> IF k \in DOMAIN rows THEN rows[k].plane ELSE "nftables", run |-> TRUE]]

\* The path of the plan that has the key of a running listener.
InPlan(h) == {g \in goPlan : PathKey(g) = PathKey(h)}

\* A listener cannot be bound where another one is.
Bindable(g, R) == \A h \in R : GoPoints[g.in] \cap GoPoints[h.in] = {}

\* reconcileRunners, updateRuleStates and retireRemovedRules
ApplyEnd ==
  /\ phase = "apply" /\ pc = "idle"
  /\ LET kept == {h \in runners : \A g \in InPlan(h) : ~GoPathBlocked(g)}
         startable == {g \in goPlan : /\ \A h \in kept : PathKey(h) # PathKey(g)
                                      /\ ~GoPathBlocked(g) /\ Bindable(g, kept)}
         blocked == BlockedRows
     IN  /\ \E failed \in {{}} \cup {{g} : g \in startable} :
              /\ IF failed = {} THEN NoFault ELSE Fault("bind")
              /\ runners' = {h \in kept \cup (startable \ failed) : InPlan(h) # {}}
         /\ rows' = Rows(runners', blocked)
         /\ cache' = [id \in IDs |->
              IF Row(id) \in DOMAIN rows /\ id \notin RuleIDs(cfg) /\ Row(id) \notin blocked
              THEN NoCache ELSE cache[id]]
  /\ phase' = "free"
  /\ UNCHANGED <<kernelVars, installed, diskVars, mem, pc, call, plan, offload, done, outcome, edits,
                 svc, cfg, zone, goPlan, broken, blind>>

\* SetDNSServers forgets what was resolved; an Apply follows.
SetDNSServers ==
  /\ svc \in {"up", "stopping", "stopped"} /\ phase = "free"
  /\ cache' = [id \in IDs |-> NoCache]
  /\ UNCHANGED <<vars, svc, phase, cfg, zone, goPlan, broken, blind, runners, rows>>

-----------------------------------------------------------------------------
(***************************************************************************)
(* The end of the process: main, Stop, systemd and --cleanup-nft.          *)
(***************************************************************************)

\* A signal: the refresh loop is told to stop and the web server is closed,
\* but neither is waited for.
Signal ==
  /\ svc = "up" /\ svc' = "stopping"
  /\ UNCHANGED <<vars, phase, cfg, zone, cache, goPlan, broken, blind, runners, rows>>

\* commandNFTBackend.Delete: Replace of nothing.
Delete ==
  /\ pc = "idle" /\ plan' = {} /\ pc' = "begin" /\ outcome' = "none"
  /\ mem' = [mem EXCEPT !.tool = mem.tool \/ installed]
  /\ UNCHANGED <<kernelVars, installed, diskVars, call, offload, done, edits, faults>>

StopBegin ==
  /\ svc = "stopping" /\ phase = "free" /\ Delete
  /\ phase' = "stop" /\ runners' = {}
  /\ UNCHANGED <<svc, cfg, zone, cache, goPlan, broken, blind, rows>>

StopEnd ==
  /\ svc = "stopping" /\ phase = "stop" /\ pc = "idle"
  /\ rows' = [k \in DOMAIN rows |->
       IF NFTErr THEN [rows[k] EXCEPT !.run = UsesNFT(rows[k].plane)]
       ELSE [plane |-> "disabled", run |-> FALSE]]
  /\ svc' = "stopped" /\ phase' = "free" /\ done' = {}
  /\ UNCHANGED <<kernelVars, installed, diskVars, mem, pc, call, plan, offload, outcome, edits, faults,
                 cfg, zone, cache, goPlan, broken, blind, runners>>

\* The memory of the process is gone, its listeners are closed.
NewProcess ==
  /\ mem' = FreshMem /\ pc' = "idle" /\ call' = NoCall /\ outcome' = "none" /\ done' = {}
  /\ phase' = "free" /\ cache' = [id \in IDs |-> NoCache] /\ blind' = FALSE
  /\ goPlan' = {} /\ broken' = {} /\ runners' = {} /\ rows' = <<>>
  /\ UNCHANGED <<plan, offload, edits, cfg, zone>>

\* main returns, whatever a late Apply is doing.
Exit ==
  /\ svc = "stopped" /\ svc' = "exited" /\ NewProcess
  /\ UNCHANGED <<kernelVars, diskVars, installed, faults>>

\* Killed: out of memory, or TimeoutStopSec.
Killed ==
  /\ svc \notin {"exited", "down"} /\ Fault("crash") /\ svc' = "exited" /\ NewProcess
  /\ UNCHANGED <<kernelVars, diskVars, installed>>

HostReboot ==
  /\ Reboot /\ svc' = "exited" /\ phase' = "free" /\ cache' = [id \in IDs |-> NoCache]
  /\ goPlan' = {} /\ broken' = {} /\ blind' = FALSE /\ runners' = {} /\ rows' = <<>>
  /\ UNCHANGED <<cfg, zone>>

\* ExecStopPost: a process of its own that only deletes.
CleanupBegin ==
  /\ svc = "exited" /\ phase = "free" /\ Delete
  /\ svc' = "cleaning" /\ phase' = "stop"
  /\ UNCHANGED <<cfg, zone, cache, goPlan, broken, blind, runners, rows>>

\* Mutant: a missing conntrack tool does not fail the cleanup.
CleanupEndIgnoresTool ==
  /\ svc = "cleaning" /\ phase = "stop" /\ pc = "idle"
  /\ svc' = IF outcome \in {"ok", "dep", "err"} THEN "down" ELSE "exited"
  /\ NewProcess
  /\ UNCHANGED <<kernelVars, diskVars, installed, faults>>

CleanupEnd ==
  /\ svc = "cleaning" /\ phase = "stop" /\ pc = "idle"
  /\ svc' = IF NFTErr THEN "exited" ELSE "down"
  /\ NewProcess
  /\ UNCHANGED <<kernelVars, diskVars, installed, faults>>

\* Started again, by Restart=on-failure or by hand, cleaned up after or not.
Start ==
  /\ svc \in {"exited", "down"} /\ svc' = "up"
  /\ UNCHANGED <<vars, phase, cfg, zone, cache, goPlan, broken, blind, runners, rows>>

-----------------------------------------------------------------------------

\* The answer of a name server changes, or it stops answering.
ZoneChange ==
  /\ Fault("dns")
  /\ \E h \in Hosts, a \in Answers \cup {Failed} : a # zone[h] /\ zone' = [zone EXCEPT ![h] = a]
  /\ UNCHANGED <<kernelVars, installed, diskVars, mem, pc, call, plan, offload, done, outcome, edits,
                 svc, phase, cfg, cache, goPlan, broken, blind, runners, rows>>

\* A cached answer outlives DNSCacheTTLSeconds.
Expire(id) ==
  /\ cache[id] # NoCache /\ cache' = [cache EXCEPT ![id] = NoCache]
  /\ UNCHANGED <<vars, svc, phase, cfg, zone, goPlan, broken, blind, runners, rows>>

Surroundings ==
  \/ (OpenConn \/ CloseConn \/ InstallTool \/ PolicyChange \/ FlushRuleset) /\ UNCHANGED mgrVars
  \/ ZoneChange \/ \E id \in IDs : Expire(id)

ManagerNext ==
  \/ \E C \in Configs, cached \in BOOLEAN : ApplyBegin(C, cached)
  \/ BackendStep \/ ApplyEnd \/ SetDNSServers
  \/ Signal \/ StopBegin \/ StopEnd \/ Exit \/ Killed \/ HostReboot
  \/ CleanupBegin \/ CleanupEnd \/ Start
  \/ Surroundings

\* Every command has a timeout, and the refresh loop comes back every 30 s.
RefreshLoop == \E cached \in BOOLEAN : ApplyBegin(cfg, cached)
ManagerSpec == InitManager /\ [][ManagerNext]_allVars
FairManagerSpec ==
  ManagerSpec /\ WF_allVars(BackendStep) /\ WF_allVars(ApplyEnd) /\ WF_allVars(RefreshLoop)

-----------------------------------------------------------------------------

\* Where a Go listener accepts, the kernel neither forwards new connections
\* nor keeps old ones: a client never meets two paths with different targets
\* or policies while a rule moves between the two planes and steps fail.  One
\* failure breaks it: a Replace that cannot read the hook inventory returns
\* before it records the move (nft_reconcile.go:234-236), if another offloaded
\* rule makes it read the hooks at all; goPathBlockedByNFT then lets the
\* listener start over the live path (ManagerHooks.cfg).
NoDoublePath ==
  \A g \in runners :
    /\ \A s \in table.act : GoPoints[g.in] \cap Covers[s.in] = {}
    /\ \A c \in conns : c.point \notin GoPoints[g.in]

\* The status page shows row k as something other than stopped: it runs, the
\* kernel state of its rule is not verified absence, or it carries the error of
\* the transaction that was to install the rule's kernel paths.
Shows(k, id) == \/ k = Unverified /\ rows[k].run
                \/ k = Tombstone(id) /\ rows[k].run
                \/ k = Row(id) /\ (\/ rows[k].run
                                   \/ KernelState(id) # "inactive-verified"
                                   \/ NFTErr /\ PlanUsesNFT(id))

\* What the kernel forwards, and every connection it still tracks, belongs to a
\* row that the status page does not show as stopped.  The unreadable hook
\* inventory that breaks NoDoublePath for two rules breaks this as well.
NothingHidden ==
  svc = "up" /\ phase = "free" /\ outcome # "none" =>
    /\ \A s \in table.act : \E k \in DOMAIN rows : Shows(k, s.rule)
    /\ \A c \in conns : \E k \in DOMAIN rows, p \in Paths : Matches(c, p) /\ Shows(k, p.rule)

\* docs/API.en-US.md:759: the kernel forwards nothing of a rule whose state is
\* "inactive-verified".  An error of a transaction that took effect breaks it,
\* when other paths were confirmed before.
InactiveIsAbsent ==
  svc = "up" /\ phase = "free" /\ outcome # "none" =>
    \A s \in table.act : KernelState(s.rule) # "inactive-verified"

\* Once the unit is down after a successful --cleanup-nft, nothing forwards,
\* although an Apply may have run after Stop had removed everything.
StoppedClean == svc = "down" => table = Empty /\ conns = {} /\ runners = {}

\* The Go listeners and the kernel paths of the configuration, at the
\* addresses DNS gives now, are in place.
Served ==
  /\ Converged /\ plan = PlanNFT(cfg, FALSE) /\ runners = PlanGo(cfg, FALSE)

Calm == svc = "up" /\ installed /\ rejected = {} /\ \A h \in Hosts : zone[h] # Failed

\* With the conntrack tool installed, no policy in the way and DNS answering,
\* the refresh loop brings the configuration into force and keeps it there: no
\* failed step, lost listener or old answer stays for good.
EventuallyServed == <>[]Calm => <>[]Served

=============================================================================

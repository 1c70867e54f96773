----------------------------- MODULE ControlPlane -----------------------------
(***************************************************************************)
(* The configuration store, the web handlers that change it, the refresh   *)
(* loop and the start of the process.                                      *)
(*                                                                         *)
(* Two locks order the changes.  changeMu (internal/web) is held by one    *)
(* handler for its whole operation.  The store's own lock (internal/config)*)
(* covers one update of the configuration: memory and file change together *)
(* or not at all, so an update is one step, except a rotation of the       *)
(* administrator's token, which writes two files under that lock.  The     *)
(* refresh loop of cmd/portbridge takes neither changeMu nor one lock for  *)
(* its three steps: it reads the store, refreshes the access list and then *)
(* applies the rules it read.                                              *)
(*                                                                         *)
(* Manager.apply is one step here (it holds the manager's lock); what it   *)
(* does inside is the subject of NftBackend and TcpRunner.  A request that *)
(* is refused before it changes anything (bad input, a revision conflict,  *)
(* an unknown rule) takes no step.                                         *)
(***************************************************************************)
EXTENDS Naturals, Sequences, FiniteSets

CONSTANTS
  Handlers,     \* concurrent requests
  Ids,          \* rule identities
  Bodies,       \* contents of an enabled rule
  Lists,        \* management access lists
  Settings,     \* saved settings: an access list and the DNS servers
  MaxEdits,     \* requests that change something
  MaxFaults,    \* faults the environment may inject
  FaultKinds,   \* the kinds of fault it may inject
  LogCap        \* operations kept (64 in the code)

ASSUME ControlAssumption ==
  /\ MaxEdits \in Nat /\ MaxFaults \in Nat /\ LogCap \in Nat \ {0}
  /\ FaultKinds \subseteq {"disk", "acl", "apply", "crash"}
  /\ Settings # {} /\ Settings \subseteq [list : Lists, auto : BOOLEAN, strict : BOOLEAN, dns : Nat]
  /\ {"none", "off"} \cap Bodies = {} /\ {"free", "reset"} \cap Handlers = {}

VARIABLES
  disk,       \* the configuration file
  token,      \* the token file: the number of a generated token, 0 if absent
  cfg,        \* Store.cfg
  rot,        \* a rotation that holds the store's lock
  phase,      \* what the process is doing
  changeMu,   \* the handler that holds Server.changeMu
  req,        \* each handler's place in its operation
  log,        \* Server.operations in the order of operationOrder
  refresh,    \* the refresh loop's place and its snapshot of the store
  desired,    \* Manager.desiredRules
  rows,       \* Manager.rules with their statistics, as Runtime reports them
  servers,    \* the resolver's DNS servers
  acl,        \* acl.Manager.snapshot
  acked,      \* history: what the answered requests add up to
  warned,     \* the operator was told that the token file is not usable
  swallowed,  \* a failed roll-back of the settings was ignored
  stale,      \* what the refresh loop last set from an outdated snapshot
  edits, faults

storeVars == <<disk, token, cfg, rot>>
webVars == <<changeMu, req, log>>
managerVars == <<desired, rows, servers>>
ghostVars == <<acked, warned, swallowed, stale>>
vars == <<storeVars, phase, webVars, refresh, managerVars, acl, ghostVars, edits, faults>>

-----------------------------------------------------------------------------

\* Configurations, operations and runtime rows.

RuleValues == Bodies \cup {"none", "off"}
NoRules == [i \in Ids |-> "none"]
NoConfig == [rules |-> NoRules, set |-> CHOOSE s \in Settings : TRUE, hash |-> 0, mon |-> FALSE]
Exists(c) == c.hash # 0

Free == "free"
Idle == [pc |-> "idle", id |-> 0, ids |-> {}, new |-> NoConfig, old |-> NoConfig, snap |-> NoRules,
         was |-> FALSE]
NoRotation == [at |-> "none", by |-> Free, prev |-> 0]
StoreFree == rot = NoRotation

Enabled(b) == b \in Bodies
Row(b, s) == [body |-> b, st |-> s]
NormalRow(b) ==
  IF Enabled(b) THEN Row(b, "running")
  ELSE IF b = "off" THEN Row(b, "stopped") ELSE Row("none", "absent")

\* A rule that could not be started, or whose former kernel path may still
\* forward (or cannot be known not to); the row of a removed rule stays until
\* its path is retired.
TroubledRows(b, prev) ==
  IF Enabled(b) THEN {Row(b, "failed"), Row(b, "pending")}
  ELSE IF b = "off" THEN {Row(b, "pending")}
  ELSE IF prev.st = "absent" THEN {} ELSE {Row(prev.body, "pending")}

NoSnapshot == [list |-> "none", boot |-> FALSE]
NoRefresh == [pc |-> "idle", snap |-> NoConfig]

Init ==
  /\ disk = NoConfig /\ token = 0 /\ cfg = NoConfig /\ rot = NoRotation
  /\ phase = "down"
  /\ changeMu = Free /\ req = [h \in Handlers |-> Idle] /\ log = <<>>
  /\ refresh = NoRefresh
  /\ desired = NoRules /\ rows = [i \in Ids |-> NormalRow("none")] /\ servers = 0
  /\ acl = NoSnapshot
  /\ acked = NoConfig /\ warned = FALSE /\ swallowed = FALSE /\ stale = {}
  /\ edits = 0 /\ faults = 0

Fault(kind) == kind \in FaultKinds /\ faults < MaxFaults /\ faults' = faults + 1
Edit == edits < MaxEdits /\ edits' = edits + 1

-----------------------------------------------------------------------------

\* The store, the access list and the manager, as the steps below use them.

\* Store.updateLocked: the file is replaced atomically or the memory is put back.
Update(c) == StoreFree /\ cfg' = c /\ disk' = c

\* A number no token, hash or file in use has.
Fresh == CHOOSE n \in 1..6 :
           n \notin {token, disk.hash, cfg.hash, rot.prev, acked.hash}

\* acl.Manager.Refresh: a strict list ignores the bootstrap entries.
AclOf(s, boot) == [list |-> s.list, boot |-> boot /\ ~s.strict]

\* Manager.apply.
Apply(rules) ==
  /\ desired' = rules
  /\ LET normal == [i \in Ids |-> NormalRow(rules[i])]
     IN \/ rows' = normal /\ UNCHANGED faults
        \/ /\ Fault("apply")
           /\ \E i \in Ids : \E r \in TroubledRows(rules[i], rows[i]) :
                rows' = [normal EXCEPT ![i] = r]

\* Mutant: the progress of an operation is recorded as another operation.
SetOperationAppends(op) ==
  LET longer == Append(log, op)
  IN log' = IF Len(longer) > LogCap THEN Tail(longer) ELSE longer

\* Server.setOperation.
SetOperation(op) ==
  LET at == {n \in 1..Len(log) : log[n].id = op.id}
      longer == Append(log, op)
  IN log' = IF at # {} THEN [log EXCEPT ![CHOOSE n \in at : TRUE] = op]
            ELSE IF Len(longer) > LogCap THEN Tail(longer) ELSE longer

Goto(h, pc) == req' = [req EXCEPT ![h].pc = pc]
Release(h) == changeMu' = Free /\ req' = [req EXCEPT ![h] = Idle]

-----------------------------------------------------------------------------

\* The start of the process (main, LoadOrCreate).

\* The service is started, or the operator runs --reset-admin-token while it
\* is down.  Without a configured hash a token is generated, and its file is
\* written before the configuration.
Load ==
  /\ phase = "down"
  /\ \/ phase' = "loading" /\ UNCHANGED edits
     \/ phase' = "resetting" /\ Edit
  /\ cfg' = IF Exists(disk) THEN disk ELSE [disk EXCEPT !.hash = Fresh]
  /\ token' = IF Exists(disk) THEN token ELSE Fresh
  /\ UNCHANGED <<disk, rot, webVars, refresh, managerVars, acl, ghostVars, faults>>

\* Every start saves the configuration.  The service then compares the token
\* file with the hash and logs a mismatch.
LoadSaves ==
  /\ \/ phase = "loading" /\ phase' = "launch"
     \/ phase = "resetting" /\ phase' = "reset"
  /\ disk' = cfg
  /\ acked' = IF Exists(disk) THEN acked ELSE cfg
  /\ warned' = (token # cfg.hash)
  /\ UNCHANGED <<token, cfg, rot, webVars, refresh, managerVars, acl, swallowed, stale, edits, faults>>

\* The access list, the rules, the web server and the refresh loop.
Launch ==
  /\ phase = "launch" /\ phase' = "up"
  /\ acl' = AclOf(cfg.set, TRUE)
  /\ servers' = cfg.set.dns
  /\ Apply(cfg.rules)
  /\ UNCHANGED <<storeVars, webVars, refresh, ghostVars, edits>>

\* Memory is lost.  A request that was being served is unanswered: the file
\* tells whether it took effect.
Terminate ==
  /\ phase' = "down" /\ cfg' = NoConfig /\ rot' = NoRotation
  /\ changeMu' = Free /\ req' = [h \in Handlers |-> Idle] /\ log' = <<>>
  /\ refresh' = NoRefresh
  /\ desired' = NoRules /\ rows' = [i \in Ids |-> NormalRow("none")] /\ servers' = 0
  /\ acl' = NoSnapshot /\ warned' = FALSE /\ swallowed' = FALSE /\ stale' = {}
  /\ acked' = IF changeMu = Free /\ StoreFree /\ ~swallowed THEN acked ELSE disk
  /\ UNCHANGED <<disk, token, edits>>

\* The process dies or is stopped at any point.
Crash == phase # "down" /\ Fault("crash") /\ Terminate

\* A start that cannot save the configuration, or cannot list the interfaces
\* an automatic access list needs, exits.
StartFails ==
  /\ \/ phase \in {"loading", "resetting"} /\ Fault("disk")
     \/ phase = "launch" /\ cfg.set.auto /\ Fault("acl")
  /\ Terminate

-----------------------------------------------------------------------------

\* Rule requests (handleCreateRule, handleUpdateRule, handleDeleteRule,
\* handleReplaceRules).

Lock(h) == phase = "up" /\ req[h] = Idle /\ changeMu = Free /\ changeMu' = h

SaveRules(h, rules, ids) ==
  /\ Lock(h) /\ Edit
  /\ Update([cfg EXCEPT !.rules = rules])
  /\ req' = [req EXCEPT ![h] = [Idle EXCEPT !.pc = "saved", !.id = edits, !.ids = ids, !.new = cfg']]
  /\ SetOperation([id |-> edits, state |-> "saved"])
  /\ UNCHANGED <<token, rot, phase, refresh, managerVars, acl, ghostVars, faults>>

CreateRule(h) == \E i \in Ids, b \in Bodies \cup {"off"} :
  cfg.rules[i] = "none" /\ SaveRules(h, [cfg.rules EXCEPT ![i] = b], {i})

UpdateRule(h) == \E i \in Ids, b \in Bodies \cup {"off"} :
  cfg.rules[i] # "none" /\ SaveRules(h, [cfg.rules EXCEPT ![i] = b], {i})

DeleteRule(h) == \E i \in Ids :
  cfg.rules[i] # "none" /\ SaveRules(h, [cfg.rules EXCEPT ![i] = "none"], {i})

\* Every desired rule is applied again and observed, and the removed ones.
ReplaceRules(h) == \E rules \in [Ids -> RuleValues] :
  SaveRules(h, rules, {i \in Ids : rules[i] # "none" \/ cfg.rules[i] # "none"})

\* applyRuleOperation: announce, apply, observe.
BeginApply(h) ==
  /\ req[h].pc = "saved" /\ Goto(h, "applying")
  /\ SetOperation([id |-> req[h].id, state |-> "applying"])
  /\ UNCHANGED <<storeVars, phase, changeMu, refresh, managerVars, acl, ghostVars, edits, faults>>

ApplySaved(h) ==
  /\ req[h].pc = "applying" /\ Goto(h, "observe")
  /\ Apply(req[h].new.rules)
  /\ stale' = IF req[h].new.rules = cfg.rules THEN stale \ {"rules"} ELSE stale
  /\ UNCHANGED <<storeVars, phase, changeMu, log, refresh, servers, acl, acked, warned, swallowed, edits>>

\* What the rows of Runtime say about the rules of the operation.
Observed(op) ==
  LET wanted(i) == op.new.rules[i]
      pending == {i \in op.ids : \/ rows[i].st = "pending"
                                 \/ ~Enabled(wanted(i)) /\ rows[i].st = "running"}
      failed == {i \in op.ids : Enabled(wanted(i)) /\ rows[i].st # "running"}
  IN IF pending # {} THEN "cleanup_pending"
     ELSE IF failed # {} THEN "application_failed" ELSE "applied"

Observe(h) ==
  /\ req[h].pc = "observe" /\ Release(h)
  /\ SetOperation([id |-> req[h].id, state |-> Observed(req[h])])
  /\ acked' = [acked EXCEPT !.rules = req[h].new.rules]
  /\ UNCHANGED <<storeVars, phase, refresh, managerVars, acl, warned, swallowed, stale, edits, faults>>

-----------------------------------------------------------------------------

\* Settings (handleSettings).

SaveSettings(h) ==
  /\ Lock(h) /\ Edit
  /\ \E s \in Settings : s # cfg.set /\ Update([cfg EXCEPT !.set = s])
  /\ req' = [req EXCEPT ![h] = [Idle EXCEPT !.pc = "acl", !.new = cfg', !.old = cfg]]
  /\ UNCHANGED <<token, rot, phase, log, refresh, managerVars, acl, ghostVars, faults>>

\* Mutant: changeMu is released before SetDNSServers.
SettingsAclUnlocks(h) ==
  /\ req[h].pc = "acl" /\ Goto(h, "dns") /\ changeMu' = Free
  /\ acl' = AclOf(req[h].new.set, acl.boot)
  /\ stale' = IF req[h].new.set = cfg.set THEN stale \ {"acl"} ELSE stale
  /\ UNCHANGED <<storeVars, phase, log, refresh, managerVars, acked, warned, swallowed, edits, faults>>

SettingsAcl(h) ==
  /\ req[h].pc = "acl" /\ Goto(h, "dns")
  /\ acl' = AclOf(req[h].new.set, acl.boot)
  /\ stale' = IF req[h].new.set = cfg.set THEN stale \ {"acl"} ELSE stale
  /\ UNCHANGED <<storeVars, phase, changeMu, log, refresh, managerVars, acked, warned, swallowed, edits, faults>>

SettingsAclFails(h) ==
  /\ req[h].pc = "acl" /\ req[h].new.set.auto /\ Fault("acl")
  /\ Goto(h, "restore")
  /\ UNCHANGED <<storeVars, phase, changeMu, log, refresh, managerVars, acl, ghostVars, edits>>

\* The former configuration is saved as a whole; a failure to do so is ignored.
SettingsRestore(h) ==
  /\ req[h].pc = "restore" /\ Goto(h, "aclback")
  /\ \/ Update(req[h].old) /\ UNCHANGED <<swallowed, faults>>
     \/ /\ StoreFree /\ Fault("disk") /\ swallowed' = TRUE
        /\ UNCHANGED <<cfg, disk>>
  /\ UNCHANGED <<token, rot, phase, changeMu, log, refresh, managerVars, acl, acked, warned, stale, edits>>

\* The answer is an error whether or not the former access list is back.
SettingsAclBack(h) ==
  /\ req[h].pc = "aclback" /\ Release(h)
  /\ \/ /\ acl' = AclOf(req[h].old.set, acl.boot) /\ stale' = stale \ {"acl"}
        /\ UNCHANGED faults
     \/ req[h].old.set.auto /\ Fault("acl") /\ UNCHANGED <<acl, stale>>
  /\ UNCHANGED <<storeVars, phase, log, refresh, managerVars, acked, warned, swallowed, edits>>

\* SetDNSServers copies the manager's rules, unlocks and applies the copy.
SettingsServers(h) ==
  /\ req[h].pc = "dns"
  /\ servers' = req[h].new.set.dns
  /\ req' = [req EXCEPT ![h].pc = "reapply", ![h].snap = desired,
                         ![h].was = "rules" \in stale]
  /\ UNCHANGED <<storeVars, phase, changeMu, log, refresh, desired, rows, acl, ghostVars, edits, faults>>

SettingsReapply(h) ==
  /\ req[h].pc = "reapply" /\ Release(h)
  /\ Apply(req[h].snap)
  /\ acked' = [acked EXCEPT !.set = req[h].new.set]
  /\ stale' = IF req[h].snap = cfg.rules THEN stale \ {"rules"}
              ELSE IF req[h].was THEN stale \cup {"rules"} ELSE stale
  /\ UNCHANGED <<storeVars, phase, log, refresh, servers, acl, warned, swallowed, edits>>

-----------------------------------------------------------------------------

\* Tokens (RotateAdminToken, RotateMonitorToken, RevokeMonitorToken).

\* The token file is written first, under the store's lock.
RotateWrites(by) ==
  /\ StoreFree
  /\ rot' = [at |-> "written", by |-> by, prev |-> token]
  /\ token' = Fresh
  /\ UNCHANGED <<disk, cfg, phase, log, refresh, managerVars, acl, ghostVars, faults>>

\* Mutant: the handler relies on the store's lock alone.
HandleRotateUnlocked(h) ==
  /\ phase = "up" /\ req[h] = Idle /\ Edit /\ RotateWrites(h)
  /\ req' = [req EXCEPT ![h] = [Idle EXCEPT !.pc = "rotate"]]
  /\ UNCHANGED changeMu

HandleRotate(h) ==
  /\ Lock(h) /\ Edit /\ RotateWrites(h)
  /\ req' = [req EXCEPT ![h] = [Idle EXCEPT !.pc = "rotate"]]

ResetToken == phase = "reset" /\ RotateWrites("reset") /\ UNCHANGED <<changeMu, req, edits>>

\* Afterwards the handler answers and unlocks, or the command exits.
RotateEnds(c) ==
  /\ rot' = NoRotation
  /\ IF rot.by \in Handlers THEN Release(rot.by) /\ cfg' = c /\ UNCHANGED phase
     ELSE phase' = "down" /\ cfg' = NoConfig /\ UNCHANGED <<changeMu, req>>

RotateCommits ==
  /\ rot.at = "written"
  /\ disk' = [cfg EXCEPT !.hash = token]
  /\ acked' = [acked EXCEPT !.hash = token]
  /\ warned' = FALSE
  /\ RotateEnds(disk')
  /\ UNCHANGED <<token, log, refresh, managerVars, acl, swallowed, stale, edits, faults>>

RotateSaveFails ==
  /\ rot.at = "written" /\ Fault("disk")
  /\ rot' = [rot EXCEPT !.at = "undo"]
  /\ UNCHANGED <<disk, token, cfg, phase, webVars, refresh, managerVars, acl, ghostVars, edits>>

\* The former file is put back, or the error says that it could not be.
RotateUndoes ==
  /\ rot.at = "undo"
  /\ \/ token' = rot.prev /\ UNCHANGED <<warned, faults>>
     \/ Fault("disk") /\ warned' = TRUE /\ UNCHANGED token
  /\ RotateEnds(cfg)
  /\ UNCHANGED <<disk, log, refresh, managerVars, acl, acked, swallowed, stale, edits>>

\* Mutant: the handler relies on the store's lock alone.
ChangeMonitorUnlocked(h) ==
  /\ phase = "up" /\ req[h] = Idle /\ Edit
  /\ \E on \in BOOLEAN : /\ Update([cfg EXCEPT !.mon = on])
                         /\ acked' = [acked EXCEPT !.mon = on]
  /\ UNCHANGED <<token, rot, phase, webVars, refresh, managerVars, acl, warned, swallowed, stale, faults>>

\* The monitoring token is only a hash in the configuration: set or not.
ChangeMonitor(h) ==
  /\ phase = "up" /\ req[h] = Idle /\ changeMu = Free /\ Edit
  /\ \E on \in BOOLEAN : /\ Update([cfg EXCEPT !.mon = on])
                         /\ acked' = [acked EXCEPT !.mon = on]
  /\ UNCHANGED <<token, rot, phase, webVars, refresh, managerVars, acl, warned, swallowed, stale, faults>>

-----------------------------------------------------------------------------

\* The refresh loop (startRefreshLoop), every 30 seconds.

RefreshReads ==
  /\ phase = "up" /\ refresh.pc = "idle" /\ StoreFree
  /\ refresh' = [pc |-> "acl", snap |-> cfg]
  /\ UNCHANGED <<storeVars, phase, webVars, managerVars, acl, ghostVars, edits, faults>>

\* A failure is logged; the rules are applied all the same.
RefreshAcl ==
  /\ refresh.pc = "acl" /\ refresh' = [refresh EXCEPT !.pc = "rules"]
  /\ \/ /\ acl' = AclOf(refresh.snap.set, TRUE)
        /\ stale' = IF refresh.snap.set \in {cfg.set} \cap {acked.set}
                    THEN stale \ {"acl"} ELSE stale \cup {"acl"}
        /\ UNCHANGED faults
     \/ refresh.snap.set.auto /\ Fault("acl") /\ UNCHANGED <<acl, stale>>
  /\ UNCHANGED <<storeVars, phase, webVars, managerVars, acked, warned, swallowed, edits>>

\* Mutant: rules that have not changed are not applied again.
RefreshRulesIfChanged ==
  /\ refresh.pc = "rules" /\ refresh' = NoRefresh
  /\ IF refresh.snap.rules = desired THEN UNCHANGED <<desired, rows, faults>>
     ELSE Apply(refresh.snap.rules)
  /\ stale' = IF refresh.snap.rules = cfg.rules THEN stale \ {"rules"} ELSE stale \cup {"rules"}
  /\ UNCHANGED <<storeVars, phase, webVars, servers, acl, acked, warned, swallowed, edits>>

RefreshRules ==
  /\ refresh.pc = "rules" /\ refresh' = NoRefresh
  /\ Apply(refresh.snap.rules)
  /\ stale' = IF refresh.snap.rules = cfg.rules THEN stale \ {"rules"} ELSE stale \cup {"rules"}
  /\ UNCHANGED <<storeVars, phase, webVars, servers, acl, acked, warned, swallowed, edits>>

-----------------------------------------------------------------------------

HandlerStep(h) ==
  \/ BeginApply(h) \/ ApplySaved(h) \/ Observe(h)
  \/ SettingsAcl(h) \/ SettingsAclFails(h) \/ SettingsRestore(h) \/ SettingsAclBack(h)
  \/ SettingsServers(h) \/ SettingsReapply(h)
RotateStep == RotateCommits \/ RotateSaveFails \/ RotateUndoes
Request(h) ==
  \/ CreateRule(h) \/ UpdateRule(h) \/ DeleteRule(h) \/ ReplaceRules(h)
  \/ SaveSettings(h) \/ HandleRotate(h) \/ ChangeMonitor(h)
StartStep == Load \/ LoadSaves \/ Launch \/ StartFails
RefreshStep == RefreshReads \/ RefreshAcl \/ RefreshRules

Next ==
  \/ \E h \in Handlers : Request(h) \/ HandlerStep(h)
  \/ RotateStep \/ ResetToken \/ StartStep \/ RefreshStep \/ Crash

ControlSpec == Init /\ [][Next]_vars

\* A running request, a rotation and the refresh loop go on; the service
\* manager starts the service again.
FairControlSpec ==
  /\ ControlSpec
  /\ WF_vars(StartStep) /\ WF_vars(RotateStep \/ ResetToken) /\ WF_vars(RefreshStep)
  /\ \A h \in Handlers : WF_vars(HandlerStep(h))

-----------------------------------------------------------------------------

Configs == [rules : [Ids -> RuleValues], set : Settings, hash : Nat, mon : BOOLEAN]
PCs == {"idle", "saved", "applying", "observe", "acl", "restore", "aclback", "dns",
        "reapply", "rotate"}
Requests == [pc : PCs, id : Nat, ids : SUBSET Ids, new : Configs, old : Configs,
             snap : [Ids -> RuleValues], was : BOOLEAN]
OpStates == {"saved", "applying", "applied", "application_failed", "cleanup_pending"}

\* Every variable has its type, and the operations kept are at most LogCap
\* (setOperation evicts the oldest).
TypeOK ==
  /\ disk \in Configs /\ cfg \in Configs /\ acked \in Configs /\ token \in Nat
  /\ rot \in [at : {"none", "written", "undo"}, by : Handlers \cup {Free, "reset"}, prev : Nat]
  /\ phase \in {"down", "loading", "resetting", "launch", "reset", "up"}
  /\ changeMu \in Handlers \cup {Free}
  /\ req \in [Handlers -> Requests]
  /\ log \in Seq([id : Nat, state : OpStates]) /\ Len(log) <= LogCap
  /\ refresh \in [pc : {"idle", "acl", "rules"}, snap : Configs]
  /\ desired \in [Ids -> RuleValues]
  /\ rows \in [Ids -> [body : RuleValues, st : {"absent", "stopped", "running", "failed", "pending"}]]
  /\ servers \in Nat /\ acl \in [list : Lists \cup {"none"}, boot : BOOLEAN]
  /\ warned \in BOOLEAN /\ swallowed \in BOOLEAN /\ stale \subseteq {"rules", "acl"}
  /\ edits \in 0..MaxEdits /\ faults \in 0..MaxFaults

\* A service that runs, with no rotation under way, accepts the token in the
\* token file, or has told the operator that it does not: whatever process
\* death, write failure or settings roll-back came between the two files.
TokenUsable ==
  phase \in {"launch", "up"} /\ StoreFree => token = cfg.hash \/ warned

\* When no request is being served, the configuration in memory and on disk is
\* exactly what the answered requests add up to: the whole-configuration
\* roll-back of handleSettings undoes no rule, token or monitor change, and
\* an answered change survives the death of the process.  The exception is a
\* roll-back that could not be saved, whose error the handler drops.
Acknowledged ==
  phase = "up" /\ changeMu = Free => disk = cfg /\ (cfg = acked \/ swallowed)

\* When no request is being served, the manager and the access list differ
\* from the saved configuration only where the refresh loop has set them from
\* a snapshot it read before a request (SetDNSServers may apply such rules
\* once more); the DNS servers never differ.
OnlyRefreshDiverges ==
  phase = "up" /\ changeMu = Free /\ ~swallowed =>
    /\ desired = cfg.rules \/ "rules" \in stale
    /\ acl.list = cfg.set.list \/ "acl" \in stale
    /\ servers = cfg.set.dns

\* An operation recorded as saved or applying is the latest one, and the
\* handler that holds changeMu is working on it: clients that poll it wait
\* for a live request.
UnfinishedIsLive ==
  \A n \in 1..Len(log) : log[n].state \in {"saved", "applying"} =>
    /\ n = Len(log)
    /\ \E h \in Handlers : changeMu = h /\ req[h].id = log[n].id
                           /\ req[h].pc \in {"saved", "applying", "observe"}

\* The saved configuration is in force.
InForce ==
  /\ phase = "up" /\ desired = cfg.rules
  /\ rows = [i \in Ids |-> NormalRow(cfg.rules[i])]
  /\ acl = AclOf(cfg.set, TRUE)
  /\ servers = cfg.set.dns \/ swallowed

\* Once requests and faults are over, the saved configuration comes into force
\* and stays: a later tick of the refresh loop repairs what an outdated
\* snapshot, a failed application or a failed listing of interfaces left, and
\* gives the access list back the bootstrap entries that leaving strict mode
\* through handleSettings does not.
EventuallyInForce == <>[]InForce
=============================================================================
